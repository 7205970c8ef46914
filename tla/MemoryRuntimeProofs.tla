------------------------ MODULE MemoryRuntimeProofs ------------------------
(***************************************************************************)
(* The memory sidecar, for any revisions and any number of operations,     *)
(* settings changes, failed writes and crashes.                            *)
(*                                                                         *)
(* First, no pointer names a revision that was never proven.  The pointers *)
(* travel: from memory into the arguments of a write, from there into the  *)
(* files, and after a crash from the files into memory.  The invariant     *)
(* therefore speaks of all three places; that a candidate is checked       *)
(* before its name is put into such a write is the one step where a new    *)
(* revision enters (Checked).                                              *)
(*                                                                         *)
(* Then, the sidecar in use and the files.  Two slots run tasks at once,   *)
(* but unless start() or close() overlapped an operation only one of them  *)
(* is busy (Calm), and what must be true depends on where that one task    *)
(* is (Good): how far its write got, which pointers it writes, whether a   *)
(* failed write or a crash may have left the files behind.  Types, Flow    *)
(* and Apart hold under every overlap: an operation never holds the        *)
(* sidecar in use as one of the processes it is going to stop.             *)
(***************************************************************************)
EXTENDS MemoryRuntime, TLAPS, FiniteSetTheorems, WellFoundedInduction

-----------------------------------------------------------------------------
(* No pointer to an unproven revision *)

\* A pair of pointers to proven revisions, or to none.
Proven(p) == p.cur \in proven \cup {None} /\ p.prev \in proven \cup {None}

\* Memory, the files, and what each task is about to write name proven revisions only.
AllProven ==
    /\ Proven(mem) /\ Proven(disk) /\ Proven(disk.all)
    /\ \A t \in Slots : Proven(task[t].doc)

\* The shape of the state, as far as it matters here.
Shape ==
    /\ DOMAIN mem = {"loaded", "cur", "prev"}
    /\ DOMAIN task = Slots
    /\ \A t \in Slots : {"at", "rev", "side", "old", "doc", "file"} \subseteq DOMAIN task[t]

IInv == Shape /\ AllProven

-----------------------------------------------------------------------------

\* The initial states satisfy the invariant.
LEMMA InitInv == Init => IInv
<1> SUFFICES ASSUME Init PROVE IInv
  OBVIOUS
<1>1. mem = [loaded |-> FALSE, cur |-> None, prev |-> None] /\ Proven(mem)
  BY DEF Init, Proven
<1>2. Proven(disk) /\ Proven(disk.all)
  BY DEF Init, Proven, NoPointers
<1>3. /\ DOMAIN task = Slots
      /\ \A t \in Slots : {"at", "rev", "side", "old", "doc", "file"} \subseteq DOMAIN task[t]
  BY DEF Init, IdleTask
<1>4. \A t \in Slots : Proven(task[t].doc)
  BY DEF Init, IdleTask, NoPointers, Proven
<1> QED BY <1>1, <1>2, <1>3, <1>4 DEF IInv, Shape, AllProven

\* A step that leaves memory and files alone, and lets a task write proven pointers.
LEMMA Working ==
    ASSUME IInv, UNCHANGED <<mem, disk, proven>>, NEW t \in Slots, NEW place, NEW p,
           Proven(p),
           \/ Goto(t, place) \/ End(t) \/ Save(t, place, p)
           \/ UNCHANGED task
    PROVE  IInv'
BY DEF IInv, Shape, AllProven, Proven, Goto, End, Save, IdleTask, NoPointers

\* start() takes its pointers from memory, or from the files.
LEMMA Starting ==
    ASSUME IInv, NEW kind, NEW to, Started(kind, to), UNCHANGED <<disk, proven>>
    PROVE  IInv'
<1>1. Proven(mem)' /\ Shape'
  BY DEF IInv, Shape, AllProven, Proven, Started, Loaded, Effective, IdleTask, Slots
<1>2. \A t \in Slots : Proven(task[t].doc)'
  BY <1>1 DEF IInv, Shape, AllProven, Proven, Started, IdleTask, Slots, NoPointers
<1> QED BY <1>1, <1>2 DEF IInv, AllProven, Proven

\* Every step preserves the invariant.
LEMMA StepInv == IInv /\ [Next]_vars => IInv'
<1> SUFFICES ASSUME IInv, [Next]_vars PROVE IInv'
  OBVIOUS
<1>1. Proven(OfMem) /\ Proven(NoPointers)
  BY DEF IInv, AllProven, Proven, OfMem, NoPointers
<1>2. CASE Resolve
  <2>1. CASE UNCHANGED <<mem, disk, proven>> /\ Goto("queue", "fail")
    BY <1>1, <2>1, Working DEF Slots
  <2>2. ASSUME NEW r \in Revisions, task' = [task EXCEPT !["queue"].at = "build", !["queue"].rev = r]
        PROVE  IInv'
    BY <1>2, <2>2 DEF Resolve, IInv, Shape, AllProven, Proven, Slots
  <2>3. CASE task' = [task EXCEPT !["queue"] = [IdleTask EXCEPT !.kind = "skip", !.at = "save", !.doc = OfMem]]
    BY <1>1, <1>2, <2>3 DEF Resolve, IInv, Shape, AllProven, Proven, Slots, IdleTask
  <2> QED BY <1>2, <2>1, <2>2, <2>3 DEF Resolve
<1>3. CASE Build
  BY <1>1, <1>3, Working DEF Build, Slots
<1>4. CASE Checked
  <2>1. CASE Goto("queue", "fail") /\ UNCHANGED proven
    BY <1>1, <1>4, <2>1, Working DEF Checked, Slots
  <2>2. CASE /\ proven' = proven \cup {task["queue"].rev}
             /\ task' = [task EXCEPT !["queue"].at = "point", !["queue"].old = side, !["queue"].file = 1,
                                     !["queue"].doc = [cur |-> task["queue"].rev, prev |-> mem.cur]]
    <3>1. task'["queue"].doc = [cur |-> task["queue"].rev, prev |-> mem.cur]
      BY <2>2 DEF IInv, Shape, Slots
    <3>2. task'["start"].doc = task["start"].doc
      BY <2>2 DEF IInv, Shape, Slots
    <3>3. Shape'
      BY <1>4, <2>2 DEF Checked, IInv, Shape, Slots
    <3>4. AllProven'
      BY <1>4, <2>2, <3>1, <3>2 DEF Checked, IInv, AllProven, Proven, Slots
    <3> QED BY <3>3, <3>4 DEF IInv
  <2> QED BY <1>4, <2>1, <2>2 DEF Checked
<1>5. CASE Recheck
  <2>1. CASE Save("queue", "undo", [cur |-> task["queue"].doc.prev, prev |-> mem.prev]) /\ UNCHANGED mem
    <3>1. Proven([cur |-> task["queue"].doc.prev, prev |-> mem.prev])
      BY DEF IInv, AllProven, Proven, Slots
    <3> QED BY <1>5, <2>1, <3>1, Working DEF Recheck, Slots
  <2>2. CASE /\ mem' = [mem EXCEPT !.cur = task["queue"].doc.cur, !.prev = task["queue"].doc.prev]
             /\ task' = [task EXCEPT !["queue"].at = "drain", !["queue"].side = NoSide]
    BY <1>5, <2>2 DEF Recheck, IInv, Shape, AllProven, Proven, Slots
  <2> QED BY <1>5, <2>1, <2>2 DEF Recheck
<1>6. CASE Drain
  BY <1>1, <1>6, Working DEF Drain, Slots
<1>7. CASE Fail
  BY <1>1, <1>7, Working DEF Fail, Slots
<1>8. CASE Prune
  BY <1>1, <1>8, Working DEF Prune, Slots
<1>9. ASSUME NEW t \in Slots, Launch(t) PROVE IInv'
  <2>1. CASE \E place : Goto(t, place)
    BY <1>1, <1>9, <2>1, Working DEF Launch
  <2>2. ASSUME NEW new, task' = [task EXCEPT ![t].at = "check", ![t].side = new] PROVE IInv'
    BY <1>9, <2>2 DEF Launch, IInv, Shape, AllProven, Proven
  <2> QED BY <1>9, <2>1, <2>2 DEF Launch
<1>10. ASSUME NEW t \in Slots, NEW place, Continue(t, place), UNCHANGED <<mem, proven>>,
              Proven(disk)', Proven(disk.all)'
       PROVE  IInv'
  <2>1. Proven([cur |-> task[t].doc.prev, prev |-> mem.prev])
    BY DEF IInv, AllProven, Proven
  <2> QED BY <1>10, <2>1 DEF Continue, Goto, End, Save, IInv, Shape, AllProven, Proven, IdleTask, NoPointers
<1>11. ASSUME NEW t \in Slots, Write(t) PROVE IInv'
  <2>1. Proven(disk)' /\ Proven(disk.all)' /\ UNCHANGED <<mem, proven>>
    BY <1>11 DEF Write, Put, IInv, AllProven, Proven
  <2>2. CASE task' = [task EXCEPT ![t].file = @ + 1]
    BY <2>1, <2>2 DEF IInv, Shape, AllProven, Proven
  <2>3. CASE Continue(t, AfterWrites(t))
    BY <1>10, <2>1, <2>3
  <2> QED BY <1>11, <2>2, <2>3 DEF Write
<1>12. ASSUME NEW t \in Slots, WriteFails(t) PROVE IInv'
  <2>1. Proven(disk)' /\ Proven(disk.all)' /\ UNCHANGED <<mem, proven>>
    BY <1>1, <1>12 DEF WriteFails, Put, IInv, AllProven, Proven
  <2> QED BY <1>10, <1>12, <2>1 DEF WriteFails
<1>13. CASE Boot
  BY <1>13, Starting DEF Boot
<1>14. CASE StartChecked
  BY <1>1, <1>14, Working DEF StartChecked, Slots
<1>15. CASE Unserve("start")
  BY <1>1, <1>15, Working DEF Unserve, Slots
<1>16. ASSUME NEW to, Patch(to) PROVE IInv'
  BY <1>16, Starting DEF Patch
<1>17. ASSUME NEW kind, Begin(kind) PROVE IInv'
  <2>1. Proven(mem)' /\ DOMAIN mem' = {"loaded", "cur", "prev"}
    BY <1>17 DEF Begin, Loaded, Effective, IInv, Shape, AllProven, Proven
  <2> QED BY <1>17, <2>1 DEF Begin, IInv, Shape, AllProven, Proven, IdleTask, Slots
<1>18. CASE Close
  BY <1>18 DEF Close, IInv, Shape, AllProven, Proven, IdleTask, NoPointers, Slots
<1>19. CASE Crash
  BY <1>19 DEF Crash, IInv, Shape, AllProven, Proven, IdleTask, NoPointers, Slots
<1>20. CASE UNCHANGED vars
  BY <1>20 DEF vars, IInv, Shape, AllProven, Proven
<1> QED BY <1>2, <1>3, <1>4, <1>5, <1>6, <1>7, <1>8, <1>9, <1>11, <1>12, <1>13, <1>14, <1>15, <1>16, <1>17, <1>18, <1>19, <1>20
        DEF Next, QueueStep, StartStep, Slots

-----------------------------------------------------------------------------
(* Types and processes, and what the one task under way knows *)

Kinds == {"idle", "boot", "start", "close", "update", "rollback", "probe", "skip"}
Places == {"idle", "boot", "launch", "check", "save", "unserve", "mark", "resolve", "build", "point",
           "recheck", "undo", "drain", "prune", "fail", "failsave"}
Task == [kind : Kinds, at : Places, rev : Revisions \cup {None}, side : Sides, old : Sides,
         doc : Pointers, file : 1 .. 3]

\* Every variable has its type; a process has a pid of its own, and never pid 0.
Types ==
    /\ setting \in {"on", "off", "none"}
    /\ mem \in [loaded : BOOLEAN, cur : Revisions \cup {None}, prev : Revisions \cup {None}]
    /\ disk \in [all : Pointers, cur : Revisions \cup {None}, prev : Revisions \cup {None}]
    /\ installed \in [Revisions -> {"absent", "whole", "broken"}]
    /\ side \in Sides /\ procs \subseteq Sides /\ IsFiniteSet(procs)
    /\ \A p \in procs : p.pid # 0
    /\ \A p, q \in procs : p.pid = q.pid => p = q
    /\ task \in [Slots -> Task]
    /\ closed \in BOOLEAN /\ overlapped \in BOOLEAN /\ proven \subseteq Revisions
    /\ spent \in [ops : Nat, patches : Nat, faults : Nat]

\* A pid that no process in sight has.
LEMMA Fresh ==
    ASSUME Types, NEW r \in Revisions \cup {None}
    PROVE  /\ Spawned(r) \in Sides /\ Spawned(r).rev = r
           /\ Spawned(r).pid \in Nat \ {0} /\ Spawned(r).pid \notin Pids
<1> DEFINE seen == procs \cup {side, task["queue"].side, task["start"].side, task["queue"].old, task["start"].old}
           k == Cardinality(Pids)
<1>1. Pids = {s.pid : s \in seen}
  BY DEF Pids, Slots
<1>2. IsFiniteSet({side, task["queue"].side, task["start"].side, task["queue"].old, task["start"].old})
  <2>1. IsFiniteSet({side}) /\ IsFiniteSet({side, task["queue"].side})
    <3>1. IsFiniteSet({} \cup {side})
      BY FS_EmptySet, FS_AddElement
    <3>2. IsFiniteSet(({} \cup {side}) \cup {task["queue"].side})
      BY <3>1, FS_AddElement
    <3> QED BY <3>1, <3>2
  <2>2. IsFiniteSet({side, task["queue"].side} \cup {task["start"].side})
    BY <2>1, FS_AddElement
  <2>3. IsFiniteSet(({side, task["queue"].side} \cup {task["start"].side}) \cup {task["queue"].old})
    BY <2>2, FS_AddElement
  <2>4. IsFiniteSet((({side, task["queue"].side} \cup {task["start"].side}) \cup {task["queue"].old}) \cup {task["start"].old})
    BY <2>3, FS_AddElement
  <2> QED BY <2>4
<1>3. IsFiniteSet(seen)
  BY <1>2, FS_Union DEF Types
<1>4. IsFiniteSet(Pids)
  <2> DEFINE f == [s \in seen |-> s.pid]
  <2>1. f \in Surjection(seen, Pids)
    <3> HIDE DEF seen
    <3> QED BY <1>1 DEF Surjection
  <2> HIDE DEF seen
  <2> QED BY <1>3, <2>1, FS_Surjection
<1>5. k \in Nat
  BY <1>4, FS_CardinalityType
<1>6. IsFiniteSet(1 .. k + 1) /\ Cardinality(1 .. k + 1) = k + 1
  <2> HIDE DEF k
  <2> QED BY <1>5, FS_Interval
<1>7. \E n \in 1 .. k + 1 : n \notin Pids
  <2> SUFFICES ASSUME 1 .. k + 1 \subseteq Pids PROVE FALSE
    OBVIOUS
  <2>1. k + 1 <= k
    BY <1>4, <1>6, FS_Subset
  <2> QED BY <1>5, <2>1
<1>8. Spawned(r).pid \in 1 .. k + 1 /\ Spawned(r).pid \notin Pids /\ Spawned(r).rev = r
      /\ DOMAIN Spawned(r) = {"rev", "pid"}
  <2>1. Spawned(r) = [rev |-> r, pid |-> CHOOSE n \in 1 .. k + 1 : n \notin Pids]
    BY DEF Spawned
  <2> HIDE DEF k
  <2> QED BY <1>7, <2>1
<1>9. Spawned(r) \in Sides
  BY <1>5, <1>8 DEF Sides, Spawned
<1> QED BY <1>5, <1>8, <1>9

\* How Goto, End and Save change a task.
LEMMA Going ==
    ASSUME Types, NEW t \in Slots
    PROVE  /\ \A place \in Places : Goto(t, place) =>
                /\ task' \in [Slots -> Task] /\ task'[t] = [task[t] EXCEPT !.at = place]
                /\ \A u \in Slots \ {t} : task'[u] = task[u]
           /\ End(t) =>
                /\ task' \in [Slots -> Task] /\ task'[t] = IdleTask
                /\ \A u \in Slots \ {t} : task'[u] = task[u]
           /\ \A place \in Places, p \in Pointers : Save(t, place, p) =>
                /\ task' \in [Slots -> Task] /\ task'[t] = [task[t] EXCEPT !.at = place, !.doc = p, !.file = 1]
                /\ \A u \in Slots \ {t} : task'[u] = task[u]
<1>1. ASSUME NEW place \in Places, Goto(t, place)
      PROVE  /\ task' \in [Slots -> Task] /\ task'[t] = [task[t] EXCEPT !.at = place]
             /\ \A u \in Slots \ {t} : task'[u] = task[u]
  BY <1>1 DEF Goto, Types, Task
<1>2. IdleTask \in Task
  BY DEF IdleTask, Task, Kinds, Places, NoSide, NoPointers, Pointers, Sides
<1>3. ASSUME End(t)
      PROVE  /\ task' \in [Slots -> Task] /\ task'[t] = IdleTask
             /\ \A u \in Slots \ {t} : task'[u] = task[u]
  BY <1>2, <1>3 DEF End, Types
<1>4. ASSUME NEW place \in Places, NEW p \in Pointers, Save(t, place, p)
      PROVE  /\ task' \in [Slots -> Task] /\ task'[t] = [task[t] EXCEPT !.at = place, !.doc = p, !.file = 1]
             /\ \A u \in Slots \ {t} : task'[u] = task[u]
  <2> DEFINE r == [task[t] EXCEPT !.at = place, !.doc = p, !.file = 1]
  <2>1. task' = [task EXCEPT ![t] = r]
    BY <1>4 DEF Save, Types, Task
  <2>2. r \in Task
    <3>1. task[t] \in Task /\ 1 \in 1 .. 3
      BY DEF Types
    <3> QED BY <3>1 DEF Task
  <2> HIDE DEF r
  <2>3. task' \in [Slots -> Task] /\ task'[t] = r /\ \A u \in Slots \ {t} : task'[u] = task[u]
    BY <2>1, <2>2 DEF Types
  <2> QED BY <2>3 DEF r
<1> QED BY <1>1, <1>3, <1>4

\* Which kinds of tasks there are where, and where they are.
Fits(t, r) ==
    /\ r.kind = "idle" <=> r.at = "idle"
    /\ r.at = "idle" => r = IdleTask
    /\ t = "queue" => /\ r.kind \in {"idle", "update", "rollback", "probe", "skip"}
                      /\ r.at \notin {"boot", "unserve"}
                      /\ r.at \notin {"idle", "save", "fail", "failsave"} => r.kind \in {"update", "rollback"}
                      /\ r.at \in {"build", "launch", "check"} => r.rev \in Revisions
                      /\ r.at = "mark" /\ r.kind = "rollback" => r.rev \in Revisions
    /\ t = "start" => /\ r.kind \in {"idle", "boot", "start", "close"}
                      /\ r.at \in {"idle", "boot", "launch", "check", "save", "unserve"}
                      /\ r.at = "boot" => r.kind = "boot"
                      /\ r.at = "launch" => r.rev \in Revisions

Flow == \A t \in Slots : Fits(t, task[t])

Memories == [loaded : BOOLEAN, cur : Revisions \cup {None}, prev : Revisions \cup {None}]
Disks == [all : Pointers, cur : Revisions \cup {None}, prev : Revisions \cup {None}]

\* Values the steps are built from.
LEMMA Shapes ==
    ASSUME Types
    PROVE  /\ OfMem \in Pointers /\ NoPointers \in Pointers /\ IdleTask \in Task /\ NoSide \in Sides
           /\ Loaded \in Memories /\ mem \in Memories /\ disk \in Disks /\ NoPointers.cur = None /\ NoPointers.prev = None
           /\ \A n \in 1 .. 3, p \in Pointers : Put(n, p) \in Disks
<1>1. OfMem \in Pointers /\ NoPointers \in Pointers /\ NoSide \in Sides
  BY DEF Types, OfMem, Pointers, NoPointers, Sides, NoSide
<1>2. IdleTask \in Task
  BY <1>1 DEF IdleTask, Task, Kinds, Places
<1>3. mem \in Memories /\ disk \in Disks
  BY DEF Types, Memories, Disks
<1>4. Loaded \in Memories
  BY <1>3 DEF Loaded, Effective, Memories, Disks, Pointers
<1>5. \A n \in 1 .. 3, p \in Pointers : Put(n, p) \in Disks
  BY <1>3 DEF Put, Disks, Pointers
<1> QED BY <1>1, <1>2, <1>3, <1>4, <1>5 DEF NoPointers

\* Where a task goes on after its writes, or after an error.
LEMMA Onward ==
    ASSUME Types, Flow, NEW t \in Slots, NEW place, Continue(t, place),
           place \in {"recheck", "undo", "resolve", "launch", "prune", "fail", "end"},
           place \notin {"fail", "end"} => task[t].kind \in {"update", "rollback"},
           place = "launch" => task[t].rev \in Revisions,
           t = "start" => place = "end", task[t].at # "idle"
    PROVE  task' \in [Slots -> Task] /\ Flow' /\ \A u \in Slots \ {t} : task'[u] = task[u]
<1>1. \/ End(t)
      \/ place = "undo" /\ \E p \in Pointers : t = "queue" /\ Save(t, "undo", p)
      \/ place \notin {"undo", "end"} /\ t = "queue" /\ Goto(t, place)
  <2>1. [cur |-> task[t].doc.prev, prev |-> mem.prev] \in Pointers
    BY DEF Types, Task, Pointers
  <2> QED BY <2>1 DEF Continue, Slots
<1>2. CASE End(t)
  <2>1. Fits(t, IdleTask)
    BY DEF Fits, IdleTask
  <2> QED BY <1>2, <2>1, Going DEF Flow
<1>3. ASSUME place = "undo", NEW p \in Pointers, t = "queue", Save(t, "undo", p)
      PROVE  task' \in [Slots -> Task] /\ Flow' /\ \A u \in Slots \ {t} : task'[u] = task[u]
  <2> DEFINE r == [task[t] EXCEPT !.at = "undo", !.doc = p, !.file = 1]
  <2>1. task' \in [Slots -> Task] /\ task'[t] = r /\ \A u \in Slots \ {t} : task'[u] = task[u]
    BY <1>3, Going DEF Places
  <2>2. task[t] \in Task /\ Fits(t, task[t])
    BY DEF Types, Flow
  <2>3. Fits(t, r)
    BY <1>3, <2>2 DEF Fits, Task
  <2> HIDE DEF r
  <2> QED BY <2>1, <2>3 DEF Flow
<1>4. CASE place \notin {"undo", "end"} /\ t = "queue" /\ Goto(t, place)
  <2> DEFINE r == [task[t] EXCEPT !.at = place]
  <2>1. task' \in [Slots -> Task] /\ task'[t] = r /\ \A u \in Slots \ {t} : task'[u] = task[u]
    <3>1. place \in Places
      BY <1>4 DEF Places
    <3> QED BY <1>4, <3>1, Going
  <2>2. task[t] \in Task /\ Fits(t, task[t])
    BY DEF Types, Flow
  <2>3. Fits(t, r)
    BY <1>4, <2>2 DEF Fits, Task
  <2> HIDE DEF r
  <2> QED BY <2>1, <2>3 DEF Flow
<1> QED BY <1>1, <1>2, <1>3, <1>4

\* Whom the queue's operation may stop is not the sidecar in use.
Apart ==
    LET q == task["queue"] IN
    /\ q.side # NoSide => q.side # side
    /\ q.at \in {"point", "recheck", "undo"} /\ q.side # NoSide => q.side # q.old
    /\ q.at = "drain" /\ side # NoSide => side # q.old

\* The three files say p, each of them.
Full(p) == disk = [all |-> p, cur |-> p.cur, prev |-> p.prev]

Named == {mem.cur, mem.prev, disk.all.cur, disk.all.prev, disk.cur, disk.prev}

\* What holds while r is the only task: of the revisions that are named, the sidecar in use,
\* the pointers r is about to write, and the files.
NamesWhole(r) == \A v \in (Named \cup {r.doc.cur, r.doc.prev}) \ {None} : installed[v] = "whole"
Unread(r) ==
    ~mem.loaded => /\ mem.cur = None /\ mem.prev = None /\ side = NoSide
                   /\ r.at \in {"idle", "boot", "unserve"}
                   /\ spent.faults = 0 => Full(NoPointers)
Serving(r) ==
    /\ side # NoSide => side.rev = mem.cur /\ side \in procs
    /\ r.at = "launch" /\ r.kind \notin {"update", "rollback"} => r.rev = mem.cur
    /\ r.at \in {"check", "point", "recheck"} /\ r.kind \in {"update", "rollback"} => r.side.rev = r.rev
Intends(r) ==
    /\ r.at \in {"point", "recheck"} => r.doc = [cur |-> r.rev, prev |-> mem.cur]
    /\ r.at \in {"mark", "save", "undo", "prune", "failsave"} => r.doc = OfMem
Wrote(r) ==
    r.at \in {"mark", "point", "undo", "save", "failsave"} =>
        /\ r.file > 1 => disk.all = r.doc
        /\ r.file > 2 => disk.cur = r.doc.cur
Recorded(r) ==
    /\ r.at = "recheck" => Full(r.doc)
    /\ r.at \in {"drain", "prune"} => Full(OfMem)
    /\ mem.loaded /\ spent.faults = 0 /\ r.at \notin {"point", "recheck", "undo"} => Full(OfMem)
    /\ mem.loaded /\ spent.faults <= 1 /\ r.at \notin {"point", "recheck", "undo", "fail", "failsave"}
          => Effective = OfMem

Good(r) == NamesWhole(r) /\ Unread(r) /\ Serving(r) /\ Intends(r) /\ Wrote(r) /\ Recorded(r)

\* Unless start() or close() overlapped an operation, one task at most is under way.
Calm == ~overlapped => \E t \in Slots : Good(task[t]) /\ \A u \in Slots \ {t} : task[u] = IdleTask

MInv == Types /\ Flow /\ Apart /\ Calm

-----------------------------------------------------------------------------
(* Steps of the task under way *)

\* Whoever is at work, undisturbed, is alone.
LEMMA Acting ==
    ASSUME MInv, ~overlapped, NEW t \in Slots, task[t].at # "idle"
    PROVE  Good(task[t]) /\ \A u \in Slots \ {t} : task[u] = IdleTask
<1>1. PICK s \in Slots : Good(task[s]) /\ \A u \in Slots \ {s} : task[u] = IdleTask
  BY DEF MInv, Calm
<1>2. IdleTask.at = "idle"
  BY DEF IdleTask
<1>3. s = t
  BY <1>1, <1>2
<1> QED BY <1>1, <1>3

\* A task's step preserves the invariant if types, processes and what it knows do.
LEMMA Stepping ==
    ASSUME MInv, Types', Apart', overlapped' = overlapped, NEW t \in Slots, task[t].at # "idle",
           Fits(t, task'[t]), \A u \in Slots \ {t} : task'[u] = task[u],
           ~overlapped => Good(task[t])'
    PROVE  MInv'
<1>1. Flow'
  BY DEF MInv, Flow
<1>2. Calm'
  <2>1. ASSUME ~overlapped PROVE \A u \in Slots \ {t} : task'[u] = IdleTask
    BY <2>1, Acting
  <2> QED BY <2>1 DEF Calm
<1> QED BY <1>1, <1>2 DEF MInv

\* Where the queue's operation stands, its processes are not the sidecar in use.
Parted(q) ==
    /\ q.side # NoSide => q.side # side
    /\ q.at \in {"point", "recheck", "undo"} /\ q.side # NoSide => q.side # q.old
    /\ q.at = "drain" /\ side # NoSide => side # q.old

\* A step that changes its task only.
LEMMA Still ==
    ASSUME MInv, UNCHANGED <<setting, mem, disk, installed, side, procs, closed, overlapped, spent>>,
           proven' \subseteq Revisions, NEW t \in Slots, NEW r, task[t].at # "idle",
           task' \in [Slots -> Task] /\ task'[t] = r /\ \A u \in Slots \ {t} : task'[u] = task[u],
           Fits(t, r), t = "queue" => Parted(r),
           ~overlapped => Good(r)
    PROVE  MInv'
<1>1. Types'
  BY DEF MInv, Types
<1>2. Apart'
  BY DEF MInv, Apart, Parted, Slots
<1>3. ~overlapped => Good(task[t])'
  BY DEF Good, NamesWhole, Named, Unread, Serving, Intends, Wrote, Recorded, Full, OfMem, Effective
<1> QED BY <1>1, <1>2, <1>3, Stepping

\* A task that changes its place only.
LEMMA Place ==
    ASSUME MInv, UNCHANGED <<setting, mem, disk, installed, side, procs, closed, overlapped, spent, proven>>,
           NEW t \in Slots, NEW place \in Places, task[t].at # "idle", Goto(t, place),
           \/ t = "queue" /\ task[t].at \in {"resolve", "build", "check", "launch"} /\ place \in {"fail", "launch"}
              /\ (place = "launch" => task[t].at = "build")
           \/ t = "start" /\ task[t].at \in {"check", "launch"} /\ place = "unserve"
    PROVE  MInv'
<1> DEFINE r == [task[t] EXCEPT !.at = place]
<1>1. task' \in [Slots -> Task] /\ task'[t] = r /\ \A u \in Slots \ {t} : task'[u] = task[u]
  BY Going DEF MInv
<1>2. task[t] \in Task /\ Fits(t, task[t]) /\ (t = "queue" => Parted(task[t]))
  BY DEF MInv, Types, Flow, Apart, Parted
<1>3. /\ r.at = place /\ r.kind = task[t].kind /\ r.rev = task[t].rev /\ r.side = task[t].side
      /\ r.old = task[t].old /\ r.doc = task[t].doc /\ r.file = task[t].file
  BY <1>2 DEF Task
<1> HIDE DEF r
<1>4. Fits(t, r)
  BY <1>2, <1>3 DEF Fits
<1>5. t = "queue" => Parted(r)
  BY <1>2, <1>3 DEF Parted
<1>6. ASSUME ~overlapped PROVE Good(r)
  <2>1. Good(task[t])
    BY <1>6, Acting
  <2>2. place \in {"fail", "launch", "unserve"}
    OBVIOUS
  <2>3. NamesWhole(r)
    BY <1>3, <2>1 DEF Good, NamesWhole
  <2>4. Unread(r) /\ Serving(r)
    BY <1>2, <1>3, <2>1, <2>2 DEF Good, Unread, Serving, Fits
  <2>5. Intends(r) /\ Wrote(r)
    BY <1>3, <2>2 DEF Intends, Wrote
  <2>6. Recorded(r)
    BY <1>3, <2>1, <2>2 DEF Good, Recorded
  <2> QED BY <2>3, <2>4, <2>5, <2>6 DEF Good
<1> QED BY <1>1, <1>2, <1>4, <1>5, <1>6, Still DEF MInv, Types

\* Three files that say p are read as p.
LEMMA FullSays == ASSUME NEW p \in Pointers, Full(p) PROVE Effective = p
BY DEF Full, Effective, Pointers

\* Memory's pointers, as a pair.
LEMMA Pair == ASSUME Types PROVE OfMem \in Pointers /\ OfMem.cur = mem.cur /\ OfMem.prev = mem.prev
BY DEF Types, OfMem, Pointers

\* A task that ends, knowing the files say what memory says.
LEMMA Ending ==
    ASSUME NEW r, Good(r), mem.loaded \/ r.at = "unserve", mem.loaded /\ spent.faults <= 1 => Effective = OfMem,
           mem.loaded /\ spent.faults = 0 => Full(OfMem)
    PROVE  Good(IdleTask)
<1>1. IdleTask.at = "idle" /\ IdleTask.doc = NoPointers /\ NoPointers.cur = None /\ NoPointers.prev = None
  BY DEF IdleTask, NoPointers
<1>2. NamesWhole(IdleTask)
  BY <1>1 DEF Good, NamesWhole
<1>3. Unread(IdleTask) /\ Serving(IdleTask)
  BY <1>1 DEF Good, Unread, Serving
<1> QED BY <1>1, <1>2, <1>3 DEF Good, Intends, Wrote, Recorded

\* resolveRevision()
LEMMA Resolving == ASSUME MInv, Resolve PROVE MInv'
<1> DEFINE q == task["queue"]
<1>0. /\ q \in Task /\ Fits("queue", q) /\ q.at = "resolve" /\ "queue" \in Slots /\ Types /\ Parted(q)
      /\ UNCHANGED <<setting, mem, disk, installed, side, procs, closed, overlapped, spent, proven>>
      /\ OfMem \in Pointers /\ OfMem.cur = mem.cur /\ OfMem.prev = mem.prev
  BY Pair DEF MInv, Types, Flow, Slots, Resolve, Apart, Parted
<1>1. CASE Goto("queue", "fail")
  BY <1>0, <1>1, Place DEF Places
<1>2. CASE task' = [task EXCEPT !["queue"] = [IdleTask EXCEPT !.kind = "skip", !.at = "save", !.doc = OfMem]]
  <2> DEFINE r == [IdleTask EXCEPT !.kind = "skip", !.at = "save", !.doc = OfMem]
  <2>1. /\ r.kind = "skip" /\ r.at = "save" /\ r.doc = OfMem /\ r.file = 1 /\ r.side = NoSide
    BY DEF IdleTask
  <2>2. r \in Task
    BY <1>0, Shapes DEF IdleTask, Task, Kinds, Places
  <2> HIDE DEF r
  <2>3. task' \in [Slots -> Task] /\ task'["queue"] = r /\ \A u \in Slots \ {"queue"} : task'[u] = task[u]
    BY <1>0, <1>2, <2>2 DEF Types, r
  <2>4. Fits("queue", r) /\ Parted(r)
    BY <2>1 DEF Fits, Parted
  <2>5. ASSUME ~overlapped PROVE Good(r)
    <3>1. Good(q)
      BY <1>0, <2>5, Acting
    <3>2. NamesWhole(r)
      BY <1>0, <2>1, <3>1 DEF Good, NamesWhole, Named
    <3>3. Unread(r) /\ Serving(r) /\ Intends(r) /\ Wrote(r)
      BY <1>0, <2>1, <3>1 DEF Good, Unread, Serving, Intends, Wrote
    <3>4. Recorded(r)
      BY <1>0, <2>1, <3>1 DEF Good, Unread, Recorded
    <3> QED BY <3>2, <3>3, <3>4 DEF Good
  <2> QED BY <1>0, <2>3, <2>4, <2>5, Still DEF Types
<1>3. ASSUME NEW v \in Revisions, task' = [task EXCEPT !["queue"].at = "build", !["queue"].rev = v]
      PROVE  MInv'
  <2> DEFINE r == [q EXCEPT !.at = "build", !.rev = v]
  <2>1. /\ r.kind = q.kind /\ r.at = "build" /\ r.rev = v /\ r.doc = q.doc /\ r.side = q.side /\ r.old = q.old
    BY <1>0 DEF Task
  <2>2. r \in Task /\ task' = [task EXCEPT !["queue"] = r]
    BY <1>0, <1>3 DEF Task, Places, Types
  <2> HIDE DEF r
  <2>3. task' \in [Slots -> Task] /\ task'["queue"] = r /\ \A u \in Slots \ {"queue"} : task'[u] = task[u]
    BY <1>0, <2>2 DEF Types
  <2>4. Fits("queue", r) /\ Parted(r)
    BY <1>0, <2>1 DEF Fits, Parted
  <2>5. ASSUME ~overlapped PROVE Good(r)
    <3>1. Good(q)
      BY <1>0, <2>5, Acting
    <3>2. NamesWhole(r)
      BY <2>1, <3>1 DEF Good, NamesWhole
    <3>3. Unread(r) /\ Serving(r) /\ Intends(r) /\ Wrote(r) /\ Recorded(r)
      BY <1>0, <2>1, <3>1 DEF Good, Unread, Serving, Intends, Wrote, Recorded
    <3> QED BY <3>2, <3>3 DEF Good
  <2> QED BY <1>0, <2>3, <2>4, <2>5, Still DEF Types
<1> QED BY <1>1, <1>2, <1>3 DEF Resolve

\* buildCandidate()
LEMMA Building == ASSUME MInv, Build PROVE MInv'
<1> DEFINE q == task["queue"]
<1>0. /\ q \in Task /\ Fits("queue", q) /\ q.at = "build" /\ "queue" \in Slots /\ Types
      /\ UNCHANGED <<setting, mem, disk, side, procs, closed, overlapped, spent, proven>>
      /\ Parted(q) /\ q.rev \in Revisions
  BY DEF MInv, Types, Flow, Slots, Build, Apart, Parted, Fits
<1>1. CASE Goto("queue", "fail") /\ UNCHANGED installed
  BY <1>0, <1>1, Place DEF Places
<1>2. CASE /\ Goto("queue", "launch")
           /\ installed' = [installed EXCEPT ![q.rev] = IF @ = "absent" THEN "whole" ELSE @]
  <2>1. installed' \in [Revisions -> {"absent", "whole", "broken"}]
        /\ \A v \in Revisions : installed[v] = "whole" => installed'[v] = "whole"
    BY <1>0, <1>2 DEF Types
  <2>2. task' \in [Slots -> Task] /\ task'["queue"] = [q EXCEPT !.at = "launch"]
        /\ \A u \in Slots \ {"queue"} : task'[u] = task[u]
    BY <1>0, <1>2, Going DEF Places
  <2> DEFINE r == task'["queue"]
  <2>3. /\ r.kind = q.kind /\ r.at = "launch" /\ r.rev = q.rev /\ r.doc = q.doc /\ r.side = q.side /\ r.old = q.old
    BY <1>0, <2>2 DEF Task
  <2>4. Types'
    BY <1>0, <2>1, <2>2 DEF Types
  <2>5. Fits("queue", r)
    BY <1>0, <2>3 DEF Fits
  <2>6. Apart'
    BY <1>0, <2>3 DEF Apart, Parted
  <2>7. ASSUME ~overlapped PROVE Good(q)'
    <3>1. Good(q)
      BY <1>0, <2>7, Acting
    <3>2. Named \ {None} \subseteq Revisions /\ {q.doc.cur, q.doc.prev} \ {None} \subseteq Revisions
      BY <1>0 DEF Types, Named, Task, Pointers
    <3>3. NamesWhole(q)'
      BY <1>0, <2>1, <2>3, <3>1, <3>2 DEF Good, NamesWhole, Named
    <3>4. Unread(q)' /\ Serving(q)' /\ Intends(q)' /\ Wrote(q)'
      BY <1>0, <2>3, <3>1 DEF Good, Unread, Serving, Intends, Wrote, Fits
    <3>5. Recorded(q)'
      BY <1>0, <2>3, <3>1 DEF Good, Recorded, Full, OfMem, Effective
    <3> QED BY <3>3, <3>4, <3>5 DEF Good
  <2> QED BY <1>0, <2>2, <2>4, <2>5, <2>6, <2>7, Stepping
<1> QED BY <1>1, <1>2 DEF Build

\* The candidate is checked: from now on the pointers that name it are written.
LEMMA Checking == ASSUME MInv, Checked PROVE MInv'
<1> DEFINE q == task["queue"]
<1>0. /\ q \in Task /\ Fits("queue", q) /\ q.at = "check" /\ "queue" \in Slots /\ Types
      /\ UNCHANGED <<setting, mem, disk, installed, side, procs, closed, overlapped, spent>>
      /\ Parted(q) /\ q.rev \in Revisions /\ side \in Sides
  BY DEF MInv, Types, Flow, Slots, Checked, Apart, Parted, Fits
<1>1. CASE Goto("queue", "fail") /\ UNCHANGED proven
  BY <1>0, <1>1, Place DEF Places
<1>2. CASE /\ Answers(q.side) /\ proven' = proven \cup {q.rev}
           /\ task' = [task EXCEPT !["queue"].at = "point", !["queue"].old = side, !["queue"].file = 1,
                                   !["queue"].doc = [cur |-> q.rev, prev |-> mem.cur]]
  <2> DEFINE d == [cur |-> q.rev, prev |-> mem.cur]
             r == [q EXCEPT !.at = "point", !.old = side, !.file = 1, !.doc = d]
  <2>1. d \in Pointers /\ 1 \in 1 .. 3 /\ d.cur = q.rev /\ d.prev = mem.cur
    BY <1>0 DEF Types, Pointers
  <2>2. /\ r.kind = q.kind /\ r.at = "point" /\ r.rev = q.rev /\ r.doc = d /\ r.side = q.side
        /\ r.old = side /\ r.file = 1
    <3> HIDE DEF d
    <3> QED BY <1>0 DEF Task
  <2>3. r \in Task /\ task' = [task EXCEPT !["queue"] = r]
    <3> HIDE DEF d
    <3>1. r \in Task
      BY <1>0, <2>1 DEF Task, Places
    <3>2. task' = [task EXCEPT !["queue"].at = "point", !["queue"].old = side, !["queue"].file = 1,
                               !["queue"].doc = d]
      BY <1>2 DEF d
    <3>3. task' = [task EXCEPT !["queue"] = r]
      BY <1>0, <3>2 DEF Types, Task
    <3> QED BY <3>1, <3>3
  <2> HIDE DEF r
  <2>4. task' \in [Slots -> Task] /\ task'["queue"] = r /\ \A u \in Slots \ {"queue"} : task'[u] = task[u]
    BY <1>0, <2>3 DEF Types
  <2>5. Fits("queue", r) /\ Parted(r)
    BY <1>0, <2>2 DEF Fits, Parted
  <2>6. ASSUME ~overlapped PROVE Good(r)
    <3>1. Good(q)
      BY <1>0, <2>6, Acting
    <3>2. q.side.rev = q.rev /\ installed[q.rev] = "whole" /\ mem.loaded
      BY <1>0, <1>2, <3>1 DEF Good, Serving, Unread, Answers, Fits
    <3>3. NamesWhole(r)
      BY <2>1, <2>2, <3>1, <3>2 DEF Good, NamesWhole, Named
    <3>4. Unread(r) /\ Serving(r) /\ Intends(r) /\ Wrote(r)
      BY <2>2, <3>1, <3>2 DEF Good, Unread, Serving, Intends, Wrote
    <3>5. Recorded(r)
      BY <2>2 DEF Recorded
    <3> QED BY <3>3, <3>4, <3>5 DEF Good
  <2>7. proven' \subseteq Revisions
    BY <1>0, <1>2 DEF Types
  <2> HIDE DEF d
  <2> QED BY <1>0, <2>4, <2>5, <2>6, <2>7, Still
<1> QED BY <1>1, <1>2 DEF Checked

\* The candidate becomes the sidecar in use, or the pointers are put back.
LEMMA Rechecking == ASSUME MInv, Recheck PROVE MInv'
<1> DEFINE q == task["queue"]
<1>0. /\ q \in Task /\ Fits("queue", q) /\ q.at = "recheck" /\ "queue" \in Slots /\ Types
      /\ UNCHANGED <<setting, disk, installed, procs, closed, overlapped, spent, proven>>
      /\ Parted(q) /\ q.side \in Sides /\ q.doc \in Pointers /\ mem \in Memories
      /\ NoSide \notin procs
  BY DEF MInv, Types, Flow, Slots, Recheck, Apart, Parted, Task, Memories, NoSide
<1>1. CASE /\ Save("queue", "undo", [cur |-> q.doc.prev, prev |-> mem.prev])
           /\ UNCHANGED <<mem, side>>
  <2> DEFINE d == [cur |-> q.doc.prev, prev |-> mem.prev]
             r == [q EXCEPT !.at = "undo", !.doc = d, !.file = 1]
  <2>1. d \in Pointers /\ d.cur = q.doc.prev /\ d.prev = mem.prev
    BY <1>0 DEF Memories, Pointers
  <2>2. task' \in [Slots -> Task] /\ task'["queue"] = r /\ \A u \in Slots \ {"queue"} : task'[u] = task[u]
    <3> HIDE DEF d
    <3>1. Save("queue", "undo", d)
      BY <1>1 DEF d
    <3> QED BY <1>0, <2>1, <3>1, Going DEF Places
  <2>3. /\ r.kind = q.kind /\ r.at = "undo" /\ r.rev = q.rev /\ r.doc = d /\ r.side = q.side
        /\ r.old = q.old /\ r.file = 1
    <3> HIDE DEF d
    <3> QED BY <1>0 DEF Task
  <2> HIDE DEF r
  <2>4. Fits("queue", r) /\ Parted(r)
    BY <1>0, <2>3 DEF Fits, Parted
  <2>5. ASSUME ~overlapped PROVE Good(r)
    <3>1. Good(q)
      BY <1>0, <2>5, Acting
    <3>2. d = OfMem /\ mem.loaded
      BY <1>0, <3>1 DEF Good, Intends, Unread, OfMem
    <3>3. NamesWhole(r)
      BY <2>1, <2>3, <3>1, <3>2 DEF Good, NamesWhole, Named, OfMem
    <3>4. Unread(r) /\ Serving(r) /\ Intends(r) /\ Wrote(r)
      BY <2>3, <3>1, <3>2 DEF Good, Unread, Serving, Intends, Wrote
    <3>5. Recorded(r)
      BY <2>3 DEF Recorded
    <3> QED BY <3>3, <3>4, <3>5 DEF Good
  <2> HIDE DEF d
  <2> QED BY <1>0, <1>1, <2>2, <2>4, <2>5, Still DEF Types
<1>2. CASE /\ Answers(q.side)
           /\ mem' = [mem EXCEPT !.cur = q.doc.cur, !.prev = q.doc.prev]
           /\ side' = q.side
           /\ task' = [task EXCEPT !["queue"].at = "drain", !["queue"].side = NoSide]
  <2> DEFINE r == [q EXCEPT !.at = "drain", !.side = NoSide]
  <2>1. /\ mem' \in Memories /\ mem'.loaded = mem.loaded /\ mem'.cur = q.doc.cur /\ mem'.prev = q.doc.prev
    BY <1>0, <1>2 DEF Memories, Pointers
  <2>2. r \in Task /\ task' = [task EXCEPT !["queue"] = r]
    BY <1>0, <1>2, Shapes DEF Task, Places, Types
  <2>3. /\ r.kind = q.kind /\ r.at = "drain" /\ r.rev = q.rev /\ r.doc = q.doc /\ r.side = NoSide
        /\ r.old = q.old /\ r.file = q.file
    BY <1>0 DEF Task
  <2> HIDE DEF r
  <2>4. task' \in [Slots -> Task] /\ task'["queue"] = r /\ \A u \in Slots \ {"queue"} : task'[u] = task[u]
    BY <1>0, <2>2 DEF Types
  <2>5. Types'
    BY <1>0, <1>2, <2>1, <2>4 DEF Types, Memories
  <2>6. Fits("queue", r)
    BY <1>0, <2>3 DEF Fits
  <2>7. side' # q.old
    BY <1>0, <1>2 DEF Parted, Answers
  <2>8. Apart'
    BY <2>3, <2>4, <2>7 DEF Apart
  <2>9. ASSUME ~overlapped PROVE Good(task["queue"])'
    <3>1. Good(q)
      BY <1>0, <2>9, Acting
    <3>2. Full(q.doc) /\ mem.loaded /\ q.side.rev = q.rev /\ q.doc.cur = q.rev
      BY <1>0, <3>1 DEF Good, Recorded, Unread, Serving, Intends, Fits
    <3>3. OfMem' = q.doc
      BY <1>0, <2>1 DEF OfMem, Pointers
    <3>4. Full(OfMem)'
      BY <1>0, <3>2, <3>3 DEF Full
    <3>5. Effective' = OfMem'
      BY <1>0, <3>2, <3>3, FullSays DEF Effective
    <3>6. NamesWhole(task["queue"])'
      BY <1>0, <2>1, <2>3, <2>4, <3>1 DEF Good, NamesWhole, Named
    <3>7. Unread(task["queue"])'
      BY <2>1, <3>2 DEF Unread
    <3>8. Serving(task["queue"])'
      BY <1>0, <1>2, <2>1, <2>3, <2>4, <3>2 DEF Serving, Answers
    <3>9. Intends(task["queue"])' /\ Wrote(task["queue"])'
      BY <2>3, <2>4 DEF Intends, Wrote
    <3>10. Recorded(task["queue"])'
      BY <2>3, <2>4, <3>4, <3>5 DEF Recorded
    <3> QED BY <3>6, <3>7, <3>8, <3>9, <3>10 DEF Good
  <2> QED BY <1>0, <2>4, <2>5, <2>6, <2>8, <2>9, Stepping
<1> QED BY <1>1, <1>2 DEF Recheck

\* A step that stops a process other than the sidecar in use, and saves the state.
LEMMA Stopping ==
    ASSUME MInv, NEW s, side # s \/ side = NoSide, procs' = procs \ {s},
           UNCHANGED <<setting, mem, disk, installed, side, closed, proven, overlapped, spent>>,
           \/ task["queue"].at = "drain" /\ Save("queue", "save", OfMem)
           \/ task["queue"].at = "fail" /\ Save("queue", "failsave", OfMem)
    PROVE  MInv'
<1> DEFINE q == task["queue"]
           place == IF q.at = "drain" THEN "save" ELSE "failsave"
           r == [q EXCEPT !.at = place, !.doc = OfMem, !.file = 1]
<1>0. /\ q \in Task /\ Fits("queue", q) /\ "queue" \in Slots /\ Types /\ Parted(q)
      /\ OfMem \in Pointers /\ OfMem.cur = mem.cur /\ OfMem.prev = mem.prev /\ place \in Places
      /\ q.at \in {"drain", "fail"} /\ Save("queue", place, OfMem)
  BY Pair DEF MInv, Types, Flow, Slots, Apart, Parted, Places
<1> HIDE DEF place
<1>1. task' \in [Slots -> Task] /\ task'["queue"] = r /\ \A u \in Slots \ {"queue"} : task'[u] = task[u]
  BY <1>0, Going
<1>2. /\ r.kind = q.kind /\ r.at = place /\ r.rev = q.rev /\ r.doc = OfMem /\ r.side = q.side
      /\ r.old = q.old /\ r.file = 1
  BY <1>0 DEF Task
<1> HIDE DEF r
<1>3. IsFiniteSet(procs')
  BY <1>0, FS_Subset DEF Types
<1>4. Types'
  BY <1>0, <1>1, <1>3 DEF Types
<1>5. place \in {"save", "failsave"} /\ (place = "save" <=> q.at = "drain")
  BY DEF place
<1>6. Fits("queue", r)
  BY <1>0, <1>2, <1>5 DEF Fits
<1>7. Apart'
  BY <1>0, <1>1, <1>2, <1>5 DEF Apart, Parted
<1>8. ASSUME ~overlapped PROVE Good(task["queue"])'
  <2>1. Good(q) /\ q.at # "idle"
    BY <1>0, <1>8, Acting
  <2>2. NamesWhole(task["queue"])'
    BY <1>0, <1>1, <1>2, <2>1 DEF Good, NamesWhole, Named
  <2>3. Unread(task["queue"])'
    BY <1>0, <2>1 DEF Good, Unread
  <2>4. Serving(task["queue"])'
    BY <1>0, <1>1, <1>2, <1>5, <2>1 DEF Good, Serving
  <2>5. Intends(task["queue"])' /\ Wrote(task["queue"])'
    BY <1>1, <1>2, <1>5 DEF Intends, Wrote, OfMem
  <2>6. q.at = "drain" => Full(OfMem) /\ Effective = OfMem
    BY <1>0, <2>1, FullSays DEF Good, Recorded
  <2>7. Recorded(task["queue"])'
    <3>1. OfMem' = OfMem /\ Effective' = Effective /\ Full(OfMem)' = Full(OfMem)
      BY DEF OfMem, Effective, Full
    <3>2. /\ mem.loaded /\ spent.faults = 0 => Full(OfMem)
          /\ place = "save" => Effective = OfMem
      BY <1>0, <1>5, <2>1, <2>6 DEF Good, Recorded
    <3> QED BY <1>1, <1>2, <1>5, <3>1, <3>2 DEF Recorded
  <2> QED BY <2>2, <2>3, <2>4, <2>5, <2>7 DEF Good
<1> QED BY <1>0, <1>1, <1>4, <1>6, <1>7, <1>8, Stepping

\* The replaced sidecar, or the candidate that failed, is stopped.
LEMMA Drained == ASSUME MInv, Drain \/ Fail PROVE MInv'
BY Stopping DEF Drain, Fail, MInv, Apart

\* A nonempty set of numbers has a least one.
LEMMA Least ==
    ASSUME NEW T, T \subseteq Nat, T # {}
    PROVE  \E m \in T : \A n \in T : m <= n
<1>1. PICK m \in T : \A n \in T : ~(<<n, m>> \in OpToRel(<, Nat))
  BY NatLessThanWellFounded, WFMin
<1>2. \A n \in T : ~(n < m)
  BY <1>1 DEF OpToRel
<1> QED BY <1>2

\* pruneRevisions() removes no revision that is named.
LEMMA Pruning == ASSUME MInv, Prune PROVE MInv'
<1> DEFINE q == task["queue"]
<1>0. /\ q \in Task /\ Fits("queue", q) /\ q.at = "prune" /\ "queue" \in Slots /\ Types /\ Parted(q)
      /\ UNCHANGED <<setting, mem, disk, side, procs, closed, overlapped, spent, proven>>
  BY DEF MInv, Types, Flow, Slots, Prune, Apart, Parted
<1>1. ASSUME ~overlapped PROVE /\ Good(q) /\ Full(OfMem) /\ Effective = OfMem /\ mem.loaded
                               /\ Named \ {None} = Protected
                               /\ {q.doc.cur, q.doc.prev} \ {None} = Protected
  <2>1. Good(q)
    BY <1>0, <1>1, Acting
  <2>2. Full(OfMem) /\ q.doc = OfMem /\ mem.loaded
    BY <1>0, <2>1 DEF Good, Recorded, Intends, Unread
  <2>3. Effective = OfMem
    BY <1>0, <2>2, Pair, FullSays
  <2>4. OfMem.cur = mem.cur /\ OfMem.prev = mem.prev
    BY <1>0, Pair
  <2>5. Named = {mem.cur, mem.prev}
    BY <2>2, <2>4 DEF Full, Named
  <2> QED BY <2>1, <2>2, <2>3, <2>4, <2>5 DEF Protected
<1>2. CASE End("queue") /\ UNCHANGED installed
  <2>1. /\ task' \in [Slots -> Task] /\ task'["queue"] = IdleTask
        /\ \A u \in Slots \ {"queue"} : task'[u] = task[u]
    BY <1>0, <1>2, Going
  <2>2. Fits("queue", IdleTask) /\ Parted(IdleTask)
    BY DEF Fits, IdleTask, Parted
  <2>3. ASSUME ~overlapped PROVE Good(IdleTask)
    BY <1>1, <2>3, Ending
  <2> QED BY <1>0, <1>2, <2>1, <2>2, <2>3, Still DEF Types
<1>3. ASSUME Doomed # {}, UNCHANGED task, NEW r,
             r = CHOOSE d \in Doomed : \A e \in Doomed : d <= e,
             installed' = [installed EXCEPT ![r] = IF @ = "whole" THEN "broken" ELSE "absent"]
      PROVE  MInv'
  <2>1. Doomed \subseteq Revisions \ Protected
    BY DEF Doomed
  <2>2. r \in Revisions \ Protected
    <3>1. Doomed \subseteq Nat
      BY <2>1, RuntimeAssumption
    <3>2. \E d \in Doomed : \A e \in Doomed : d <= e
      BY <1>3, <3>1, Least
    <3> QED BY <1>3, <2>1, <3>2
  <2>3. installed' \in [Revisions -> {"absent", "whole", "broken"}]
        /\ \A v \in Protected : v \in Revisions => installed'[v] = installed[v]
    BY <1>0, <1>3, <2>2 DEF Types
  <2>4. Types' /\ Apart'
    BY <1>0, <1>3, <2>3 DEF Types, Apart, MInv
  <2>5. ASSUME ~overlapped PROVE Good(q)'
    <3>1. Protected \subseteq Revisions
      BY <1>0 DEF Types, Protected
    <3>2. (Named \cup {q.doc.cur, q.doc.prev}) \ {None} = Protected
      BY <1>1, <2>5
    <3>3. Named' = Named /\ q' = q
      BY <1>0, <1>3 DEF Named
    <3>4. NamesWhole(q)
      BY <1>1, <2>5 DEF Good
    <3>5. NamesWhole(q)'
      BY <1>0, <1>3, <2>3, <3>1, <3>2, <3>3, <3>4 DEF NamesWhole, Named
    <3>6. Unread(q)' /\ Serving(q)' /\ Intends(q)' /\ Wrote(q)'
      BY <1>0, <1>1, <1>3, <2>5 DEF Good, Unread, Serving, Intends, Wrote, OfMem
    <3>7. Recorded(q)'
      BY <1>0, <1>1, <1>3, <2>5 DEF Good, Recorded, Full, OfMem, Effective
    <3> QED BY <3>5, <3>6, <3>7 DEF Good
  <2> QED BY <1>0, <1>3, <2>4, <2>5, Stepping
<1> QED BY <1>2, <1>3 DEF Prune

\* A new process is none of those in sight.
LEMMA Newcomer ==
    ASSUME Types, NEW r \in Revisions, NEW new, new = Spawned(r)
    PROVE  /\ new \in Sides /\ new.rev = r /\ new.pid # 0 /\ new # NoSide
           /\ IsFiniteSet(procs \cup {new}) /\ (procs \cup {new}) \subseteq Sides
           /\ \A p \in procs \cup {new} : p.pid # 0
           /\ \A p, o \in procs \cup {new} : p.pid = o.pid => p = o
           /\ new # side /\ \A t \in Slots : new # task[t].side /\ new # task[t].old
<1>1. new \in Sides /\ new.rev = r /\ new.pid \in Nat \ {0} /\ new.pid \notin Pids
  BY Fresh
<1>2. procs \cup {side} \cup {task[t].side : t \in Slots} \cup {task[t].old : t \in Slots} \subseteq Sides
  BY DEF Types, Task
<1>3. side.pid \in Pids /\ (\A p \in procs : p.pid \in Pids)
      /\ \A t \in Slots : task[t].side.pid \in Pids /\ task[t].old.pid \in Pids
  BY DEF Pids
<1>4. \A p \in procs : p.pid # new.pid /\ p # new
  BY <1>1, <1>3
<1>5. IsFiniteSet(procs \cup {new})
  BY FS_AddElement DEF Types
<1>6. new # NoSide
  BY <1>1 DEF NoSide
<1>7. \A p, o \in procs \cup {new} : p.pid = o.pid => p = o
  BY <1>4 DEF Types
<1> QED BY <1>1, <1>3, <1>4, <1>5, <1>6, <1>7 DEF Types

\* launch() of a candidate
LEMMA LaunchingCandidate == ASSUME MInv, Launch("queue") PROVE MInv'
<1> DEFINE q == task["queue"]
<1>0. /\ q \in Task /\ Fits("queue", q) /\ q.at = "launch" /\ "queue" \in Slots /\ Types /\ q.rev \in Revisions
      /\ UNCHANGED <<setting, mem, disk, installed, closed, overlapped, spent, proven>>
  BY DEF MInv, Types, Flow, Slots, Launch, Fits
<1>1. CASE Goto("queue", "fail") /\ UNCHANGED <<procs, side>>
  BY <1>0, <1>1, Place DEF Places
<1>2. ASSUME NEW new, new = Spawned(q.rev), procs' = procs \cup {new}, side' = side,
             task' = [task EXCEPT !["queue"].at = "check", !["queue"].side = new]
      PROVE  MInv'
  <2> DEFINE r == [q EXCEPT !.at = "check", !.side = new]
  <2>0. new \in Sides /\ new.rev = q.rev
    BY <1>0, <1>2, Newcomer
  <2>1. r \in Task /\ task' = [task EXCEPT !["queue"] = r]
    BY <1>0, <1>2, <2>0 DEF Task, Places, Types
  <2>2. /\ r.kind = q.kind /\ r.at = "check" /\ r.rev = q.rev /\ r.doc = q.doc /\ r.side = new
        /\ r.old = q.old
    BY <1>0 DEF Task
  <2> HIDE DEF r
  <2>3. task' \in [Slots -> Task] /\ task'["queue"] = r /\ \A u \in Slots \ {"queue"} : task'[u] = task[u]
    BY <1>0, <2>1 DEF Types
  <2>4. Types'
    <3>1. /\ IsFiniteSet(procs') /\ procs' \subseteq Sides /\ \A p \in procs' : p.pid # 0
          /\ \A p, o \in procs' : p.pid = o.pid => p = o
      BY <1>0, <1>2, Newcomer
    <3> QED BY <1>0, <1>2, <2>3, <3>1 DEF Types
  <2>5. Fits("queue", r)
    BY <1>0, <2>2 DEF Fits
  <2>6. Apart'
    <3>1. new # side
      BY <1>0, <1>2, Newcomer
    <3> QED BY <1>2, <2>2, <2>3, <3>1 DEF Apart
  <2>7. ASSUME ~overlapped PROVE Good(q)'
    <3>1. Good(q)
      BY <1>0, <2>7, Acting
    <3>2. NamesWhole(q)'
      BY <1>0, <2>2, <2>3, <3>1 DEF Good, NamesWhole, Named
    <3>3. Unread(q)' /\ Intends(q)' /\ Wrote(q)'
      BY <1>0, <1>2, <2>2, <2>3, <3>1 DEF Good, Unread, Intends, Wrote, OfMem
    <3>4. Serving(q)'
      BY <1>0, <1>2, <2>0, <2>2, <2>3, <3>1 DEF Good, Serving, Fits
    <3>5. Recorded(q)'
      BY <1>0, <2>2, <2>3, <3>1 DEF Good, Recorded, Full, OfMem, Effective
    <3> QED BY <3>2, <3>3, <3>4, <3>5 DEF Good
  <2> QED BY <1>0, <2>3, <2>4, <2>5, <2>6, <2>7, Stepping
<1> QED BY <1>0, <1>1, <1>2 DEF Launch

\* launch() by start(): the new process is the sidecar in use at once.
LEMMA LaunchingCurrent == ASSUME MInv, Launch("start") PROVE MInv'
<1> DEFINE s == task["start"]
<1>0. /\ s \in Task /\ Fits("start", s) /\ s.at = "launch" /\ "start" \in Slots /\ "queue" \in Slots /\ Types
      /\ UNCHANGED <<setting, mem, disk, installed, closed, overlapped, spent, proven>>
      /\ s.rev \in Revisions
  BY DEF MInv, Types, Flow, Slots, Launch, Fits
<1>1. CASE Goto("start", "unserve") /\ UNCHANGED <<procs, side>>
  BY <1>0, <1>1, Place DEF Places
<1>2. ASSUME NEW new, new = Spawned(s.rev), procs' = procs \cup {new}, side' = new,
             task' = [task EXCEPT !["start"].at = "check", !["start"].side = new]
      PROVE  MInv'
  <2> DEFINE r == [s EXCEPT !.at = "check", !.side = new]
  <2>0. new \in Sides /\ new.rev = s.rev
    BY <1>0, <1>2, Newcomer
  <2>1. r \in Task /\ task' = [task EXCEPT !["start"] = r]
    BY <1>0, <1>2, <2>0 DEF Task, Places, Types
  <2>2. /\ r.kind = s.kind /\ r.at = "check" /\ r.rev = s.rev /\ r.doc = s.doc /\ r.side = new
        /\ r.old = s.old
    BY <1>0 DEF Task
  <2> HIDE DEF r
  <2>3. task' \in [Slots -> Task] /\ task'["start"] = r /\ \A u \in Slots \ {"start"} : task'[u] = task[u]
    BY <1>0, <2>1 DEF Types
  <2>4. Types'
    <3>1. /\ IsFiniteSet(procs') /\ procs' \subseteq Sides /\ \A p \in procs' : p.pid # 0
          /\ \A p, o \in procs' : p.pid = o.pid => p = o
      BY <1>0, <1>2, Newcomer
    <3> QED BY <1>0, <1>2, <2>0, <2>3, <3>1 DEF Types
  <2>5. Fits("start", r)
    BY <1>0, <2>2 DEF Fits
  <2>6. Apart'
    <3>1. new # task["queue"].side /\ new # task["queue"].old
      BY <1>0, <1>2, Newcomer
    <3>2. task'["queue"] = task["queue"]
      BY <2>3 DEF Slots
    <3> QED BY <1>2, <3>1, <3>2 DEF Apart, MInv
  <2>7. ASSUME ~overlapped PROVE Good(s)'
    <3>1. Good(s)
      BY <1>0, <2>7, Acting
    <3>2. s.kind \notin {"update", "rollback"} /\ mem.loaded /\ s.rev = mem.cur
      BY <1>0, <3>1 DEF Good, Serving, Unread, Fits
    <3>3. NamesWhole(s)'
      BY <1>0, <2>2, <2>3, <3>1 DEF Good, NamesWhole, Named
    <3>4. Unread(s)' /\ Intends(s)' /\ Wrote(s)'
      BY <1>0, <2>2, <2>3, <3>2 DEF Unread, Intends, Wrote
    <3>5. Serving(s)'
      BY <1>0, <1>2, <2>0, <2>2, <2>3, <3>2 DEF Serving
    <3>6. Recorded(s)'
      BY <1>0, <2>2, <2>3, <3>1 DEF Good, Recorded, Full, OfMem, Effective
    <3> QED BY <3>3, <3>4, <3>5, <3>6 DEF Good
  <2> QED BY <1>0, <2>3, <2>4, <2>5, <2>6, <2>7, Stepping
<1> QED BY <1>0, <1>1, <1>2 DEF Launch

\* The sidecar start() launched is checked.
LEMMA CheckingStart == ASSUME MInv, StartChecked PROVE MInv'
<1> DEFINE s == task["start"]
           r == [s EXCEPT !.at = "save", !.doc = OfMem, !.file = 1]
<1>0. /\ s \in Task /\ Fits("start", s) /\ s.at = "check" /\ "start" \in Slots /\ "start" # "queue" /\ Types
      /\ UNCHANGED <<setting, mem, disk, side, procs, installed, closed, overlapped, spent, proven>>
      /\ OfMem \in Pointers /\ OfMem.cur = mem.cur /\ OfMem.prev = mem.prev
  BY Pair DEF MInv, Types, Flow, Slots, StartChecked
<1>1. CASE Goto("start", "unserve")
  BY <1>0, <1>1, Place DEF Places
<1>2. CASE Save("start", "save", OfMem)
  <2>1. task' \in [Slots -> Task] /\ task'["start"] = r /\ \A u \in Slots \ {"start"} : task'[u] = task[u]
    <3>1. "save" \in Places
      BY DEF Places
    <3> QED BY <1>0, <1>2, <3>1, Going
  <2>2. r.kind = s.kind /\ r.at = "save" /\ r.doc = OfMem /\ r.file = 1
    BY <1>0 DEF Task
  <2> HIDE DEF r
  <2>3. Fits("start", r)
    BY <1>0, <2>2 DEF Fits
  <2>4. ASSUME ~overlapped PROVE Good(r)
    <3>1. Good(s)
      BY <1>0, <2>4, Acting
    <3>2. NamesWhole(r)
      BY <1>0, <2>2, <3>1 DEF Good, NamesWhole, Named
    <3>3. Unread(r) /\ Serving(r) /\ Intends(r) /\ Wrote(r)
      BY <1>0, <2>2, <3>1 DEF Good, Unread, Serving, Intends, Wrote
    <3>4. Recorded(r)
      BY <1>0, <2>2, <3>1 DEF Good, Recorded
    <3> QED BY <3>2, <3>3, <3>4 DEF Good
  <2> QED BY <1>0, <2>1, <2>3, <2>4, Still DEF Types
<1> QED BY <1>1, <1>2 DEF StartChecked

\* stopSidecar() by start() or close()
LEMMA Unserving == ASSUME MInv, Unserve("start") PROVE MInv'
<1> DEFINE s == task["start"]
           d == [s EXCEPT !.at = "save", !.doc = OfMem, !.file = 1]
           r == IF mem.loaded THEN d ELSE IdleTask
<1>0. /\ s \in Task /\ Fits("start", s) /\ s.at = "unserve" /\ "start" \in Slots /\ "queue" \in Slots /\ Types
      /\ UNCHANGED <<setting, mem, disk, installed, closed, overlapped, spent, proven>>
      /\ side' = NoSide /\ procs' = procs \ {side} /\ NoSide \in Sides
      /\ OfMem \in Pointers /\ OfMem.cur = mem.cur /\ OfMem.prev = mem.prev
  BY Pair, Shapes DEF MInv, Types, Flow, Slots, Unserve
<1>1. task' \in [Slots -> Task] /\ task'["start"] = r /\ \A u \in Slots \ {"start"} : task'[u] = task[u]
  <2>1. "save" \in Places
    BY DEF Places
  <2>2. CASE mem.loaded
    <3>1. Save("start", "save", OfMem)
      BY <2>2 DEF Unserve
    <3> QED BY <1>0, <2>1, <2>2, <3>1, Going
  <2>3. CASE ~mem.loaded
    <3>1. End("start")
      BY <2>3 DEF Unserve
    <3> QED BY <1>0, <2>3, <3>1, Going
  <2> QED BY <2>2, <2>3
<1>2. d.kind = s.kind /\ d.at = "save" /\ d.doc = OfMem /\ d.file = 1
  BY <1>0 DEF Task
<1>3. IdleTask.at = "idle" /\ IdleTask.kind = "idle" /\ IdleTask.doc.cur = None /\ IdleTask.doc.prev = None
  BY DEF IdleTask, NoPointers
<1> HIDE DEF d
<1>4. Types'
  <2>1. IsFiniteSet(procs')
    BY <1>0, FS_Subset DEF Types
  <2> QED BY <1>0, <1>1, <2>1 DEF Types
<1>5. Fits("start", r)
  BY <1>0, <1>2, <1>3 DEF Fits
<1>6. Apart'
  <2>1. task'["queue"] = task["queue"]
    BY <1>1 DEF Slots
  <2> QED BY <1>0, <2>1 DEF Apart, MInv
<1>7. ASSUME ~overlapped PROVE Good(s)'
  <2>1. Good(s)
    BY <1>0, <1>7, Acting
  <2>2. NamesWhole(s)'
    BY <1>0, <1>1, <1>2, <1>3, <2>1 DEF Good, NamesWhole, Named
  <2>3. Unread(s)'
    BY <1>0, <1>1, <1>3, <2>1 DEF Good, Unread, Full
  <2>4. Serving(s)' /\ Intends(s)' /\ Wrote(s)'
    BY <1>0, <1>1, <1>2, <1>3 DEF Serving, Intends, Wrote, OfMem
  <2>5. Recorded(s)'
    BY <1>0, <1>1, <1>2, <1>3, <2>1 DEF Good, Recorded, Full, OfMem, Effective
  <2> QED BY <2>2, <2>3, <2>4, <2>5 DEF Good
<1> QED BY <1>0, <1>1, <1>4, <1>5, <1>6, <1>7, Stepping

\* The task after its writes, or after an error: where it is, and what it writes next.
LEMMA Continuing ==
    ASSUME MInv, NEW t \in Slots, NEW place, Continue(t, place), Writing(t),
           place \in {"recheck", "undo", "resolve", "launch", "prune", "fail", "end"},
           place \notin {"fail", "end"} => task[t].kind \in {"update", "rollback"},
           place = "launch" => task[t].rev \in Revisions, t = "start" => place = "end",
           place \in {"recheck", "undo"} => task[t].at = "point"
    PROVE  /\ task' \in [Slots -> Task] /\ Fits(t, task'[t]) /\ \A u \in Slots \ {t} : task'[u] = task[u]
           /\ place = "end" => task'[t] = IdleTask
           /\ place # "end" => /\ task'[t].at = place /\ task'[t].kind = task[t].kind
                               /\ task'[t].rev = task[t].rev /\ task'[t].side = task[t].side
                               /\ task'[t].old = task[t].old
           /\ place = "undo" => /\ task'[t].doc = [cur |-> task[t].doc.prev, prev |-> mem.prev]
                                /\ task'[t].file = 1
           /\ place \notin {"end", "undo"} => task'[t].doc = task[t].doc
           /\ t = "queue" => Parted(task'[t])
<1> DEFINE p == [cur |-> task[t].doc.prev, prev |-> mem.prev]
<1>0. task[t].at # "idle" /\ Types /\ Flow /\ task[t] \in Task /\ (t = "queue" => Parted(task[t]))
  BY DEF MInv, Writing, Types, Apart, Parted
<1>1. task' \in [Slots -> Task] /\ Flow' /\ \A u \in Slots \ {t} : task'[u] = task[u]
  BY <1>0, Onward
<1>2. p \in Pointers
  BY <1>0 DEF Types, Task, Pointers
<1>3. place = "end" => task'[t] = IdleTask
  BY <1>0, Going DEF Continue
<1>4. place = "undo" => task'[t] = [task[t] EXCEPT !.at = "undo", !.doc = p, !.file = 1]
  <2>1. "undo" \in Places
    BY DEF Places
  <2>2. place = "undo" => Save(t, "undo", p)
    BY DEF Continue
  <2> HIDE DEF p
  <2> QED BY <1>0, <1>2, <2>1, <2>2, Going
<1>5. place \notin {"end", "undo"} => task'[t] = [task[t] EXCEPT !.at = place]
  <2>1. place \notin {"end", "undo"} => place \in Places /\ Goto(t, place)
    BY DEF Continue, Places
  <2> QED BY <1>0, <2>1, Going
<1> HIDE DEF p
<1>6. place # "end" => /\ task'[t].at = place /\ task'[t].kind = task[t].kind
                       /\ task'[t].rev = task[t].rev /\ task'[t].side = task[t].side
                       /\ task'[t].old = task[t].old
  BY <1>0, <1>4, <1>5 DEF Task
<1>7. /\ place = "undo" => task'[t].doc = p /\ task'[t].file = 1
      /\ place \notin {"end", "undo"} => task'[t].doc = task[t].doc
  BY <1>0, <1>4, <1>5 DEF Task
<1>8. t = "queue" => Parted(task'[t])
  BY <1>0, <1>3, <1>6 DEF Parted, IdleTask
<1>9. Fits(t, task'[t])
  BY <1>1 DEF Flow
<1> QED BY <1>1, <1>3, <1>6, <1>7, <1>8, <1>9 DEF p

\* A task that writes knows the pointers, and keeps knowing them.
LEMMA WriterKnows ==
    ASSUME MInv, ~overlapped, NEW t \in Slots, Writing(t)
    PROVE  Good(task[t]) /\ mem.loaded /\ (task[t].at # "point" => task[t].doc = OfMem)
<1>1. Good(task[t])
  BY Acting DEF Writing
<1> QED BY <1>1 DEF Good, Unread, Intends, Writing

\* writeAtomicJson() of the first or the second file
LEMMA WritingOne ==
    ASSUME MInv, NEW t \in Slots, Write(t), task[t].file < 3
    PROVE  MInv'
<1> DEFINE q == task[t]
           r == [q EXCEPT !.file = @ + 1]
<1>0. /\ q \in Task /\ Fits(t, q) /\ Types /\ Writing(t) /\ q.at # "idle" /\ (t = "queue" => Parted(q))
      /\ UNCHANGED <<setting, mem, installed, side, procs, closed, overlapped, spent, proven>>
      /\ disk' = Put(q.file, q.doc) /\ q.doc \in Pointers /\ q.file \in {1, 2} /\ disk \in Disks
  BY Shapes DEF MInv, Types, Flow, Write, Writing, Apart, Parted, Task
<1>1. r \in Task /\ task' = [task EXCEPT ![t] = r]
  BY <1>0 DEF Write, Task, Types
<1>2. /\ r.kind = q.kind /\ r.at = q.at /\ r.rev = q.rev /\ r.doc = q.doc /\ r.side = q.side
      /\ r.old = q.old /\ r.file = q.file + 1
  BY <1>0 DEF Task
<1> HIDE DEF r
<1>3. task' \in [Slots -> Task] /\ task'[t] = r /\ \A u \in Slots \ {t} : task'[u] = task[u]
  BY <1>0, <1>1 DEF Types
<1>4. disk' \in Disks
  BY <1>0, Shapes
<1>5. Types'
  BY <1>0, <1>3, <1>4 DEF Types, Disks
<1>6. Fits(t, r)
  <2>1. r.at # "idle" /\ r.kind # "idle"
    BY <1>0, <1>2 DEF Fits
  <2> QED BY <1>0, <1>2, <2>1 DEF Fits
<1>7. Apart'
  BY <1>0, <1>2, <1>3 DEF Apart, Parted, MInv, Slots
<1>8. ASSUME ~overlapped PROVE Good(q)'
  <2>1. Good(q) /\ mem.loaded /\ (q.at # "point" => q.doc = OfMem)
    BY <1>0, <1>8, WriterKnows
  <2>2. Named' \subseteq Named \cup {q.doc.cur, q.doc.prev}
    BY <1>0 DEF Named, Put
  <2>3. NamesWhole(q)'
    BY <1>0, <1>2, <1>3, <2>1, <2>2 DEF Good, NamesWhole
  <2>4. Unread(q)' /\ Serving(q)' /\ Intends(q)'
    BY <1>0, <1>2, <1>3, <2>1 DEF Good, Unread, Serving, Intends, OfMem
  <2>5. Wrote(q)'
    BY <1>0, <1>2, <1>3, <2>1 DEF Good, Wrote, Writing, Put
  <2>6. q.at # "point" /\ Full(OfMem) => Full(OfMem)'
    BY <1>0, <2>1 DEF Full, Put, OfMem
  <2>7. q.at # "point" /\ Effective = OfMem => Effective' = OfMem'
    BY <1>0, <2>1 DEF Effective, Put, OfMem, Disks, Pointers
  <2>8. Recorded(q)'
    BY <1>0, <1>2, <1>3, <2>1, <2>6, <2>7 DEF Good, Recorded, Writing
  <2> QED BY <2>3, <2>4, <2>5, <2>8 DEF Good
<1> QED BY <1>0, <1>3, <1>5, <1>6, <1>7, <1>8, Stepping

\* writeAtomicJson() of the third file: what the task wrote is in all of them.
LEMMA WritingLast ==
    ASSUME MInv, NEW t \in Slots, Write(t), task[t].file = 3
    PROVE  MInv'
<1> DEFINE q == task[t]
           place == AfterWrites(t)
<1>0. /\ q \in Task /\ Fits(t, q) /\ Types /\ Writing(t) /\ q.at # "idle" /\ (t = "queue" => Parted(q))
      /\ UNCHANGED <<setting, mem, installed, side, procs, closed, overlapped, spent, proven>>
      /\ disk' = Put(3, q.doc) /\ q.doc \in Pointers /\ disk \in Disks /\ Continue(t, place)
      /\ (t = "queue" \/ t = "start")
  BY Shapes DEF MInv, Types, Flow, Write, Writing, Apart, Parted, Task, Slots
<1>1. /\ place \in {"recheck", "resolve", "launch", "prune", "fail", "end"}
      /\ place = "recheck" <=> q.at = "point"
      /\ place \in {"resolve", "launch"} => q.at = "mark"
      /\ place = "resolve" => q.kind = "update"
      /\ place = "launch" => q.kind # "update"
      /\ place = "prune" => q.at = "save" /\ q.kind = "update"
      /\ place = "fail" => q.at = "undo"
      /\ place = "end" => q.at \in {"save", "failsave"}
  BY <1>0 DEF AfterWrites, Writing
<1> HIDE DEF place
<1>2. /\ place \notin {"fail", "end"} => q.kind \in {"update", "rollback"}
      /\ place = "launch" => q.rev \in Revisions
      /\ t = "start" => place = "end"
  BY <1>0, <1>1 DEF Fits
<1> DEFINE r == task'[t]
<1>3. /\ task' \in [Slots -> Task] /\ Fits(t, r) /\ \A u \in Slots \ {t} : task'[u] = task[u]
      /\ place = "end" => r = IdleTask
      /\ place # "end" => /\ r.at = place /\ r.kind = q.kind /\ r.rev = q.rev /\ r.side = q.side
                          /\ r.old = q.old /\ r.doc = q.doc
      /\ t = "queue" => Parted(r)
  <2>1. place \in {"recheck", "undo", "resolve", "launch", "prune", "fail", "end"}
        /\ (place \in {"recheck", "undo"} => q.at = "point") /\ place # "undo"
    BY <1>1
  <2> QED BY <1>0, <1>2, <2>1, Continuing
<1>4. Types'
  <2>1. disk' \in Disks
    BY <1>0, Shapes
  <2> QED BY <1>0, <1>3, <2>1 DEF Types, Disks
<1>5. Apart'
  BY <1>0, <1>3 DEF Apart, Parted, MInv, Slots
<1>6. ASSUME ~overlapped PROVE Good(q)'
  <2>1. Good(q) /\ mem.loaded /\ (q.at # "point" => q.doc = OfMem)
    BY <1>0, <1>6, WriterKnows
  <2>2. disk' = [all |-> q.doc, cur |-> q.doc.cur, prev |-> q.doc.prev]
    BY <1>0, <2>1 DEF Good, Wrote, Writing, Put
  <2>3. place # "recheck" => Full(OfMem)' /\ Effective' = OfMem'
    <3>1. ASSUME place # "recheck" PROVE disk' = [all |-> OfMem, cur |-> OfMem.cur, prev |-> OfMem.prev]
      BY <1>1, <2>1, <2>2, <3>1
    <3>2. OfMem' = OfMem /\ OfMem \in Pointers
      BY <1>0, Pair DEF OfMem
    <3>3. ASSUME place # "recheck" PROVE Effective' = OfMem
      BY <3>1, <3>2, <3>3 DEF Effective, Pointers
    <3> QED BY <3>1, <3>2, <3>3 DEF Full
  <2>4. IdleTask.at = "idle" /\ IdleTask.doc.cur = None /\ IdleTask.doc.prev = None
    BY DEF IdleTask, NoPointers
  <2>5. NamesWhole(q)'
    BY <1>0, <1>3, <2>1, <2>2, <2>4 DEF Good, NamesWhole, Named
  <2>6. Unread(q)'
    BY <1>0, <2>1 DEF Unread
  <2>7. Serving(q)'
    BY <1>0, <1>1, <1>2, <1>3, <2>1, <2>4 DEF Good, Serving
  <2>8. Intends(q)' /\ Wrote(q)'
    BY <1>0, <1>1, <1>3, <2>1, <2>4 DEF Good, Intends, Wrote, OfMem
  <2>9. Recorded(q)'
    BY <1>1, <1>3, <2>2, <2>3, <2>4 DEF Recorded, Full
  <2> QED BY <2>5, <2>6, <2>7, <2>8, <2>9 DEF Good
<1> QED BY <1>0, <1>3, <1>4, <1>5, <1>6, Stepping

\* A write that fails: the file is as it was, or gone.
LEMMA WritingNot ==
    ASSUME MInv, NEW t \in Slots, WriteFails(t)
    PROVE  MInv'
<1> DEFINE q == task[t]
           place == AfterError(t)
<1>0. /\ q \in Task /\ Fits(t, q) /\ Types /\ Writing(t) /\ q.at # "idle" /\ (t = "queue" => Parted(q))
      /\ UNCHANGED <<setting, mem, installed, side, procs, closed, overlapped, proven>>
      /\ disk' \in {disk, Put(q.file, NoPointers)} /\ q.doc \in Pointers /\ q.file \in 1 .. 3
      /\ disk \in Disks /\ Continue(t, place)
      /\ (t = "queue" \/ t = "start") /\ spent.faults \in Nat /\ spent'.faults = spent.faults + 1
      /\ spent' \in [ops : Nat, patches : Nat, faults : Nat]
  BY Shapes DEF MInv, Types, Flow, WriteFails, Writing, Apart, Parted, Task, Slots
<1>1. /\ place \in {"undo", "fail", "end"}
      /\ place = "undo" <=> q.at = "point"
      /\ place = "end" => q.at \in {"save", "failsave"}
  BY <1>0 DEF AfterError, Writing
<1>2. /\ place \notin {"fail", "end"} => q.kind \in {"update", "rollback"}
      /\ t = "start" => place = "end"
  <2>1. q.at \in {"mark", "point", "undo", "save", "failsave"}
    BY <1>0 DEF Writing
  <2>2. CASE t = "queue"
    BY <1>0, <1>1, <2>1, <2>2 DEF Fits
  <2>3. CASE t = "start"
    <3>1. q.at = "save" /\ q.kind \notin {"update", "rollback", "skip"}
      BY <1>0, <2>1, <2>3 DEF Fits
    <3> QED BY <2>3, <3>1 DEF AfterError
  <2> QED BY <1>0, <2>2, <2>3
<1> HIDE DEF place
<1> DEFINE r == task'[t]
<1>3. /\ task' \in [Slots -> Task] /\ Fits(t, r) /\ \A u \in Slots \ {t} : task'[u] = task[u]
      /\ place = "end" => r = IdleTask
      /\ place # "end" => /\ r.at = place /\ r.kind = q.kind /\ r.rev = q.rev /\ r.side = q.side
                          /\ r.old = q.old
      /\ place = "undo" => r.doc = [cur |-> q.doc.prev, prev |-> mem.prev] /\ r.file = 1
      /\ place \notin {"end", "undo"} => r.doc = q.doc
      /\ t = "queue" => Parted(r)
  <2>1. place \in {"recheck", "undo", "resolve", "launch", "prune", "fail", "end"}
        /\ (place \in {"recheck", "undo"} => q.at = "point") /\ place # "launch"
    BY <1>1
  <2> QED BY <1>0, <1>2, <2>1, Continuing
<1>4. Types'
  <2>1. disk' \in Disks
    BY <1>0, Shapes
  <2> QED BY <1>0, <1>3, <2>1 DEF Types, Disks
<1>5. Apart'
  BY <1>0, <1>3 DEF Apart, Parted, MInv, Slots
<1>6. ASSUME ~overlapped PROVE Good(q)'
  <2>1. Good(q) /\ mem.loaded /\ (q.at # "point" => q.doc = OfMem)
    BY <1>0, <1>6, WriterKnows
  <2>2. Named' \subseteq Named \cup {None}
    BY <1>0, Shapes DEF Named, Put
  <2>3. place = "undo" => r.doc = OfMem
    BY <1>1, <1>3, <2>1 DEF Good, Intends, OfMem
  <2>4. IdleTask.at = "idle" /\ IdleTask.doc.cur = None /\ IdleTask.doc.prev = None
    BY DEF IdleTask, NoPointers
  <2>5. r.doc.cur \in {q.doc.cur, mem.cur, None} /\ r.doc.prev \in {q.doc.prev, mem.prev, None}
    BY <1>0, <1>1, <1>3, <2>3, <2>4, Pair
  <2>6. NamesWhole(q)'
    <3>1. {mem.cur, mem.prev} \subseteq Named
      BY DEF Named
    <3> QED BY <1>0, <2>1, <2>2, <2>5, <3>1 DEF Good, NamesWhole
  <2>7. Unread(q)'
    BY <1>0, <2>1 DEF Unread
  <2>8. Serving(q)'
    BY <1>0, <1>1, <1>3, <2>1, <2>4 DEF Good, Serving
  <2>9. Intends(q)' /\ Wrote(q)'
    BY <1>0, <1>1, <1>3, <2>3, <2>4 DEF Intends, Wrote, OfMem
  <2>10. place = "end" /\ spent.faults = 0 => Full(OfMem)
    BY <1>0, <1>1, <2>1 DEF Good, Recorded
  <2>11. Full(OfMem) => Effective' = OfMem'
    BY <1>0, Shapes, Pair DEF Full, Effective, Put, OfMem, Pointers, Disks
  <2>12. Recorded(q)'
    BY <1>0, <1>1, <1>3, <2>4, <2>10, <2>11 DEF Recorded
  <2> QED BY <2>6, <2>7, <2>8, <2>9, <2>12 DEF Good
<1>7. overlapped' = overlapped
  BY <1>0
<1> QED BY <1>0, <1>3, <1>4, <1>5, <1>6, <1>7, Stepping

-----------------------------------------------------------------------------
(* Steps that begin a task *)

\* A task that is not busy is the idle task.
LEMMA NotBusy == ASSUME MInv, NEW t \in Slots, ~Busy(t) PROVE task[t] = IdleTask
BY DEF MInv, Flow, Fits, Busy

\* While no other task is under way, a task knows what it should, idle or not.
LEMMA Alone ==
    ASSUME MInv, ~overlapped, NEW t \in Slots, \A u \in Slots \ {t} : task[u] = IdleTask
    PROVE  Good(task[t])
BY DEF MInv, Calm

\* A step that gives a slot a task.
LEMMA Starts ==
    ASSUME MInv, NEW t \in Slots, NEW r \in Task, task' = [task EXCEPT ![t] = r],
           UNCHANGED <<disk, installed, side, procs, proven>>, mem' \in Memories,
           setting' \in {"on", "off", "none"}, closed' \in BOOLEAN, overlapped' \in BOOLEAN,
           spent' \in [ops : Nat, patches : Nat, faults : Nat],
           Fits(t, r), r.side = NoSide, r.at # "drain",
           ~overlapped' => Good(task[t])' /\ \A u \in Slots \ {t} : task[u] = IdleTask
    PROVE  MInv'
<1>0. task' \in [Slots -> Task] /\ task'[t] = r /\ \A u \in Slots \ {t} : task'[u] = task[u]
  BY DEF MInv, Types
<1>1. Types'
  BY <1>0 DEF MInv, Types, Memories
<1>2. Flow'
  BY <1>0 DEF MInv, Flow
<1>3. Apart'
  BY <1>0 DEF MInv, Apart, Slots
<1>4. Calm'
  BY <1>0 DEF Calm
<1> QED BY <1>1, <1>2, <1>3, <1>4 DEF MInv

\* ensureLoaded(): what memory says after it is what the files say.
LEMMA Reading ==
    ASSUME MInv, mem' = Loaded, UNCHANGED <<disk, installed, side, procs>>
    PROVE  /\ mem' \in Memories /\ mem'.loaded /\ OfMem' \in Pointers
           /\ OfMem'.cur = mem'.cur /\ OfMem'.prev = mem'.prev
           /\ \A q : Good(q) /\ q.at \in {"idle", "boot"} =>
                 /\ {mem'.cur, mem'.prev} \subseteq Named \cup {None}
                 /\ Named' \subseteq Named \cup {None}
                 /\ side # NoSide => mem'.cur = mem.cur
                 /\ spent.faults = 0 => Full(OfMem)'
                 /\ spent.faults <= 1 => Effective' = OfMem'
<1>0. Types /\ mem \in Memories /\ disk \in Disks /\ Loaded \in Memories
  BY Shapes DEF MInv
<1>1. mem' \in Memories /\ mem'.loaded
  BY <1>0 DEF Loaded, Memories
<1>2. OfMem' \in Pointers /\ OfMem'.cur = mem'.cur /\ OfMem'.prev = mem'.prev
  BY <1>1 DEF OfMem, Memories, Pointers
<1>3. ASSUME NEW q, Good(q), q.at \in {"idle", "boot"}
      PROVE  /\ {mem'.cur, mem'.prev} \subseteq Named \cup {None}
             /\ Named' \subseteq Named \cup {None}
             /\ side # NoSide => mem'.cur = mem.cur
             /\ spent.faults = 0 => Full(OfMem)'
             /\ spent.faults <= 1 => Effective' = OfMem'
  <2>1. CASE mem.loaded
    <3>1. mem' = mem /\ OfMem' = OfMem /\ Effective' = Effective /\ Full(OfMem)' = Full(OfMem)
      BY <2>1 DEF Loaded, OfMem, Effective, Full
    <3> QED BY <1>3, <2>1, <3>1 DEF Good, Recorded, Named
  <2>2. CASE ~mem.loaded
    <3>1. mem'.cur = Effective.cur /\ mem'.prev = Effective.prev /\ Effective' = Effective
      BY <2>2 DEF Loaded, Effective
    <3>2. Effective \in Pointers
      BY <1>0 DEF Effective, Disks, Pointers
    <3>3. OfMem' = Effective
      BY <3>1, <3>2 DEF OfMem, Pointers
    <3>4. {mem'.cur, mem'.prev} \subseteq Named
      BY <3>1 DEF Effective, Named
    <3>5. side = NoSide /\ (spent.faults = 0 => Full(NoPointers))
      BY <1>3, <2>2 DEF Good, Unread
    <3>6. spent.faults = 0 => Full(OfMem)'
      <4>1. Full(NoPointers) => Effective = NoPointers
        BY <1>0, Shapes, FullSays
      <4> QED BY <3>3, <3>5, <4>1 DEF Full
    <3> QED BY <3>1, <3>3, <3>4, <3>5, <3>6 DEF Named
  <2> QED BY <2>1, <2>2
<1> QED BY <1>1, <1>2, <1>3

\* start() begins.
LEMMA StartBegins ==
    ASSUME MInv, NEW kind \in {"boot", "start"}, NEW to \in {"on", "off", "none"}, Started(kind, to),
           UNCHANGED <<disk, installed, side, procs, closed, proven>>,
           setting' \in {"on", "off", "none"}, overlapped' \in BOOLEAN,
           spent' \in [ops : Nat, patches : Nat, faults : Nat], spent'.faults = spent.faults,
           task["start"].at \in {"idle", "boot"},
           ~overlapped' => ~overlapped /\ task["queue"] = IdleTask
    PROVE  MInv'
<1> DEFINE s == task["start"]
           p == [cur |-> mem'.cur, prev |-> mem'.prev]
           l == [IdleTask EXCEPT !.kind = kind, !.at = "launch", !.rev = mem'.cur]
           w == [IdleTask EXCEPT !.kind = kind, !.at = "save", !.doc = p]
           u == [IdleTask EXCEPT !.kind = kind, !.at = "unserve"]
           r == IF to = "on" /\ mem'.cur # None THEN l
                ELSE IF to = "on" THEN w
                ELSE IF to = "off" /\ mem.loaded THEN u ELSE IdleTask
<1>0. /\ Types /\ "start" \in Slots /\ Slots \ {"start"} = {"queue"} /\ IdleTask \in Task /\ mem \in Memories
      /\ closed' \in BOOLEAN /\ task' = [task EXCEPT !["start"] = r]
      /\ mem' = IF to = "on" THEN Loaded ELSE mem
  BY Shapes DEF MInv, Slots, Types, Started
<1>1. mem' \in Memories /\ p \in Pointers
  BY <1>0, Shapes DEF Memories, Pointers
<1>2. /\ IdleTask.at = "idle" /\ IdleTask.kind = "idle" /\ IdleTask.side = NoSide /\ IdleTask.file = 1
      /\ IdleTask.doc.cur = None /\ IdleTask.doc.prev = None
  BY DEF IdleTask, NoPointers
<1>3. /\ l \in Task /\ l.kind = kind /\ l.at = "launch" /\ l.rev = mem'.cur /\ l.side = NoSide
      /\ l.doc = IdleTask.doc
  BY <1>0, <1>1, <1>2 DEF Task, Kinds, Places, Memories
<1>4. w \in Task /\ w.kind = kind /\ w.at = "save" /\ w.doc = p /\ w.side = NoSide /\ w.file = 1
  <2> HIDE DEF p
  <2> QED BY <1>0, <1>1, <1>2 DEF Task, Kinds, Places
<1>5. u \in Task /\ u.kind = kind /\ u.at = "unserve" /\ u.side = NoSide /\ u.doc = IdleTask.doc
  BY <1>0, <1>2 DEF Task, Kinds, Places
<1>6. p.cur = mem'.cur /\ p.prev = mem'.prev /\ p = OfMem'
  BY DEF OfMem
<1> HIDE DEF l, w, u, p
<1>7. r \in Task /\ r.side = NoSide /\ r.at \in {"launch", "save", "unserve", "idle"}
  BY <1>0, <1>2, <1>3, <1>4, <1>5
<1>8. Fits("start", r)
  BY <1>1, <1>2, <1>3, <1>4, <1>5 DEF Fits, Memories
<1>9. task'["start"] = r
  BY <1>0 DEF Types
<1>10. ASSUME ~overlapped' PROVE Good(task["start"])'
  <2>1. Good(s)
    BY <1>0, <1>10, Alone
  <2>2. CASE to = "on"
    <3>1. /\ mem'.loaded /\ {mem'.cur, mem'.prev} \subseteq Named \cup {None}
          /\ Named' \subseteq Named \cup {None}
          /\ side # NoSide => mem'.cur = mem.cur
          /\ spent.faults = 0 => Full(OfMem)'
          /\ spent.faults <= 1 => Effective' = OfMem'
      BY <1>0, <2>1, <2>2, Reading
    <3>2. r \in {l, w}
      BY <2>2
    <3>3. NamesWhole(task["start"])'
      BY <1>2, <1>3, <1>4, <1>6, <1>9, <2>1, <3>1, <3>2 DEF Good, NamesWhole
    <3>4. Unread(task["start"])' /\ Serving(task["start"])'
      BY <1>3, <1>4, <1>9, <2>1, <3>1, <3>2 DEF Good, Unread, Serving
    <3>5. Intends(task["start"])' /\ Wrote(task["start"])'
      BY <1>3, <1>4, <1>6, <1>9, <3>2 DEF Intends, Wrote
    <3>6. Recorded(task["start"])'
      BY <1>3, <1>4, <1>9, <3>1, <3>2 DEF Recorded
    <3> QED BY <3>3, <3>4, <3>5, <3>6 DEF Good
  <2>3. CASE to # "on"
    <3>1. mem' = mem /\ Effective' = Effective /\ OfMem' = OfMem
      BY <1>0, <2>3 DEF Effective, OfMem
    <3>2. r \in {u, IdleTask} /\ (r = u => mem.loaded)
      BY <1>2, <1>5, <2>3
    <3>3. NamesWhole(task["start"])'
      BY <1>2, <1>5, <1>9, <2>1, <3>1, <3>2 DEF Good, NamesWhole, Named
    <3>4. Unread(task["start"])' /\ Serving(task["start"])'
      BY <1>2, <1>5, <1>9, <2>1, <3>1, <3>2 DEF Good, Unread, Serving, Full
    <3>5. Intends(task["start"])' /\ Wrote(task["start"])'
      BY <1>2, <1>5, <1>9, <3>2 DEF Intends, Wrote
    <3>6. Recorded(task["start"])'
      BY <1>2, <1>5, <1>9, <2>1, <3>1, <3>2 DEF Good, Recorded, Full
    <3> QED BY <3>3, <3>4, <3>5, <3>6 DEF Good
  <2> QED BY <2>2, <2>3
<1> QED BY <1>0, <1>1, <1>7, <1>8, <1>10, Starts

\* main() starts the runtime.
LEMMA Booting == ASSUME MInv, Boot PROVE MInv'
<1>1. /\ "start" \in Slots /\ task["start"].at = "boot" /\ Types
      /\ UNCHANGED <<setting, disk, installed, side, procs, closed, proven, overlapped, spent>>
  BY DEF Boot, Slots, MInv
<1>2. PICK to \in {"on", "none"} : Started("boot", to)
  BY DEF Boot
<1>3. ~overlapped => task["queue"] = IdleTask
  BY <1>1, Acting DEF Slots
<1> QED BY <1>1, <1>2, <1>3, StartBegins DEF Types

\* patch(): off without a sidecar leaves the tasks alone, even an operation under way.
LEMMA Patching == ASSUME MInv, NEW to \in {"on", "off", "none"}, Patch(to) PROVE MInv'
<1>1. /\ "start" \in Slots /\ "queue" \in Slots /\ task["start"] = IdleTask /\ task["start"].at = "idle" /\ Types
      /\ UNCHANGED <<disk, installed, side, procs, closed, proven>> /\ Started("start", to)
      /\ setting' = to /\ overlapped' = (overlapped \/ (Busy("queue") /\ to # "none"))
  BY NotBusy DEF Patch, Slots, MInv, IdleTask
<1>2. spent' \in [ops : Nat, patches : Nat, faults : Nat] /\ spent'.faults = spent.faults
  BY <1>1 DEF Patch, Types
<1>3. CASE to # "none"
  <2>1. ~overlapped' => ~overlapped /\ task["queue"] = IdleTask
    BY <1>1, <1>3, NotBusy
  <2>2. overlapped' \in BOOLEAN
    BY <1>1 DEF Types
  <2> QED BY <1>1, <1>2, <2>1, <2>2, StartBegins
<1>4. CASE to = "none"
  <2>1. task' = task /\ mem' = mem
    BY <1>1, <1>4 DEF Started, Types
  <2>2. overlapped' = overlapped
    BY <1>1, <1>4 DEF Types
  <2>3. Types' /\ Flow' /\ Apart'
    BY <1>1, <1>2, <2>1, <2>2 DEF MInv, Types, Flow, Apart
  <2>4. Calm'
    BY <1>1, <1>2, <2>1, <2>2
       DEF MInv, Calm, Good, NamesWhole, Named, Unread, Serving, Intends, Wrote, Recorded, Full, OfMem, Effective
  <2> QED BY <2>3, <2>4 DEF MInv
<1> QED BY <1>3, <1>4

\* An operation begins.
LEMMA Beginning == ASSUME MInv, NEW kind \in {"update", "rollback", "probe"}, Begin(kind) PROVE MInv'
<1> DEFINE q == task["queue"]
           p == [cur |-> mem'.cur, prev |-> mem'.prev]
           place == IF kind = "probe" THEN "save" ELSE "mark"
           v == IF kind = "rollback" THEN mem'.prev ELSE None
           r == [IdleTask EXCEPT !.kind = kind, !.at = place, !.rev = v, !.doc = p]
<1>0. /\ "queue" \in Slots /\ Slots \ {"queue"} = {"start"} /\ Types /\ q = IdleTask /\ mem' = Loaded
      /\ UNCHANGED <<setting, disk, installed, side, procs, closed, proven>>
      /\ overlapped' = (overlapped \/ Busy("start")) /\ overlapped' \in BOOLEAN
      /\ task' = [task EXCEPT !["queue"] = r]
      /\ kind = "rollback" => mem'.prev # None
      /\ setting' \in {"on", "off", "none"} /\ closed' \in BOOLEAN
  BY NotBusy DEF Begin, Slots, MInv, Types
<1>1. /\ mem' \in Memories /\ mem'.loaded /\ p \in Pointers /\ p = OfMem'
      /\ p.cur = mem'.cur /\ p.prev = mem'.prev
  BY <1>0, Reading DEF OfMem
<1>2. spent' \in [ops : Nat, patches : Nat, faults : Nat] /\ spent'.faults = spent.faults
  BY <1>0 DEF Begin, Types
<1>3. v \in Revisions \cup {None} /\ (kind = "rollback" => v \in Revisions)
  BY <1>0, <1>1 DEF Memories
<1>4. place \in {"save", "mark"} /\ (place = "mark" => kind \in {"update", "rollback"})
  OBVIOUS
<1> HIDE DEF p, place, v
<1>5. /\ r \in Task /\ r.kind = kind /\ r.at = place /\ r.rev = v /\ r.doc = p /\ r.side = NoSide /\ r.file = 1
  <2>1. IdleTask \in Task /\ IdleTask.side = NoSide /\ IdleTask.file = 1
    BY <1>0, Shapes DEF IdleTask
  <2> QED BY <1>1, <1>3, <1>4, <2>1 DEF Task, Kinds, Places
<1> HIDE DEF r
<1>6. Fits("queue", r)
  BY <1>3, <1>4, <1>5 DEF Fits
<1>7. task'["queue"] = r
  BY <1>0 DEF Types
<1>8. ASSUME ~overlapped' PROVE Good(task["queue"])' /\ \A u \in Slots \ {"queue"} : task[u] = IdleTask
  <2>1. task["start"] = IdleTask /\ ~overlapped
    BY <1>0, <1>8, NotBusy DEF Slots
  <2>2. Good(q) /\ q.at = "idle"
    BY <1>0, <2>1, Alone DEF IdleTask
  <2>3. /\ {mem'.cur, mem'.prev} \subseteq Named \cup {None}
        /\ Named' \subseteq Named \cup {None}
        /\ side # NoSide => mem'.cur = mem.cur
        /\ spent.faults = 0 => Full(OfMem)'
        /\ spent.faults <= 1 => Effective' = OfMem'
    BY <1>0, <2>2, Reading
  <2>4. NamesWhole(task["queue"])'
    BY <1>0, <1>1, <1>5, <1>7, <2>2, <2>3 DEF Good, NamesWhole
  <2>5. Unread(task["queue"])' /\ Serving(task["queue"])'
    BY <1>0, <1>1, <1>4, <1>5, <1>7, <2>2, <2>3 DEF Good, Unread, Serving
  <2>6. Intends(task["queue"])' /\ Wrote(task["queue"])'
    BY <1>1, <1>4, <1>5, <1>7 DEF Intends, Wrote
  <2>7. Recorded(task["queue"])'
    BY <1>1, <1>2, <1>4, <1>5, <1>7, <2>3 DEF Recorded
  <2> QED BY <1>0, <2>1, <2>4, <2>5, <2>6, <2>7 DEF Good
<1> QED BY <1>0, <1>1, <1>2, <1>4, <1>5, <1>6, <1>8, Starts

\* close() begins.
LEMMA Closing == ASSUME MInv, Close PROVE MInv'
<1> DEFINE s == task["start"]
           r == [IdleTask EXCEPT !.kind = "close", !.at = "unserve"]
<1>0. /\ "start" \in Slots /\ Slots \ {"start"} = {"queue"} /\ Types /\ s = IdleTask /\ s.at = "idle"
      /\ UNCHANGED <<setting, mem, disk, installed, side, procs, proven, spent>> /\ closed' \in BOOLEAN
      /\ overlapped' = (overlapped \/ Busy("queue")) /\ overlapped' \in BOOLEAN
      /\ task' = [task EXCEPT !["start"] = r] /\ mem' \in Memories
      /\ setting' \in {"on", "off", "none"} /\ spent' \in [ops : Nat, patches : Nat, faults : Nat]
  BY NotBusy, Shapes DEF Close, Slots, MInv, Types, IdleTask
<1>1. r \in Task /\ r.kind = "close" /\ r.at = "unserve" /\ r.doc = IdleTask.doc /\ r.side = NoSide
  BY <1>0, Shapes DEF IdleTask, Task, Kinds, Places
<1> HIDE DEF r
<1>2. Fits("start", r)
  BY <1>1 DEF Fits
<1>3. task'["start"] = r
  BY <1>0 DEF Types
<1>4. ASSUME ~overlapped' PROVE Good(task["start"])' /\ \A u \in Slots \ {"start"} : task[u] = IdleTask
  <2>1. task["queue"] = IdleTask /\ ~overlapped
    BY <1>0, <1>4, NotBusy DEF Slots
  <2>2. Good(s)
    BY <1>0, <2>1, Alone
  <2>3. NamesWhole(task["start"])'
    BY <1>0, <1>1, <1>3, <2>2 DEF Good, NamesWhole, Named
  <2>4. Unread(task["start"])' /\ Serving(task["start"])' /\ Intends(task["start"])' /\ Wrote(task["start"])'
    BY <1>0, <1>1, <1>3, <2>2 DEF Good, Unread, Serving, Intends, Wrote, Full
  <2>5. Recorded(task["start"])'
    BY <1>0, <1>1, <1>3, <2>2 DEF Good, Recorded, Full, OfMem, Effective
  <2> QED BY <1>0, <2>1, <2>3, <2>4, <2>5 DEF Good
<1> QED BY <1>0, <1>1, <1>2, <1>4, Starts

\* After a crash nothing of memory is left, and the names in the files are whole still.
LEMMA Crashing == ASSUME MInv, Crash PROVE MInv'
<1> DEFINE b == [IdleTask EXCEPT !.kind = "boot", !.at = "boot"]
<1>0. /\ Types /\ IdleTask \in Task /\ NoSide \in Sides /\ disk \in Disks
      /\ UNCHANGED <<setting, disk, installed, proven, overlapped>>
      /\ mem' = [loaded |-> FALSE, cur |-> None, prev |-> None] /\ side' = NoSide /\ procs' = {}
      /\ task' = [t \in Slots |-> IF t = "start" THEN b ELSE IdleTask] /\ closed' = FALSE
      /\ spent' \in [ops : Nat, patches : Nat, faults : Nat] /\ spent'.faults # 0
  BY Shapes DEF MInv, Crash, Types
<1>1. b \in Task /\ b.kind = "boot" /\ b.at = "boot" /\ b.doc = IdleTask.doc /\ b.side = NoSide
  BY <1>0 DEF IdleTask, Task, Kinds, Places
<1>2. /\ IdleTask.at = "idle" /\ IdleTask.kind = "idle" /\ IdleTask.side = NoSide
      /\ IdleTask.doc.cur = None /\ IdleTask.doc.prev = None
  BY DEF IdleTask, NoPointers
<1> HIDE DEF b
<1>3. IsFiniteSet(procs') /\ task' \in [Slots -> Task] /\ task'["start"] = b /\ task'["queue"] = IdleTask
  BY <1>0, <1>1, FS_EmptySet DEF Slots
<1>4. Types'
  BY <1>0, <1>3 DEF Types
<1>5. Flow'
  BY <1>1, <1>2, <1>3 DEF Flow, Fits, Slots
<1>6. Apart'
  BY <1>2, <1>3 DEF Apart
<1>7. Calm'
  <2>1. ASSUME ~overlapped PROVE \E t \in Slots : NamesWhole(task[t])
    BY <2>1 DEF MInv, Calm, Good
  <2>2. ASSUME ~overlapped PROVE Good(task["start"])'
    <3>1. Named' \subseteq Named \cup {None}
      BY <1>0 DEF Named
    <3>2. NamesWhole(task["start"])'
      BY <1>0, <1>1, <1>2, <1>3, <2>1, <2>2, <3>1 DEF NamesWhole
    <3>3. Unread(task["start"])' /\ Serving(task["start"])' /\ Intends(task["start"])'
          /\ Wrote(task["start"])' /\ Recorded(task["start"])'
      BY <1>0, <1>1, <1>3 DEF Unread, Serving, Intends, Wrote, Recorded
    <3> QED BY <3>2, <3>3 DEF Good
  <2>3. "start" \in Slots /\ Slots \ {"start"} = {"queue"}
    BY DEF Slots
  <2> QED BY <1>0, <1>3, <2>2, <2>3 DEF Calm
<1> QED BY <1>4, <1>5, <1>6, <1>7 DEF MInv

\* The initial states satisfy the invariant.
LEMMA InitM == Init => MInv
<1> SUFFICES ASSUME Init PROVE MInv
  OBVIOUS
<1> DEFINE b == [IdleTask EXCEPT !.kind = "boot", !.at = "boot"]
<1>0. /\ mem = [loaded |-> FALSE, cur |-> None, prev |-> None] /\ side = NoSide /\ procs = {}
      /\ disk = [all |-> NoPointers, cur |-> None, prev |-> None]
      /\ task = [t \in Slots |-> IF t = "start" THEN b ELSE IdleTask]
      /\ spent.faults = 0 /\ ~overlapped
  BY DEF Init
<1>1. NoPointers \in Pointers /\ NoSide \in Sides /\ NoPointers.cur = None /\ NoPointers.prev = None
  BY DEF NoPointers, Pointers, NoSide, Sides
<1>2. IdleTask \in Task
  BY <1>1 DEF IdleTask, Task, Kinds, Places
<1>3. b \in Task /\ b.kind = "boot" /\ b.at = "boot" /\ b.doc = IdleTask.doc /\ b.side = NoSide
  BY <1>2 DEF IdleTask, Task, Kinds, Places
<1>4. /\ IdleTask.at = "idle" /\ IdleTask.kind = "idle" /\ IdleTask.side = NoSide
      /\ IdleTask.doc.cur = None /\ IdleTask.doc.prev = None
  BY DEF IdleTask, NoPointers
<1> HIDE DEF b
<1>5. task \in [Slots -> Task] /\ task["start"] = b /\ task["queue"] = IdleTask
  BY <1>0, <1>2, <1>3 DEF Slots
<1>6. Types
  BY <1>1, <1>5, FS_EmptySet DEF Types, Init
<1>7. Flow
  BY <1>3, <1>4, <1>5 DEF Flow, Fits, Slots
<1>8. Apart
  BY <1>4, <1>5 DEF Apart
<1>9. Good(b)
  <2>1. Full(NoPointers)
    BY <1>0 DEF Full, NoPointers
  <2>2. NamesWhole(b)
    BY <1>0, <1>1, <1>3, <1>4 DEF NamesWhole, Named
  <2> QED BY <1>0, <1>3, <2>1, <2>2 DEF Good, Unread, Serving, Intends, Wrote, Recorded
<1>10. Calm
  BY <1>5, <1>9 DEF Calm, Slots
<1> QED BY <1>6, <1>7, <1>8, <1>10 DEF MInv

\* Every step preserves the invariant.
LEMMA StepM == MInv /\ [Next]_vars => MInv'
<1> SUFFICES ASSUME MInv, [Next]_vars PROVE MInv'
  OBVIOUS
<1>1. ASSUME NEW t \in Slots, Write(t) PROVE MInv'
  <2>1. task[t].file \in 1 .. 3
    BY DEF MInv, Types, Task
  <2>2. CASE task[t].file < 3
    BY <1>1, <2>2, WritingOne
  <2>3. CASE task[t].file = 3
    BY <1>1, <2>3, WritingLast
  <2> QED BY <2>1, <2>2, <2>3
<1>2. CASE QueueStep
  <2>1. CASE Resolve \/ Build \/ Checked \/ Recheck
    BY <2>1, Resolving, Building, Checking, Rechecking
  <2>2. CASE Drain \/ Fail \/ Prune
    BY <2>2, Drained, Pruning
  <2>3. CASE Launch("queue") \/ Write("queue")
    BY <1>1, <2>3, LaunchingCandidate DEF Slots
  <2> QED BY <1>2, <2>1, <2>2, <2>3 DEF QueueStep
<1>3. CASE StartStep
  <2>1. CASE Boot \/ StartChecked \/ Unserve("start")
    BY <2>1, Booting, CheckingStart, Unserving
  <2>2. CASE Launch("start") \/ Write("start")
    BY <1>1, <2>2, LaunchingCurrent DEF Slots
  <2> QED BY <1>3, <2>1, <2>2 DEF StartStep
<1>4. CASE \E to \in {"on", "off", "none"} : Patch(to)
  BY <1>4, Patching
<1>5. CASE \E kind \in {"update", "rollback", "probe"} : Begin(kind)
  BY <1>5, Beginning
<1>6. CASE \E t \in Slots : WriteFails(t)
  BY <1>6, WritingNot
<1>7. CASE Close \/ Crash
  BY <1>7, Closing, Crashing
<1>8. CASE UNCHANGED vars
  <2>1. Types' /\ Flow' /\ Apart'
    BY <1>8 DEF vars, MInv, Types, Flow, Apart
  <2>2. Calm'
    BY <1>8 DEF vars, MInv, Calm, Good, NamesWhole, Named, Unread, Serving, Intends, Wrote, Recorded, Full,
                OfMem, Effective
  <2> QED BY <2>1, <2>2 DEF MInv
<1> QED BY <1>2, <1>3, <1>4, <1>5, <1>6, <1>7, <1>8 DEF Next

\* The invariant says what the property says.
LEMMA MSays == MInv => QuietIsConsistent
<1> SUFFICES ASSUME MInv PROVE QuietIsConsistent
  OBVIOUS
<1>1. TypeOK
  BY DEF MInv, Types, TypeOK, Task
<1>2. ~overlapped => \A v \in {mem.cur, mem.prev, Effective.cur, Effective.prev} \ {None} : installed[v] = "whole"
  <2>1. Effective.cur \in {disk.all.cur, disk.cur} /\ Effective.prev \in {disk.all.prev, disk.prev}
    BY DEF Effective
  <2>2. {mem.cur, mem.prev, Effective.cur, Effective.prev} \subseteq Named
    BY <2>1 DEF Named
  <2> QED BY <2>2 DEF MInv, Calm, Good, NamesWhole
<1>3. ASSUME \A t \in Slots : ~Busy(t), mem.loaded, ~overlapped
      PROVE  /\ side # NoSide => side.rev = mem.cur /\ side \in procs
             /\ spent.faults <= 1 => Effective = OfMem
  <2>1. Good(task["queue"]) /\ task["queue"].at = "idle"
    BY <1>3, Alone, NotBusy DEF Slots, IdleTask
  <2> QED BY <1>3, <2>1 DEF Good, Serving, Recorded
<1> QED BY <1>1, <1>2, <1>3 DEF QuietIsConsistent, PointersWhole

\* No step of the queue's operation stops the sidecar in use without a running successor.
LEMMA Serves == MInv /\ [Next]_vars => (QueueStep /\ side \in procs => side' \in procs')
<1> SUFFICES ASSUME MInv, QueueStep, side \in procs PROVE side' \in procs'
  OBVIOUS
<1>1. side # NoSide
  BY DEF MInv, Types, NoSide
<1>2. CASE Resolve \/ Build \/ Checked \/ Prune \/ Write("queue")
  BY <1>2 DEF Resolve, Build, Checked, Prune, Write
<1>3. CASE Recheck
  BY <1>3 DEF Recheck, Answers
<1>4. CASE Drain
  BY <1>1, <1>4 DEF Drain, MInv, Apart
<1>5. CASE Fail
  BY <1>1, <1>5 DEF Fail, MInv, Apart
<1>6. CASE Launch("queue")
  BY <1>6 DEF Launch
<1> QED BY <1>2, <1>3, <1>4, <1>5, <1>6 DEF QueueStep

-----------------------------------------------------------------------------
\* The invariant holds in every state.
THEOREM Inductive == Spec => []IInv
BY InitInv, StepInv, PTL DEF Spec

\* No pointer, in memory or in a file, ever names a revision that did not pass health and
\* smoke: not after a failed switch, a failed write, a crash between the three files, or a
\* start() or close() in the middle of an update.
THEOREM NeverUnproven == Spec => []PointersProven
<1>1. IInv => PointersProven
  BY DEF IInv, AllProven, Proven, PointersProven
<1> QED BY Inductive, <1>1, PTL

\* Types, flow, processes and, undisturbed, what the task under way knows.
THEOREM Undisturbed == Spec => []MInv
BY InitM, StepM, PTL DEF Spec

\* At rest the sidecar in use runs and is of the current revision, what the pointers name is
\* whole, and after one fault the files still say what memory says.
THEOREM QuietConsistent == Spec => []QuietIsConsistent
BY Undisturbed, MSays, PTL

\* An update that fails costs no service, and one that succeeds none either.
THEOREM ServiceSurvives == Spec => ServiceSurvivesUpdate
<1>1. MInv /\ [Next]_vars => [QueueStep /\ side \in procs => side' \in procs']_vars
  BY Serves
<1> QED BY <1>1, Undisturbed, PTL DEF Spec, ServiceSurvivesUpdate
=============================================================================
