---------------------------- MODULE RestoreProofs ----------------------------
(***************************************************************************)
(* Proofs about Restore: backup, staging and restore of the database.      *)
(*                                                                         *)
(* RestoreInv is what the jobs count on.  Previous belongs to the one job  *)
(* that made it (Owns), holds what that job remembered (Seen), and only    *)
(* its owner swaps or rolls back (Clear); each temporary file is there     *)
(* only in certain steps (OwnTemps); and the latest data is under its own  *)
(* name, in the previous of a job that may have replaced it, or aside      *)
(* (Where).  Every step of an apply job is shown to do the job itself      *)
(* good (Good) and to leave the others alone (Framed); the other steps     *)
(* leave all apply jobs alone.                                             *)
(***************************************************************************)
EXTENDS Restore, TLAPS

-----------------------------------------------------------------------------
(* The inductive invariant *)

\* The files are files.
Filed == files \in [Paths -> File \cup {None}]

\* The steps of the jobs.
Labels ==
    {"begin", "ended", "vacuum", "copy", "link", "clean", "preserve", "compare", "keep",
     "prepare", "verify", "swap", "aside", "install", "back", "drop", "swapped", "undo",
     "rollback", "return", "return-aside", "return-install", "forget", "manual", "finally"}

\* Where the jobs are, and what they returned.
Places ==
    /\ pc \in [Jobs -> Labels]
    /\ result \in [Jobs -> Outcomes \cup {None}]

\* Previous is the copy that job j made.
Own(j) == Exists(Previous) /\ files[Previous].ino = CopyOf(j)

\* The job has decided.
Over(j) == pc[j] \in {"finally", "ended"}
\* The steps before previous is made, after the swap, and all those with previous in place.
Early == {"begin", "preserve", "compare", "keep"}
AfterSwap == {"swapped", "rollback", "return", "return-aside", "return-install", "forget", "manual"}
Kept == {"prepare", "verify", "swap", "aside", "install", "back", "drop"} \cup AfterSwap

\* From "keep" on previous is the job's, until the job removes it; it leaves it
\* behind if it applied the restore, calls for manual recovery, died, or could not remove it.
Owns(j) ==
    /\ \/ pc[j] \in Kept
       \/ pc[j] = "undo" /\ j \in made
       \/ Over(j) /\ result[j] \in {"applied", "manual"}
       => Own(j)
    /\ Own(j) => /\ j \in made
                 /\ \/ pc[j] \in Kept \cup {"undo"}
                    \/ Over(j) /\ result[j] \in {"applied", "manual"}
                    \/ pc[j] = "ended" /\ result[j] = "died"
                    \/ Over(j) /\ Previous \in litter
    /\ pc[j] \in Early => j \notin made
    /\ pc[j] \in AfterSwap => j \in swapped
    /\ j \in swapped => j \in made /\ pc[j] \in AfterSwap \cup {"undo", "finally", "ended"}
    /\ ~Over(j) /\ pc[j] # "manual" => result[j] \notin {"applied", "manual"}

\* The remembered data is what previous holds and, from the last check on, the latest.
Seen(j) ==
    /\ pc[j] \notin {"begin", "ended"} => seen[j] # None
    /\ Own(j) => seen[j] # None /\ files[Previous].data = seen[j].data
    /\ (~raced /\ (j \in PastChecks \/ result[j] = "applied")) => seen[j].data = writes

\* When the job's temporary files may be there, and what they hold.
OwnTemps(j) ==
    /\ Exists(CopyOf(j)) => /\ pc[j] # "begin"
                            /\ pc[j] = "ended" => result[j] = "died" \/ CopyOf(j) \in litter
    /\ Exists(SwapOf(j)) => /\ pc[j] # "begin"
                            /\ pc[j] = "ended" => result[j] = "died" \/ SwapOf(j) \in litter
    /\ Exists(OldOf(j)) => \/ pc[j] \in {"install", "back", "drop"}
                           \/ /\ pc[j] \in {"undo", "finally"} /\ result[j] = "stranded"
                              /\ j \notin swapped
                           \/ pc[j] = "ended" /\ result[j] = "died"
                           \/ OldOf(j) \in litter
    /\ Exists(RollbackOf(j)) => \/ pc[j] \in {"return", "return-aside", "return-install", "manual"}
                                \/ pc[j] = "ended" /\ result[j] = "died"
                                \/ RollbackOf(j) \in litter
    /\ Exists(RollbackOldOf(j)) => \/ pc[j] \in {"return-install", "manual"}
                                   \/ Over(j) /\ result[j] \in {"manual", "died"}
    /\ pc[j] \in {"compare", "keep"} => Exists(CopyOf(j)) /\ files[CopyOf(j)].ino = CopyOf(j)
    /\ pc[j] = "keep" => files[CopyOf(j)].data = seen[j].data
    /\ pc[j] \in {"return", "return-aside", "return-install"} =>
          Exists(RollbackOf(j)) /\ files[RollbackOf(j)].data = seen[j].data

\* The latest data is under its own name.
Home == Exists(Current) /\ files[Current].data = writes

\* What the swap and its undoing count on.
Swapping(j) ==
    /\ ~raced /\ pc[j] \in {"swap", "aside", "forget"} => Home
    /\ pc[j] \in {"install", "back"} => ~Exists(Current)
    /\ ~raced /\ pc[j] \in {"install", "back"} => Exists(OldOf(j)) /\ files[OldOf(j)].data = writes
    /\ result[j] = "applied" => Over(j) /\ Exists(Current) /\ files[Current].data = manifest

JobInv(j) == Owns(j) /\ Seen(j) /\ OwnTemps(j) /\ Swapping(j)

\* The latest data is in the previous of a job that may have replaced current ...
Away(j) ==
    /\ Own(j) /\ files[Previous].data = writes
    /\ pc[j] \notin {"prepare", "verify", "swap", "aside", "forget"}
    /\ pc[j] = "undo" => j \in swapped
    /\ Over(j) => result[j] \in {"applied", "manual", "died"}

\* ... or aside, where a failed swap left it.
Stranded(j) ==
    \/ /\ \/ pc[j] \in {"undo", "finally"} /\ result[j] = "stranded"
          \/ pc[j] = "ended" /\ result[j] = "died"
       /\ Exists(OldOf(j)) /\ files[OldOf(j)].data = writes
    \/ pc[j] = "ended" /\ result[j] = "stranded"

Where ==
    \/ raced \/ Home
    \/ \E j \in Applies : Away(j)
    \/ ~Exists(Current) /\ \E j \in Applies : Stranded(j)

\* The copy of a backup or staging job: there while the job works, and when it links.
Copies(j) ==
    /\ Exists(CopyOf(j)) => /\ pc[j] # "begin"
                            /\ pc[j] = "ended" => result[j] = "died" \/ CopyOf(j) \in litter
    /\ j \in Backups /\ pc[j] = "link" => Exists(CopyOf(j))

\* Previous is always the copy of an apply job.
Owned == Exists(Previous) => \E j \in Applies : Own(j)
\* A manifest has its snapshot.
Sealed == manifest # None => Exists(Snapshot)

\* The inductive invariant.
RestoreInv ==
    /\ TypeOK /\ Places
    /\ Owned /\ Sealed
    /\ \A j \in Backups \cup Stagings : Copies(j)
    /\ \A j \in Applies : JobInv(j)
    /\ Where

-----------------------------------------------------------------------------
(* Paths and file operations *)

\* A path is told by its kind and, if it is a job's, by its job.
LEMMA Tags ==
    /\ Current[1] = "current" /\ Previous[1] = "previous"
    /\ Snapshot[1] = "snapshot" /\ Staged[1] = "staged"
    /\ \A j : CopyOf(j)[1] = "copy" /\ CopyOf(j)[2] = j
    /\ \A j : SwapOf(j)[1] = "swap" /\ SwapOf(j)[2] = j
    /\ \A j : OldOf(j)[1] = "old" /\ OldOf(j)[2] = j
    /\ \A j : RollbackOf(j)[1] = "rollback" /\ RollbackOf(j)[2] = j
    /\ \A j : RollbackOldOf(j)[1] = "rollback-old" /\ RollbackOldOf(j)[2] = j
BY DEF Current, Previous, Snapshot, Staged, CopyOf, SwapOf, OldOf, RollbackOf, RollbackOldOf

\* The paths and jobs of the model are there.
LEMMA PathsThere ==
    /\ Current \in Paths /\ Previous \in Paths /\ Snapshot \in Paths /\ Staged \in Paths
    /\ Applies \subseteq Jobs /\ Backups \subseteq Jobs /\ Stagings \subseteq Jobs
    /\ \A j \in Jobs : CopyOf(j) \in Paths
    /\ \A j \in Applies : /\ CopyOf(j) \in Paths /\ SwapOf(j) \in Paths /\ OldOf(j) \in Paths
                          /\ RollbackOf(j) \in Paths /\ RollbackOldOf(j) \in Paths
BY DEF Paths, Named, Temps, Jobs, CopyOf, SwapOf, OldOf, RollbackOf, RollbackOldOf

\* The paths a step of apply job j deals with: all there, all different.
Around(j) ==
    /\ j \in Jobs
    /\ {Current, Previous, Snapshot, Staged} \subseteq Paths
    /\ CopyOf(j) \in Paths /\ SwapOf(j) \in Paths /\ OldOf(j) \in Paths
    /\ RollbackOf(j) \in Paths /\ RollbackOldOf(j) \in Paths
    /\ Current \notin {Previous, CopyOf(j), SwapOf(j), OldOf(j), RollbackOf(j), RollbackOldOf(j)}
    /\ Previous \notin {CopyOf(j), SwapOf(j), OldOf(j), RollbackOf(j), RollbackOldOf(j)}
    /\ CopyOf(j) \notin {SwapOf(j), OldOf(j), RollbackOf(j), RollbackOldOf(j)}
    /\ SwapOf(j) \notin {OldOf(j), RollbackOf(j), RollbackOldOf(j)}
    /\ OldOf(j) \notin {RollbackOf(j), RollbackOldOf(j)}
    /\ RollbackOf(j) # RollbackOldOf(j)

\* The paths around an apply job are there and differ.
LEMMA AroundHolds ==
    ASSUME NEW j \in Applies
    PROVE  Around(j)
<1>1. /\ Current \notin {Previous, CopyOf(j), SwapOf(j), OldOf(j), RollbackOf(j), RollbackOldOf(j)}
      /\ Previous \notin {CopyOf(j), SwapOf(j), OldOf(j), RollbackOf(j), RollbackOldOf(j)}
    BY DEF Current, Previous, CopyOf, SwapOf, OldOf, RollbackOf, RollbackOldOf
<1>2. /\ CopyOf(j) \notin {SwapOf(j), OldOf(j), RollbackOf(j), RollbackOldOf(j)}
      /\ SwapOf(j) \notin {OldOf(j), RollbackOf(j), RollbackOldOf(j)}
      /\ OldOf(j) \notin {RollbackOf(j), RollbackOldOf(j)}
      /\ RollbackOf(j) # RollbackOldOf(j)
    BY DEF CopyOf, SwapOf, OldOf, RollbackOf, RollbackOldOf
<1> QED BY <1>1, <1>2, PathsThere DEF Around

\* The temporary files of an apply job.
Mine(j) == {CopyOf(j), SwapOf(j), OldOf(j), RollbackOf(j), RollbackOldOf(j)}

\* A step touches no path outside ps.
Touches(ps) == \A p \in Paths \ ps : files'[p] = files[p]

\* What exists is a file.
LEMMA FileThere ==
    ASSUME Filed, NEW p \in Paths, Exists(p)
    PROVE  files[p] \in File /\ files[p].data \in Data /\ files[p].ino \in Paths
BY DEF Filed, Exists, File

\* A copy is a file of its own with the data of the other; nothing else is touched.
LEMMA Copying ==
    ASSUME Filed, NEW p \in Paths, NEW q \in Paths, Exists(p), files' = Copied(p, q)
    PROVE  /\ Filed' /\ Touches({q})
           /\ files'[q].data = files[p].data /\ files'[q].ino = q /\ Exists(q)'
<1>1. [data |-> files[p].data, ino |-> q] \in File
    BY FileThere DEF File
<1>2. files'[q] = [data |-> files[p].data, ino |-> q]
    BY DEF Filed, Copied
<1>3. files'[q] # None
    BY <1>1, <1>2, NoneAssumption
<1>4. Filed'
    BY <1>1 DEF Filed, Copied
<1> QED
    BY <1>2, <1>3, <1>4 DEF Touches, Filed, Copied, Exists

\* A link is the same file; nothing else is touched.
LEMMA Linking ==
    ASSUME Filed, NEW p \in Paths, NEW q \in Paths, files' = Linked(p, q)
    PROVE  Filed' /\ Touches({q}) /\ files'[q] = files[p]
BY DEF Filed, Linked, Touches

\* A renamed file is the same file under the other name; nothing else is touched.
LEMMA Moving ==
    ASSUME Filed, NEW p \in Paths, NEW q \in Paths, p # q, files' = Moved(p, q)
    PROVE  Filed' /\ Touches({p, q}) /\ files'[q] = files[p] /\ files'[p] = None
BY DEF Filed, Moved, Touches

\* What is to be removed is gone, or is the file it was, and litter; nothing else is touched.
Removed(p) ==
    \/ files'[p] = None
    \/ files'[p] = files[p] /\ p \in litter'

\* A removal does no more than that, and counts as one fault at most.
LEMMA Removing ==
    ASSUME Filed, NEW ps \in SUBSET Paths, Remove(ps), litter \subseteq Paths
    PROVE  /\ Filed' /\ Touches(ps) /\ \A p \in ps : Removed(p)
           /\ litter \subseteq litter' /\ litter' \subseteq Paths
           /\ UNCHANGED faults \/ Fault
<1>1. PICK left \in SUBSET {p \in ps : Exists(p)} :
        /\ files' = Without(ps \ left)
        /\ litter' = litter \cup left
        /\ IF left = {} THEN UNCHANGED faults ELSE Fault
    BY DEF Remove
<1>2. Filed' /\ \A p \in Paths : files'[p] = IF p \in ps \ left THEN None ELSE files[p]
    BY <1>1 DEF Filed, Without
<1>3. ASSUME NEW p \in ps
      PROVE  Removed(p)
    <2>1. CASE p \in left
        BY <1>1, <1>2, <2>1 DEF Removed
    <2>2. CASE p \notin left
        <3>1. p \in Paths /\ p \in ps \ left
            BY <2>2
        <3> QED BY <1>2, <3>1 DEF Removed
    <2> QED BY <2>1, <2>2
<1> QED BY <1>1, <1>2, <1>3 DEF Touches

\* A step that leaves the files touches none.
LEMMA Leaving ==
    ASSUME Filed, files' = files
    PROVE  Filed' /\ Touches({})
BY DEF Filed, Touches

-----------------------------------------------------------------------------
(* What a step of an apply job does to itself *)

\* Where the job goes, with what in result.
Goes(j, next, r) == pc'[j] = next /\ result'[j] = r

\* Its memory and its flags stay.
Still(j) == /\ seen'[j] = seen[j]
            /\ j \in made' <=> j \in made
            /\ j \in swapped' <=> j \in swapped

\* The daemon and the manifest have no part in it.
Apart == writes' = writes /\ raced' = raced /\ manifest' = manifest /\ litter \subseteq litter'

\* The latest data is found again.
Found(j) ==
    \/ raced' \/ Home' \/ Away(j)'
    \/ /\ files'[Current] = files[Current]
       /\ Away(j) => Away(j)'
       /\ Stranded(j) => Stranded(j)'
    \/ ~Exists(Current)' /\ Stranded(j)'

\* Current and previous change only in the hands of the owner of previous.
Clear(j) ==
    \/ files'[Current] = files[Current] /\ files'[Previous] = files[Previous]
    \/ Own(j) /\ \/ files'[Previous] = files[Previous]
                 \/ files'[Previous] = None /\ pc[j] \in {"undo", "forget"}
    \/ ~Exists(Previous) /\ Own(j)'

\* All a step of an apply job does: types, files, its own invariant, the latest data,
\* and whose current and previous it changed.
Good(j) ==
    /\ Filed' /\ Touches(Mine(j) \cup {Current, Previous})
    /\ Apart /\ JobInv(j)' /\ Found(j) /\ Clear(j)

\* Previous belongs to one job.
LEMMA OneOwner ==
    ASSUME NEW i, NEW j, Own(i), Own(j)
    PROVE  i = j
<1>1. CopyOf(i) = CopyOf(j)
    BY DEF Own
<1>2. CopyOf(i)[2] = i /\ CopyOf(j)[2] = j
    BY Tags
<1> QED BY <1>1, <1>2

\* If current is there, and the owner of previous has not replaced it, it is the latest data.
LEMMA HomeAgain ==
    ASSUME RestoreInv, NEW j \in Applies, Own(j), ~Away(j), Exists(Current)
    PROVE  raced \/ Home
BY OneOwner DEF RestoreInv, Where, Away

\* A job that begins remembers what is current.
LEMMA ApplyBeginGood ==
    ASSUME RestoreInv, NEW j \in Applies, ApplyBegin(j)
    PROVE  Good(j)
<1>0. Filed /\ Places /\ JobInv(j) /\ pc[j] = "begin"
    BY DEF RestoreInv, TypeOK, Filed, ApplyBegin, At
<1>p. Around(j)
    BY AroundHolds
<1>a. Apart
    BY <1>0 DEF ApplyBegin, Same, Outside, flags, world, Apart, Still
<1>1. CASE UNCHANGED files /\ Goto(j, "preserve") /\ Exists(Current)
    <2>1. Goes(j, "preserve", result[j])
        BY <1>0, <1>1, <1>p DEF Around, Goes, Goto, Places
    <2>2. Filed' /\ Touches({})
        BY <1>0, <1>1, Leaving
    <2>f. seen'[j] # None /\ (j \in made' <=> j \in made) /\ (j \in swapped' <=> j \in swapped)
        BY <1>0, <1>1, <2>2 DEF ApplyBegin, RestoreInv, TypeOK, Exists
    <2>3. JobInv(j)'
        BY <1>0, <1>a, <2>f, <1>1, <2>1, <2>2 DEF Goes, Still, Apart, JobInv, Owns, Seen, OwnTemps,
           Swapping, Own, Over, Exists, Home, PastChecks, Kept, AfterSwap, Early
    <2>4. Found(j) /\ Clear(j)
        BY <1>0, <1>a, <2>f, <1>1, <2>1, <2>2 DEF Found, Clear, Goes, Still, Apart,
           JobInv, Owns, Seen, OwnTemps, Swapping, Own, Over, Away, Stranded, Exists, Home,
           PastChecks, Kept, AfterSwap, Early
    <2> QED BY <1>a, <2>2, <2>3, <2>4 DEF Good, Touches, Mine
<1>2. CASE UNCHANGED files /\ Throw(j, "failed", "ended")
    <2>1. Goes(j, "ended", "failed")
        BY <1>0, <1>2, <1>p DEF Around, Goes, Throw, Places
    <2>2. Filed' /\ Touches({})
        BY <1>0, <1>2, Leaving
    <2>f. (j \in made' <=> j \in made) /\ (j \in swapped' <=> j \in swapped)
        BY <1>0, <1>2, <2>2 DEF ApplyBegin
    <2>3. JobInv(j)'
        BY <1>0, <1>a, <2>f, <1>2, <2>1, <2>2 DEF Goes, Still, Apart, JobInv, Owns, Seen, OwnTemps,
           Swapping, Own, Over, Exists, Home, PastChecks, Kept, AfterSwap, Early
    <2>4. Found(j) /\ Clear(j)
        BY <1>0, <1>a, <2>f, <1>2, <2>1, <2>2 DEF Found, Clear, Goes, Still, Apart,
           JobInv, Owns, Seen, OwnTemps, Swapping, Own, Over, Away, Stranded, Exists, Home,
           PastChecks, Kept, AfterSwap, Early
    <2> QED BY <1>a, <2>2, <2>3, <2>4 DEF Good, Touches, Mine
<1> QED
    BY <1>1, <1>2 DEF ApplyBegin, Check, Preflight

\* The copy of current that previous will be.
LEMMA PreserveGood ==
    ASSUME RestoreInv, NEW j \in Applies, Preserve(j)
    PROVE  Good(j)
<1>0. Filed /\ Places /\ JobInv(j) /\ pc[j] = "preserve"
    BY DEF RestoreInv, TypeOK, Filed, Preserve, At
<1>p. Around(j)
    BY AroundHolds
<1>a. Apart /\ Still(j)
    BY <1>0 DEF Preserve, Same, Outside, flags, world, Apart, Still
<1>1. CASE Exists(Current) /\ files' = Copied(Current, CopyOf(j)) /\ Goto(j, "compare")
    <2>1. Goes(j, "compare", result[j])
        BY <1>0, <1>1, <1>p DEF Around, Goes, Goto, Places
    <2>2. Filed' /\ Touches({CopyOf(j)})
          /\ Exists(CopyOf(j))' /\ files'[CopyOf(j)].ino = CopyOf(j)
        BY <1>0, <1>1, Copying, <1>p DEF Around
    <2>u. /\ files'[Current] = files[Current] /\ files'[Previous] = files[Previous]
          /\ files'[SwapOf(j)] = files[SwapOf(j)] /\ files'[OldOf(j)] = files[OldOf(j)]
          /\ files'[RollbackOf(j)] = files[RollbackOf(j)] /\ files'[RollbackOldOf(j)] = files[RollbackOldOf(j)]
        BY <1>p, <2>2 DEF Touches, Around
    <2>3. JobInv(j)'
        BY <1>0, <1>a, <1>1, <2>1, <2>2, <2>u DEF Goes, Still, Apart, JobInv, Owns, Seen, OwnTemps,
           Swapping, Own, Over, Exists, Home, PastChecks, Kept, AfterSwap, Early
    <2>4. Found(j) /\ Clear(j)
        BY <1>0, <1>a, <1>1, <2>1, <2>2, <2>u DEF Found, Clear, Goes, Still, Apart,
           JobInv, Owns, Seen, OwnTemps, Swapping, Own, Over, Away, Stranded, Exists, Home,
           PastChecks, Kept, AfterSwap, Early
    <2> QED BY <1>a, <2>2, <2>3, <2>4 DEF Good, Touches, Mine
<1>2. CASE UNCHANGED files /\ Throw(j, "failed", "undo")
    <2>1. Goes(j, "undo", "failed")
        BY <1>0, <1>2, <1>p DEF Around, Goes, Throw, Places
    <2>2. Filed' /\ Touches({})
        BY <1>0, <1>2, Leaving
    <2>3. JobInv(j)'
        BY <1>0, <1>a, <1>2, <2>1, <2>2 DEF Goes, Still, Apart, JobInv, Owns, Seen, OwnTemps,
           Swapping, Own, Over, Exists, Home, PastChecks, Kept, AfterSwap, Early
    <2>4. Found(j) /\ Clear(j)
        BY <1>0, <1>a, <1>2, <2>1, <2>2 DEF Found, Clear, Goes, Still, Apart,
           JobInv, Owns, Seen, OwnTemps, Swapping, Own, Over, Away, Stranded, Exists, Home,
           PastChecks, Kept, AfterSwap, Early
    <2> QED BY <1>a, <2>2, <2>3, <2>4 DEF Good, Touches, Mine
<1> QED
    BY <1>1, <1>2 DEF Preserve, Do

\* Only a faithful copy passes the comparison.
LEMMA CompareGood ==
    ASSUME RestoreInv, NEW j \in Applies, Compare(j)
    PROVE  Good(j)
<1>0. Filed /\ Places /\ JobInv(j) /\ pc[j] = "compare"
    BY DEF RestoreInv, TypeOK, Filed, Compare, At
<1>p. Around(j)
    BY AroundHolds
<1>a. Apart /\ Still(j)
    BY <1>0 DEF Compare, Same, Outside, flags, world, Apart, Still
<1>1. CASE UNCHANGED files /\ Goto(j, "keep") /\ files[CopyOf(j)].data = seen[j].data
    <2>1. Goes(j, "keep", result[j])
        BY <1>0, <1>1, <1>p DEF Around, Goes, Goto, Places
    <2>2. Filed' /\ Touches({})
        BY <1>0, <1>1, Leaving
    <2>3. JobInv(j)'
        BY <1>0, <1>a, <1>1, <2>1, <2>2 DEF Goes, Still, Apart, JobInv, Owns, Seen, OwnTemps,
           Swapping, Own, Over, Exists, Home, PastChecks, Kept, AfterSwap, Early
    <2>4. Found(j) /\ Clear(j)
        BY <1>0, <1>a, <1>1, <2>1, <2>2 DEF Found, Clear, Goes, Still, Apart,
           JobInv, Owns, Seen, OwnTemps, Swapping, Own, Over, Away, Stranded, Exists, Home,
           PastChecks, Kept, AfterSwap, Early
    <2> QED BY <1>a, <2>2, <2>3, <2>4 DEF Good, Touches, Mine
<1>2. CASE UNCHANGED files /\ Throw(j, "changed", "undo")
    <2>1. Goes(j, "undo", "changed")
        BY <1>0, <1>2, <1>p DEF Around, Goes, Throw, Places
    <2>2. Filed' /\ Touches({})
        BY <1>0, <1>2, Leaving
    <2>3. JobInv(j)'
        BY <1>0, <1>a, <1>2, <2>1, <2>2 DEF Goes, Still, Apart, JobInv, Owns, Seen, OwnTemps,
           Swapping, Own, Over, Exists, Home, PastChecks, Kept, AfterSwap, Early
    <2>4. Found(j) /\ Clear(j)
        BY <1>0, <1>a, <1>2, <2>1, <2>2 DEF Found, Clear, Goes, Still, Apart,
           JobInv, Owns, Seen, OwnTemps, Swapping, Own, Over, Away, Stranded, Exists, Home,
           PastChecks, Kept, AfterSwap, Early
    <2> QED BY <1>a, <2>2, <2>3, <2>4 DEF Good, Touches, Mine
<1> QED
    BY <1>1, <1>2 DEF Compare, Check

\* Previous is committed, and is the job's own.
LEMMA KeepGood ==
    ASSUME RestoreInv, NEW j \in Applies, Keep(j)
    PROVE  Good(j)
<1>0. Filed /\ Places /\ JobInv(j) /\ pc[j] = "keep"
    BY DEF RestoreInv, TypeOK, Filed, Keep, At
<1>p. Around(j)
    BY AroundHolds
<1>a. Apart
    BY <1>0 DEF Keep, Same, Outside, flags, world, Apart, Still
<1>1. CASE ~Exists(Previous) /\ files' = Linked(CopyOf(j), Previous) /\ Goto(j, "prepare")
    <2>1. Goes(j, "prepare", result[j])
        BY <1>0, <1>1, <1>p DEF Around, Goes, Goto, Places
    <2>2. /\ Filed' /\ Touches({Previous})
          /\ files'[Previous] = files[CopyOf(j)]
          /\ Exists(CopyOf(j)) /\ files[CopyOf(j)].ino = CopyOf(j) /\ files[CopyOf(j)].data = seen[j].data
        BY <1>0, <1>1, Linking, <1>p DEF Around, JobInv, OwnTemps
    <2>u. /\ files'[Current] = files[Current] /\ files'[CopyOf(j)] = files[CopyOf(j)]
          /\ files'[SwapOf(j)] = files[SwapOf(j)] /\ files'[OldOf(j)] = files[OldOf(j)]
          /\ files'[RollbackOf(j)] = files[RollbackOf(j)] /\ files'[RollbackOldOf(j)] = files[RollbackOldOf(j)]
        BY <1>p, <2>2 DEF Touches, Around
    <2>f. seen'[j] = seen[j] /\ j \in made' /\ (j \in swapped' <=> j \in swapped)
        BY <1>0, <1>1, <2>2 DEF Keep, Exists
    <2>3. JobInv(j)'
        BY <1>0, <1>a, <2>f, <1>1, <2>1, <2>2, <2>u DEF Goes, Still, Apart, JobInv, Owns, Seen, OwnTemps,
           Swapping, Own, Over, Exists, Home, PastChecks, Kept, AfterSwap, Early
    <2>4. Found(j) /\ Clear(j)
        BY <1>0, <1>a, <2>f, <1>1, <2>1, <2>2, <2>u DEF Found, Clear, Goes, Still, Apart,
           JobInv, Owns, Seen, OwnTemps, Swapping, Own, Over, Away, Stranded, Exists, Home,
           PastChecks, Kept, AfterSwap, Early
    <2> QED BY <1>a, <2>2, <2>3, <2>4 DEF Good, Touches, Mine
<1>2. CASE UNCHANGED files /\ Throw(j, "failed", "undo")
    <2>1. Goes(j, "undo", "failed")
        BY <1>0, <1>2, <1>p DEF Around, Goes, Throw, Places
    <2>2. Filed' /\ Touches({})
        BY <1>0, <1>2, Leaving
    <2>f. Still(j)
        BY <1>0, <1>2, <2>2 DEF Keep, Still
    <2>3. JobInv(j)'
        BY <1>0, <1>a, <2>f, <1>2, <2>1, <2>2 DEF Goes, Still, Apart, JobInv, Owns, Seen, OwnTemps,
           Swapping, Own, Over, Exists, Home, PastChecks, Kept, AfterSwap, Early
    <2>4. Found(j) /\ Clear(j)
        BY <1>0, <1>a, <2>f, <1>2, <2>1, <2>2 DEF Found, Clear, Goes, Still, Apart,
           JobInv, Owns, Seen, OwnTemps, Swapping, Own, Over, Away, Stranded, Exists, Home,
           PastChecks, Kept, AfterSwap, Early
    <2> QED BY <1>a, <2>2, <2>3, <2>4 DEF Good, Touches, Mine
<1> QED
    BY <1>1, <1>2 DEF Keep, Do

\* The candidate is prepared beside the current file.
LEMMA PrepareGood ==
    ASSUME RestoreInv, NEW j \in Applies, Prepare(j)
    PROVE  Good(j)
<1>0. Filed /\ Places /\ JobInv(j) /\ pc[j] = "prepare"
    BY DEF RestoreInv, TypeOK, Filed, Prepare, At
<1>p. Around(j)
    BY AroundHolds
<1>a. Apart /\ Still(j)
    BY <1>0 DEF Prepare, Same, Outside, flags, world, Apart, Still
<1>1. CASE Exists(Staged) /\ files' = Copied(Staged, SwapOf(j)) /\ Goto(j, "verify")
    <2>1. Goes(j, "verify", result[j])
        BY <1>0, <1>1, <1>p DEF Around, Goes, Goto, Places
    <2>2. Filed' /\ Touches({SwapOf(j)})
        BY <1>0, <1>1, Copying, <1>p DEF Around
    <2>u. /\ files'[Current] = files[Current] /\ files'[Previous] = files[Previous]
          /\ files'[CopyOf(j)] = files[CopyOf(j)] /\ files'[OldOf(j)] = files[OldOf(j)]
          /\ files'[RollbackOf(j)] = files[RollbackOf(j)] /\ files'[RollbackOldOf(j)] = files[RollbackOldOf(j)]
        BY <1>p, <2>2 DEF Touches, Around
    <2>3. JobInv(j)'
        BY <1>0, <1>a, <1>1, <2>1, <2>2, <2>u DEF Goes, Still, Apart, JobInv, Owns, Seen, OwnTemps,
           Swapping, Own, Over, Exists, Home, PastChecks, Kept, AfterSwap, Early
    <2>4. Found(j) /\ Clear(j)
        BY <1>0, <1>a, <1>1, <2>1, <2>2, <2>u DEF Found, Clear, Goes, Still, Apart,
           JobInv, Owns, Seen, OwnTemps, Swapping, Own, Over, Away, Stranded, Exists, Home,
           PastChecks, Kept, AfterSwap, Early
    <2> QED BY <1>a, <2>2, <2>3, <2>4 DEF Good, Touches, Mine
<1>2. CASE UNCHANGED files /\ Throw(j, "changed", "undo")
    <2>1. Goes(j, "undo", "changed")
        BY <1>0, <1>2, <1>p DEF Around, Goes, Throw, Places
    <2>2. Filed' /\ Touches({})
        BY <1>0, <1>2, Leaving
    <2>3. JobInv(j)'
        BY <1>0, <1>a, <1>2, <2>1, <2>2 DEF Goes, Still, Apart, JobInv, Owns, Seen, OwnTemps,
           Swapping, Own, Over, Exists, Home, PastChecks, Kept, AfterSwap, Early
    <2>4. Found(j) /\ Clear(j)
        BY <1>0, <1>a, <1>2, <2>1, <2>2 DEF Found, Clear, Goes, Still, Apart,
           JobInv, Owns, Seen, OwnTemps, Swapping, Own, Over, Away, Stranded, Exists, Home,
           PastChecks, Kept, AfterSwap, Early
    <2> QED BY <1>a, <2>2, <2>3, <2>4 DEF Good, Touches, Mine
<1>3. CASE UNCHANGED files /\ Throw(j, "failed", "undo")
    <2>1. Goes(j, "undo", "failed")
        BY <1>0, <1>3, <1>p DEF Around, Goes, Throw, Places
    <2>2. Filed' /\ Touches({})
        BY <1>0, <1>3, Leaving
    <2>3. JobInv(j)'
        BY <1>0, <1>a, <1>3, <2>1, <2>2 DEF Goes, Still, Apart, JobInv, Owns, Seen, OwnTemps,
           Swapping, Own, Over, Exists, Home, PastChecks, Kept, AfterSwap, Early
    <2>4. Found(j) /\ Clear(j)
        BY <1>0, <1>a, <1>3, <2>1, <2>2 DEF Found, Clear, Goes, Still, Apart,
           JobInv, Owns, Seen, OwnTemps, Swapping, Own, Over, Away, Stranded, Exists, Home,
           PastChecks, Kept, AfterSwap, Early
    <2> QED BY <1>a, <2>2, <2>3, <2>4 DEF Good, Touches, Mine
<1> QED
    BY <1>1, <1>2, <1>3 DEF Prepare, Do

\* After the last check current is the latest data, and the remembered one.
LEMMA VerifyGood ==
    ASSUME RestoreInv, NEW j \in Applies, Verify(j)
    PROVE  Good(j)
<1>0. Filed /\ Places /\ JobInv(j) /\ pc[j] = "verify"
    BY DEF RestoreInv, TypeOK, Filed, Verify, At
<1>p. Around(j)
    BY AroundHolds
<1>a. Apart /\ Still(j)
    BY <1>0 DEF Verify, Same, Outside, flags, world, Apart, Still
<1>1. CASE UNCHANGED files /\ Goto(j, "swap") /\ Exists(Current) /\ files[Current] = seen[j]
    <2>1. Goes(j, "swap", result[j])
        BY <1>0, <1>1, <1>p DEF Around, Goes, Goto, Places
    <2>2. Filed' /\ Touches({})
        BY <1>0, <1>1, Leaving
    <2>p. raced \/ Home
        BY <1>0, <1>1, HomeAgain DEF JobInv, Owns, Kept, Away
    <2>3. JobInv(j)'
        BY <1>0, <1>a, <1>1, <2>1, <2>2, <2>p DEF Goes, Still, Apart, JobInv, Owns, Seen, OwnTemps,
           Swapping, Own, Over, Exists, Home, PastChecks, Kept, AfterSwap, Early
    <2>4. Found(j) /\ Clear(j)
        BY <1>0, <1>a, <1>1, <2>1, <2>2, <2>p DEF Found, Clear, Goes, Still, Apart,
           JobInv, Owns, Seen, OwnTemps, Swapping, Own, Over, Away, Stranded, Exists, Home,
           PastChecks, Kept, AfterSwap, Early
    <2> QED BY <1>a, <2>2, <2>3, <2>4 DEF Good, Touches, Mine
<1>2. CASE UNCHANGED files /\ Throw(j, "failed", "undo")
    <2>1. Goes(j, "undo", "failed")
        BY <1>0, <1>2, <1>p DEF Around, Goes, Throw, Places
    <2>2. Filed' /\ Touches({})
        BY <1>0, <1>2, Leaving
    <2>3. JobInv(j)'
        BY <1>0, <1>a, <1>2, <2>1, <2>2 DEF Goes, Still, Apart, JobInv, Owns, Seen, OwnTemps,
           Swapping, Own, Over, Exists, Home, PastChecks, Kept, AfterSwap, Early
    <2>4. Found(j) /\ Clear(j)
        BY <1>0, <1>a, <1>2, <2>1, <2>2 DEF Found, Clear, Goes, Still, Apart,
           JobInv, Owns, Seen, OwnTemps, Swapping, Own, Over, Away, Stranded, Exists, Home,
           PastChecks, Kept, AfterSwap, Early
    <2> QED BY <1>a, <2>2, <2>3, <2>4 DEF Good, Touches, Mine
<1> QED
    BY <1>1, <1>2 DEF Verify, Check, Preflight, Unchanged

\* The candidate takes the place of the current file.
LEMMA SwapGood ==
    ASSUME RestoreInv, NEW j \in Applies, Swap(j)
    PROVE  Good(j)
<1>0. Filed /\ Places /\ JobInv(j) /\ pc[j] = "swap"
    BY DEF RestoreInv, TypeOK, Filed, Swap, At
<1>p. Around(j)
    BY AroundHolds
<1>a. Apart
    BY <1>0 DEF Swap, Same, Outside, flags, world, Apart, Still
<1>1. CASE Exists(SwapOf(j)) /\ files' = Moved(SwapOf(j), Current) /\ Goto(j, "swapped")
    <2>1. Goes(j, "swapped", result[j])
        BY <1>0, <1>1, <1>p DEF Around, Goes, Goto, Places
    <2>2. /\ Filed' /\ Touches({SwapOf(j), Current})
          /\ files'[Current] = files[SwapOf(j)] /\ files'[SwapOf(j)] = None
        BY <1>0, <1>1, Moving, <1>p DEF Around
    <2>u. /\ files'[Previous] = files[Previous] /\ files'[CopyOf(j)] = files[CopyOf(j)]
          /\ files'[OldOf(j)] = files[OldOf(j)] /\ files'[RollbackOf(j)] = files[RollbackOf(j)]
          /\ files'[RollbackOldOf(j)] = files[RollbackOldOf(j)]
        BY <1>p, <2>2 DEF Touches, Around
    <2>f. seen'[j] = seen[j] /\ (j \in made' <=> j \in made) /\ j \in swapped'
        BY <1>0, <1>1, <2>2 DEF Swap, Exists
    <2>3. JobInv(j)'
        BY <1>0, <1>a, <2>f, <1>1, <2>1, <2>2, <2>u DEF Goes, Still, Apart, JobInv, Owns, Seen, OwnTemps,
           Swapping, Own, Over, Exists, Home, PastChecks, Kept, AfterSwap, Early
    <2>4. Found(j) /\ Clear(j)
        BY <1>0, <1>a, <2>f, <1>1, <2>1, <2>2, <2>u DEF Found, Clear, Goes, Still, Apart,
           JobInv, Owns, Seen, OwnTemps, Swapping, Own, Over, Away, Stranded, Exists, Home,
           PastChecks, Kept, AfterSwap, Early
    <2> QED BY <1>a, <2>2, <2>3, <2>4 DEF Good, Touches, Mine
<1>2. CASE UNCHANGED files /\ Goto(j, "aside")
    <2>1. Goes(j, "aside", result[j])
        BY <1>0, <1>2, <1>p DEF Around, Goes, Goto, Places
    <2>2. Filed' /\ Touches({})
        BY <1>0, <1>2, Leaving
    <2>f. Still(j)
        BY <1>0, <1>2, <2>2 DEF Swap, Still
    <2>3. JobInv(j)'
        BY <1>0, <1>a, <2>f, <1>2, <2>1, <2>2 DEF Goes, Still, Apart, JobInv, Owns, Seen, OwnTemps,
           Swapping, Own, Over, Exists, Home, PastChecks, Kept, AfterSwap, Early
    <2>4. Found(j) /\ Clear(j)
        BY <1>0, <1>a, <2>f, <1>2, <2>1, <2>2 DEF Found, Clear, Goes, Still, Apart,
           JobInv, Owns, Seen, OwnTemps, Swapping, Own, Over, Away, Stranded, Exists, Home,
           PastChecks, Kept, AfterSwap, Early
    <2> QED BY <1>a, <2>2, <2>3, <2>4 DEF Good, Touches, Mine
<1>3. CASE UNCHANGED files /\ Throw(j, "failed", "undo")
    <2>1. Goes(j, "undo", "failed")
        BY <1>0, <1>3, <1>p DEF Around, Goes, Throw, Places
    <2>2. Filed' /\ Touches({})
        BY <1>0, <1>3, Leaving
    <2>f. Still(j)
        BY <1>0, <1>3, <2>2 DEF Swap, Still
    <2>3. JobInv(j)'
        BY <1>0, <1>a, <2>f, <1>3, <2>1, <2>2 DEF Goes, Still, Apart, JobInv, Owns, Seen, OwnTemps,
           Swapping, Own, Over, Exists, Home, PastChecks, Kept, AfterSwap, Early
    <2>4. Found(j) /\ Clear(j)
        BY <1>0, <1>a, <2>f, <1>3, <2>1, <2>2 DEF Found, Clear, Goes, Still, Apart,
           JobInv, Owns, Seen, OwnTemps, Swapping, Own, Over, Away, Stranded, Exists, Home,
           PastChecks, Kept, AfterSwap, Early
    <2> QED BY <1>a, <2>2, <2>3, <2>4 DEF Good, Touches, Mine
<1> QED
    BY <1>1, <1>2, <1>3 DEF Swap, Replace

\* The current file steps aside.
LEMMA AsideGood ==
    ASSUME RestoreInv, NEW j \in Applies, Aside(j)
    PROVE  Good(j)
<1>0. Filed /\ Places /\ JobInv(j) /\ pc[j] = "aside"
    BY DEF RestoreInv, TypeOK, Filed, Aside, At
<1>p. Around(j)
    BY AroundHolds
<1>a. Apart /\ Still(j)
    BY <1>0 DEF Aside, Same, Outside, flags, world, Apart, Still
<1>1. CASE files' = Moved(Current, OldOf(j)) /\ Goto(j, "install")
    <2>1. Goes(j, "install", result[j])
        BY <1>0, <1>1, <1>p DEF Around, Goes, Goto, Places
    <2>2. /\ Filed' /\ Touches({Current, OldOf(j)})
          /\ files'[OldOf(j)] = files[Current] /\ files'[Current] = None
        BY <1>0, <1>1, Moving, <1>p DEF Around
    <2>u. /\ files'[Previous] = files[Previous] /\ files'[CopyOf(j)] = files[CopyOf(j)]
          /\ files'[SwapOf(j)] = files[SwapOf(j)] /\ files'[RollbackOf(j)] = files[RollbackOf(j)]
          /\ files'[RollbackOldOf(j)] = files[RollbackOldOf(j)]
        BY <1>p, <2>2 DEF Touches, Around
    <2>3. JobInv(j)'
        BY <1>0, <1>a, <1>1, <2>1, <2>2, <2>u DEF Goes, Still, Apart, JobInv, Owns, Seen, OwnTemps,
           Swapping, Own, Over, Exists, Home, PastChecks, Kept, AfterSwap, Early
    <2>4. Found(j) /\ Clear(j)
        BY <1>0, <1>a, <1>1, <2>1, <2>2, <2>u DEF Found, Clear, Goes, Still, Apart,
           JobInv, Owns, Seen, OwnTemps, Swapping, Own, Over, Away, Stranded, Exists, Home,
           PastChecks, Kept, AfterSwap, Early
    <2> QED BY <1>a, <2>2, <2>3, <2>4 DEF Good, Touches, Mine
<1>2. CASE UNCHANGED files /\ Throw(j, "failed", "undo")
    <2>1. Goes(j, "undo", "failed")
        BY <1>0, <1>2, <1>p DEF Around, Goes, Throw, Places
    <2>2. Filed' /\ Touches({})
        BY <1>0, <1>2, Leaving
    <2>3. JobInv(j)'
        BY <1>0, <1>a, <1>2, <2>1, <2>2 DEF Goes, Still, Apart, JobInv, Owns, Seen, OwnTemps,
           Swapping, Own, Over, Exists, Home, PastChecks, Kept, AfterSwap, Early
    <2>4. Found(j) /\ Clear(j)
        BY <1>0, <1>a, <1>2, <2>1, <2>2 DEF Found, Clear, Goes, Still, Apart,
           JobInv, Owns, Seen, OwnTemps, Swapping, Own, Over, Away, Stranded, Exists, Home,
           PastChecks, Kept, AfterSwap, Early
    <2> QED BY <1>a, <2>2, <2>3, <2>4 DEF Good, Touches, Mine
<1> QED
    BY <1>1, <1>2 DEF Aside, Do

\* The candidate goes where the current file was.
LEMMA InstallGood ==
    ASSUME RestoreInv, NEW j \in Applies, Install(j)
    PROVE  Good(j)
<1>0. Filed /\ Places /\ JobInv(j) /\ pc[j] = "install"
    BY DEF RestoreInv, TypeOK, Filed, Install, At
<1>p. Around(j)
    BY AroundHolds
<1>a. Apart /\ Still(j)
    BY <1>0 DEF Install, Same, Outside, flags, world, Apart, Still
<1>1. CASE files' = Moved(SwapOf(j), Current) /\ Goto(j, "drop")
    <2>1. Goes(j, "drop", result[j])
        BY <1>0, <1>1, <1>p DEF Around, Goes, Goto, Places
    <2>2. /\ Filed' /\ Touches({SwapOf(j), Current})
          /\ files'[Current] = files[SwapOf(j)] /\ files'[SwapOf(j)] = None
        BY <1>0, <1>1, Moving, <1>p DEF Around
    <2>u. /\ files'[Previous] = files[Previous] /\ files'[CopyOf(j)] = files[CopyOf(j)]
          /\ files'[OldOf(j)] = files[OldOf(j)] /\ files'[RollbackOf(j)] = files[RollbackOf(j)]
          /\ files'[RollbackOldOf(j)] = files[RollbackOldOf(j)]
        BY <1>p, <2>2 DEF Touches, Around
    <2>3. JobInv(j)'
        BY <1>0, <1>a, <1>1, <2>1, <2>2, <2>u DEF Goes, Still, Apart, JobInv, Owns, Seen, OwnTemps,
           Swapping, Own, Over, Exists, Home, PastChecks, Kept, AfterSwap, Early
    <2>4. Found(j) /\ Clear(j)
        BY <1>0, <1>a, <1>1, <2>1, <2>2, <2>u DEF Found, Clear, Goes, Still, Apart,
           JobInv, Owns, Seen, OwnTemps, Swapping, Own, Over, Away, Stranded, Exists, Home,
           PastChecks, Kept, AfterSwap, Early
    <2> QED BY <1>a, <2>2, <2>3, <2>4 DEF Good, Touches, Mine
<1>2. CASE UNCHANGED files /\ Throw(j, "failed", "back")
    <2>1. Goes(j, "back", "failed")
        BY <1>0, <1>2, <1>p DEF Around, Goes, Throw, Places
    <2>2. Filed' /\ Touches({})
        BY <1>0, <1>2, Leaving
    <2>3. JobInv(j)'
        BY <1>0, <1>a, <1>2, <2>1, <2>2 DEF Goes, Still, Apart, JobInv, Owns, Seen, OwnTemps,
           Swapping, Own, Over, Exists, Home, PastChecks, Kept, AfterSwap, Early
    <2>4. Found(j) /\ Clear(j)
        BY <1>0, <1>a, <1>2, <2>1, <2>2 DEF Found, Clear, Goes, Still, Apart,
           JobInv, Owns, Seen, OwnTemps, Swapping, Own, Over, Away, Stranded, Exists, Home,
           PastChecks, Kept, AfterSwap, Early
    <2> QED BY <1>a, <2>2, <2>3, <2>4 DEF Good, Touches, Mine
<1> QED
    BY <1>1, <1>2 DEF Install, Do

\* The current file comes back, or is stranded aside.
LEMMA BackGood ==
    ASSUME RestoreInv, NEW j \in Applies, Back(j)
    PROVE  Good(j)
<1>0. Filed /\ Places /\ JobInv(j) /\ pc[j] = "back"
    BY DEF RestoreInv, TypeOK, Filed, Back, At
<1>p. Around(j)
    BY AroundHolds
<1>a. Apart /\ Still(j)
    BY <1>0 DEF Back, Same, Outside, flags, world, Apart, Still
<1>1. CASE files' = Moved(OldOf(j), Current) /\ Goto(j, "undo")
    <2>1. Goes(j, "undo", result[j])
        BY <1>0, <1>1, <1>p DEF Around, Goes, Goto, Places
    <2>2. /\ Filed' /\ Touches({OldOf(j), Current})
          /\ files'[Current] = files[OldOf(j)] /\ files'[OldOf(j)] = None
        BY <1>0, <1>1, Moving, <1>p DEF Around
    <2>u. /\ files'[Previous] = files[Previous] /\ files'[CopyOf(j)] = files[CopyOf(j)]
          /\ files'[SwapOf(j)] = files[SwapOf(j)] /\ files'[RollbackOf(j)] = files[RollbackOf(j)]
          /\ files'[RollbackOldOf(j)] = files[RollbackOldOf(j)]
        BY <1>p, <2>2 DEF Touches, Around
    <2>3. JobInv(j)'
        BY <1>0, <1>a, <1>1, <2>1, <2>2, <2>u DEF Goes, Still, Apart, JobInv, Owns, Seen, OwnTemps,
           Swapping, Own, Over, Exists, Home, PastChecks, Kept, AfterSwap, Early
    <2>4. Found(j) /\ Clear(j)
        BY <1>0, <1>a, <1>1, <2>1, <2>2, <2>u DEF Found, Clear, Goes, Still, Apart,
           JobInv, Owns, Seen, OwnTemps, Swapping, Own, Over, Away, Stranded, Exists, Home,
           PastChecks, Kept, AfterSwap, Early
    <2> QED BY <1>a, <2>2, <2>3, <2>4 DEF Good, Touches, Mine
<1>2. CASE UNCHANGED files /\ Throw(j, "stranded", "undo")
    <2>1. Goes(j, "undo", "stranded")
        BY <1>0, <1>2, <1>p DEF Around, Goes, Throw, Places
    <2>2. Filed' /\ Touches({})
        BY <1>0, <1>2, Leaving
    <2>3. JobInv(j)'
        BY <1>0, <1>a, <1>2, <2>1, <2>2 DEF Goes, Still, Apart, JobInv, Owns, Seen, OwnTemps,
           Swapping, Own, Over, Exists, Home, PastChecks, Kept, AfterSwap, Early
    <2>4. Found(j) /\ Clear(j)
        BY <1>0, <1>a, <1>2, <2>1, <2>2 DEF Found, Clear, Goes, Still, Apart,
           JobInv, Owns, Seen, OwnTemps, Swapping, Own, Over, Away, Stranded, Exists, Home,
           PastChecks, Kept, AfterSwap, Early
    <2> QED BY <1>a, <2>2, <2>3, <2>4 DEF Good, Touches, Mine
<1> QED
    BY <1>1, <1>2 DEF Back

\* What lay aside goes: the swap is committed.
LEMMA DropGood ==
    ASSUME RestoreInv, NEW j \in Applies, Drop(j)
    PROVE  Good(j)
<1>0. Filed /\ Places /\ JobInv(j) /\ pc[j] = "drop" /\ litter \subseteq Paths
    BY DEF RestoreInv, TypeOK, Filed, Drop, At
<1>p. Around(j)
    BY AroundHolds
<1>1. /\ Filed' /\ Touches({OldOf(j)}) /\ Removed(OldOf(j))
      /\ litter \subseteq litter'
    BY <1>0, <1>p, Removing DEF Drop, Around
<1>2. Goes(j, "swapped", result[j])
    BY <1>0, <1>p DEF Around, Goes, Goto, Places, Drop
<1>3. seen'[j] = seen[j] /\ (j \in made' <=> j \in made) /\ j \in swapped'
    BY DEF Drop
<1>4. Apart
    BY <1>1 DEF Drop, world, Apart
<1>5. /\ files'[Current] = files[Current] /\ files'[Previous] = files[Previous]
      /\ files'[CopyOf(j)] = files[CopyOf(j)] /\ files'[SwapOf(j)] = files[SwapOf(j)]
      /\ files'[RollbackOf(j)] = files[RollbackOf(j)] /\ files'[RollbackOldOf(j)] = files[RollbackOldOf(j)]
    BY <1>p, <1>1 DEF Touches, Around
<1>6. JobInv(j)'
    BY <1>0, <1>1, <1>2, <1>3, <1>4, <1>5 DEF Goes, Apart, JobInv, Owns, Seen, OwnTemps,
       Swapping, Own, Over, Exists, Home, PastChecks, Kept, AfterSwap, Early, Removed
<1>7. Found(j) /\ Clear(j)
    BY <1>0, <1>2, <1>3, <1>4, <1>5 DEF Found, Clear, Goes, Apart, JobInv, Owns, Seen, Own, Over,
       Over, Away, Stranded, Exists, Home, PastChecks, Kept, AfterSwap
<1> QED BY <1>1, <1>4, <1>6, <1>7 DEF Good, Touches, Mine

\* A restore is applied only with the manifest's data in place.
LEMMA AppliedGood ==
    ASSUME RestoreInv, NEW j \in Applies, Applied(j)
    PROVE  Good(j)
<1>0. Filed /\ Places /\ JobInv(j) /\ pc[j] = "swapped"
    BY DEF RestoreInv, TypeOK, Filed, Applied, At
<1>p. Around(j)
    BY AroundHolds
<1>a. Apart /\ Still(j)
    BY <1>0 DEF Applied, Same, Outside, flags, world, Apart, Still
<1>1. CASE UNCHANGED files /\ Throw(j, "applied", "finally") /\ Exists(Current) /\ files[Current].data = manifest
    <2>1. Goes(j, "finally", "applied")
        BY <1>0, <1>1, <1>p DEF Around, Goes, Throw, Places
    <2>2. Filed' /\ Touches({})
        BY <1>0, <1>1, Leaving
    <2>3. JobInv(j)'
        BY <1>0, <1>a, <1>1, <2>1, <2>2 DEF Goes, Still, Apart, JobInv, Owns, Seen, OwnTemps,
           Swapping, Own, Over, Exists, Home, PastChecks, Kept, AfterSwap, Early
    <2>4. Found(j) /\ Clear(j)
        BY <1>0, <1>a, <1>1, <2>1, <2>2 DEF Found, Clear, Goes, Still, Apart,
           JobInv, Owns, Seen, OwnTemps, Swapping, Own, Over, Away, Stranded, Exists, Home,
           PastChecks, Kept, AfterSwap, Early
    <2> QED BY <1>a, <2>2, <2>3, <2>4 DEF Good, Touches, Mine
<1>2. CASE UNCHANGED files /\ Throw(j, "failed", "undo")
    <2>1. Goes(j, "undo", "failed")
        BY <1>0, <1>2, <1>p DEF Around, Goes, Throw, Places
    <2>2. Filed' /\ Touches({})
        BY <1>0, <1>2, Leaving
    <2>3. JobInv(j)'
        BY <1>0, <1>a, <1>2, <2>1, <2>2 DEF Goes, Still, Apart, JobInv, Owns, Seen, OwnTemps,
           Swapping, Own, Over, Exists, Home, PastChecks, Kept, AfterSwap, Early
    <2>4. Found(j) /\ Clear(j)
        BY <1>0, <1>a, <1>2, <2>1, <2>2 DEF Found, Clear, Goes, Still, Apart,
           JobInv, Owns, Seen, OwnTemps, Swapping, Own, Over, Away, Stranded, Exists, Home,
           PastChecks, Kept, AfterSwap, Early
    <2> QED BY <1>a, <2>2, <2>3, <2>4 DEF Good, Touches, Mine
<1> QED
    BY <1>1, <1>2 DEF Applied

\* A job that has not swapped takes its previous away.
LEMMA UndoGood ==
    ASSUME RestoreInv, NEW j \in Applies, Undo(j)
    PROVE  Good(j)
<1>0. Filed /\ Places /\ JobInv(j) /\ pc[j] = "undo" /\ litter \subseteq Paths
    BY DEF RestoreInv, TypeOK, Filed, Undo, At
<1>p. Around(j)
    BY AroundHolds
<1>l. litter \subseteq litter'
    <2>1. (IF j \in made THEN {Previous} ELSE {}) \in SUBSET Paths
        BY <1>p DEF Around
    <2> QED BY <1>0, <2>1, Removing DEF Undo
<1>a. Apart /\ Still(j)
    BY <1>0, <1>l DEF Undo, Outside, flags, world, Apart, Still
<1>1. CASE UNCHANGED files /\ j \in swapped /\ Goto(j, "rollback")
    <2>1. Goes(j, "rollback", result[j])
        BY <1>0, <1>1, <1>p DEF Around, Goes, Goto, Places
    <2>2. Filed' /\ Touches({})
        BY <1>0, <1>1, Leaving
    <2>3. JobInv(j)'
        BY <1>0, <1>a, <1>1, <2>1, <2>2 DEF Goes, Still, Apart, JobInv, Owns, Seen, OwnTemps,
           Swapping, Own, Over, Exists, Home, PastChecks, Kept, AfterSwap, Early
    <2>4. Found(j) /\ Clear(j)
        BY <1>0, <1>a, <1>1, <2>1, <2>2 DEF Found, Clear, Goes, Still, Apart,
           JobInv, Owns, Seen, OwnTemps, Swapping, Own, Over, Away, Stranded, Exists, Home,
           PastChecks, Kept, AfterSwap, Early
    <2> QED BY <1>a, <2>2, <2>3, <2>4 DEF Good, Touches, Mine
<1>2. CASE j \notin swapped /\ j \in made /\ Remove({Previous}) /\ Goto(j, "finally")
    <2>1. Goes(j, "finally", result[j])
        BY <1>0, <1>2, <1>p DEF Around, Goes, Goto, Places
    <2>2. Filed' /\ Touches({Previous}) /\ Removed(Previous)
        BY <1>0, <1>2, Removing, <1>p DEF Around
    <2>u. /\ files'[Current] = files[Current] /\ files'[CopyOf(j)] = files[CopyOf(j)]
          /\ files'[SwapOf(j)] = files[SwapOf(j)] /\ files'[OldOf(j)] = files[OldOf(j)]
          /\ files'[RollbackOf(j)] = files[RollbackOf(j)] /\ files'[RollbackOldOf(j)] = files[RollbackOldOf(j)]
        BY <1>p, <2>2 DEF Touches, Around
    <2>3. JobInv(j)'
        BY <1>0, <1>a, <1>2, <2>1, <2>2, <2>u DEF Goes, Still, Apart, JobInv, Owns, Seen, OwnTemps,
           Swapping, Own, Over, Exists, Home, PastChecks, Kept, AfterSwap, Early, Removed
    <2>4. Found(j) /\ Clear(j)
        BY <1>0, <1>a, <1>2, <2>1, <2>2, <2>u DEF Found, Clear, Goes, Still, Apart,
           JobInv, Owns, Own, Over, Away, Stranded, Exists, Home, Removed
    <2> QED BY <1>a, <2>2, <2>3, <2>4 DEF Good, Touches, Mine
<1>3. CASE j \notin swapped /\ j \notin made /\ Remove({}) /\ Goto(j, "finally")
    <2>1. Goes(j, "finally", result[j])
        BY <1>0, <1>3, <1>p DEF Around, Goes, Goto, Places
    <2>2. Filed' /\ Touches({})
        BY <1>0, <1>3, Removing
    <2>u. \A p \in Paths : files'[p] = files[p]
        BY <2>2 DEF Touches
    <2>3. JobInv(j)'
        BY <1>0, <1>a, <1>3, <1>p, <2>1, <2>2, <2>u DEF Around, Goes, Still, Apart, JobInv, Owns, Seen, OwnTemps,
           Swapping, Own, Over, Exists, Home, PastChecks, Kept, AfterSwap, Early
    <2>4. Found(j) /\ Clear(j)
        BY <1>0, <1>a, <1>3, <1>p, <2>1, <2>2, <2>u DEF Around, Found, Clear, Goes, Still, Apart,
           JobInv, Owns, Seen, OwnTemps, Swapping, Own, Over, Away, Stranded, Exists, Home,
           PastChecks, Kept, AfterSwap, Early
    <2> QED BY <1>a, <2>2, <2>3, <2>4 DEF Good, Touches, Mine
<1> QED
    BY <1>1, <1>2, <1>3 DEF Undo

\* What goes back is a copy of previous.
LEMMA RollbackGood ==
    ASSUME RestoreInv, NEW j \in Applies, Rollback(j)
    PROVE  Good(j)
<1>0. Filed /\ Places /\ JobInv(j) /\ pc[j] = "rollback"
    BY DEF RestoreInv, TypeOK, Filed, Rollback, At
<1>p. Around(j)
    BY AroundHolds
<1>a. Apart /\ Still(j)
    BY <1>0 DEF Rollback, Same, Outside, flags, world, Apart, Still
<1>1. CASE Exists(Previous) /\ files' = Copied(Previous, RollbackOf(j)) /\ Goto(j, "return")
    <2>1. Goes(j, "return", result[j])
        BY <1>0, <1>1, <1>p DEF Around, Goes, Goto, Places
    <2>2. /\ Filed' /\ Touches({RollbackOf(j)})
          /\ Exists(RollbackOf(j))' /\ files'[RollbackOf(j)].data = files[Previous].data
        BY <1>0, <1>1, Copying, <1>p DEF Around
    <2>u. /\ files'[Current] = files[Current] /\ files'[Previous] = files[Previous]
          /\ files'[CopyOf(j)] = files[CopyOf(j)] /\ files'[SwapOf(j)] = files[SwapOf(j)]
          /\ files'[OldOf(j)] = files[OldOf(j)] /\ files'[RollbackOldOf(j)] = files[RollbackOldOf(j)]
        BY <1>p, <2>2 DEF Touches, Around
    <2>3. JobInv(j)'
        BY <1>0, <1>a, <1>1, <2>1, <2>2, <2>u DEF Goes, Still, Apart, JobInv, Owns, Seen, OwnTemps,
           Swapping, Own, Over, Exists, Home, PastChecks, Kept, AfterSwap, Early
    <2>4. Found(j) /\ Clear(j)
        BY <1>0, <1>a, <1>1, <2>1, <2>2, <2>u DEF Found, Clear, Goes, Still, Apart,
           JobInv, Owns, Seen, OwnTemps, Swapping, Own, Over, Away, Stranded, Exists, Home,
           PastChecks, Kept, AfterSwap, Early
    <2> QED BY <1>a, <2>2, <2>3, <2>4 DEF Good, Touches, Mine
<1>2. CASE UNCHANGED files /\ Throw(j, "manual", "finally")
    <2>1. Goes(j, "finally", "manual")
        BY <1>0, <1>2, <1>p DEF Around, Goes, Throw, Places
    <2>2. Filed' /\ Touches({})
        BY <1>0, <1>2, Leaving
    <2>3. JobInv(j)'
        BY <1>0, <1>a, <1>2, <2>1, <2>2 DEF Goes, Still, Apart, JobInv, Owns, Seen, OwnTemps,
           Swapping, Own, Over, Exists, Home, PastChecks, Kept, AfterSwap, Early
    <2>4. Found(j) /\ Clear(j)
        BY <1>0, <1>a, <1>2, <2>1, <2>2 DEF Found, Clear, Goes, Still, Apart,
           JobInv, Owns, Seen, OwnTemps, Swapping, Own, Over, Away, Stranded, Exists, Home,
           PastChecks, Kept, AfterSwap, Early
    <2> QED BY <1>a, <2>2, <2>3, <2>4 DEF Good, Touches, Mine
<1> QED
    BY <1>1, <1>2 DEF Rollback, Do

\* The copy of previous becomes current again.
LEMMA ReturnGood ==
    ASSUME RestoreInv, NEW j \in Applies, Return(j)
    PROVE  Good(j)
<1>0. Filed /\ Places /\ JobInv(j) /\ pc[j] = "return"
    BY DEF RestoreInv, TypeOK, Filed, Return, At
<1>p. Around(j)
    BY AroundHolds
<1>a. Apart /\ Still(j)
    BY <1>0 DEF Return, Same, Outside, flags, world, Apart, Still
<1>1. CASE files' = Moved(RollbackOf(j), Current) /\ Goto(j, "forget")
    <2>1. Goes(j, "forget", result[j])
        BY <1>0, <1>1, <1>p DEF Around, Goes, Goto, Places
    <2>2. /\ Filed' /\ Touches({RollbackOf(j), Current})
          /\ files'[Current] = files[RollbackOf(j)] /\ files'[RollbackOf(j)] = None
        BY <1>0, <1>1, Moving, <1>p DEF Around
    <2>u. /\ files'[Previous] = files[Previous] /\ files'[CopyOf(j)] = files[CopyOf(j)]
          /\ files'[SwapOf(j)] = files[SwapOf(j)] /\ files'[OldOf(j)] = files[OldOf(j)]
          /\ files'[RollbackOldOf(j)] = files[RollbackOldOf(j)]
        BY <1>p, <2>2 DEF Touches, Around
    <2>3. JobInv(j)'
        BY <1>0, <1>a, <1>1, <2>1, <2>2, <2>u DEF Goes, Still, Apart, JobInv, Owns, Seen, OwnTemps,
           Swapping, Own, Over, Exists, Home, PastChecks, Kept, AfterSwap, Early
    <2>4. Found(j) /\ Clear(j)
        BY <1>0, <1>a, <1>1, <2>1, <2>2, <2>u DEF Found, Clear, Goes, Still, Apart,
           JobInv, Owns, Seen, OwnTemps, Swapping, Own, Over, Away, Stranded, Exists, Home,
           PastChecks, Kept, AfterSwap, Early
    <2> QED BY <1>a, <2>2, <2>3, <2>4 DEF Good, Touches, Mine
<1>2. CASE UNCHANGED files /\ Goto(j, "return-aside")
    <2>1. Goes(j, "return-aside", result[j])
        BY <1>0, <1>2, <1>p DEF Around, Goes, Goto, Places
    <2>2. Filed' /\ Touches({})
        BY <1>0, <1>2, Leaving
    <2>3. JobInv(j)'
        BY <1>0, <1>a, <1>2, <2>1, <2>2 DEF Goes, Still, Apart, JobInv, Owns, Seen, OwnTemps,
           Swapping, Own, Over, Exists, Home, PastChecks, Kept, AfterSwap, Early
    <2>4. Found(j) /\ Clear(j)
        BY <1>0, <1>a, <1>2, <2>1, <2>2 DEF Found, Clear, Goes, Still, Apart,
           JobInv, Owns, Seen, OwnTemps, Swapping, Own, Over, Away, Stranded, Exists, Home,
           PastChecks, Kept, AfterSwap, Early
    <2> QED BY <1>a, <2>2, <2>3, <2>4 DEF Good, Touches, Mine
<1>3. CASE UNCHANGED files /\ Throw(j, "failed", "manual")
    <2>1. Goes(j, "manual", "failed")
        BY <1>0, <1>3, <1>p DEF Around, Goes, Throw, Places
    <2>2. Filed' /\ Touches({})
        BY <1>0, <1>3, Leaving
    <2>3. JobInv(j)'
        BY <1>0, <1>a, <1>3, <2>1, <2>2 DEF Goes, Still, Apart, JobInv, Owns, Seen, OwnTemps,
           Swapping, Own, Over, Exists, Home, PastChecks, Kept, AfterSwap, Early
    <2>4. Found(j) /\ Clear(j)
        BY <1>0, <1>a, <1>3, <2>1, <2>2 DEF Found, Clear, Goes, Still, Apart,
           JobInv, Owns, Seen, OwnTemps, Swapping, Own, Over, Away, Stranded, Exists, Home,
           PastChecks, Kept, AfterSwap, Early
    <2> QED BY <1>a, <2>2, <2>3, <2>4 DEF Good, Touches, Mine
<1> QED
    BY <1>1, <1>2, <1>3 DEF Return, Replace

\* The failed database steps aside.
LEMMA ReturnAsideGood ==
    ASSUME RestoreInv, NEW j \in Applies, ReturnAside(j)
    PROVE  Good(j)
<1>0. Filed /\ Places /\ JobInv(j) /\ pc[j] = "return-aside"
    BY DEF RestoreInv, TypeOK, Filed, ReturnAside, At
<1>p. Around(j)
    BY AroundHolds
<1>a. Apart /\ Still(j)
    BY <1>0 DEF ReturnAside, Same, Outside, flags, world, Apart, Still
<1>1. CASE files' = Moved(Current, RollbackOldOf(j)) /\ Goto(j, "return-install")
    <2>1. Goes(j, "return-install", result[j])
        BY <1>0, <1>1, <1>p DEF Around, Goes, Goto, Places
    <2>2. /\ Filed' /\ Touches({Current, RollbackOldOf(j)})
          /\ files'[RollbackOldOf(j)] = files[Current] /\ files'[Current] = None
        BY <1>0, <1>1, Moving, <1>p DEF Around
    <2>u. /\ files'[Previous] = files[Previous] /\ files'[CopyOf(j)] = files[CopyOf(j)]
          /\ files'[SwapOf(j)] = files[SwapOf(j)] /\ files'[OldOf(j)] = files[OldOf(j)]
          /\ files'[RollbackOf(j)] = files[RollbackOf(j)]
        BY <1>p, <2>2 DEF Touches, Around
    <2>3. JobInv(j)'
        BY <1>0, <1>a, <1>1, <2>1, <2>2, <2>u DEF Goes, Still, Apart, JobInv, Owns, Seen, OwnTemps,
           Swapping, Own, Over, Exists, Home, PastChecks, Kept, AfterSwap, Early
    <2>4. Found(j) /\ Clear(j)
        BY <1>0, <1>a, <1>1, <2>1, <2>2, <2>u DEF Found, Clear, Goes, Still, Apart,
           JobInv, Owns, Seen, OwnTemps, Swapping, Own, Over, Away, Stranded, Exists, Home,
           PastChecks, Kept, AfterSwap, Early
    <2> QED BY <1>a, <2>2, <2>3, <2>4 DEF Good, Touches, Mine
<1>2. CASE UNCHANGED files /\ Throw(j, "manual", "manual")
    <2>1. Goes(j, "manual", "manual")
        BY <1>0, <1>2, <1>p DEF Around, Goes, Throw, Places
    <2>2. Filed' /\ Touches({})
        BY <1>0, <1>2, Leaving
    <2>3. JobInv(j)'
        BY <1>0, <1>a, <1>2, <2>1, <2>2 DEF Goes, Still, Apart, JobInv, Owns, Seen, OwnTemps,
           Swapping, Own, Over, Exists, Home, PastChecks, Kept, AfterSwap, Early
    <2>4. Found(j) /\ Clear(j)
        BY <1>0, <1>a, <1>2, <2>1, <2>2 DEF Found, Clear, Goes, Still, Apart,
           JobInv, Owns, Seen, OwnTemps, Swapping, Own, Over, Away, Stranded, Exists, Home,
           PastChecks, Kept, AfterSwap, Early
    <2> QED BY <1>a, <2>2, <2>3, <2>4 DEF Good, Touches, Mine
<1> QED
    BY <1>1, <1>2 DEF ReturnAside, Do

\* The copy of previous goes where the failed database was.
LEMMA ReturnInstallGood ==
    ASSUME RestoreInv, NEW j \in Applies, ReturnInstall(j)
    PROVE  Good(j)
<1>0. Filed /\ Places /\ JobInv(j) /\ pc[j] = "return-install"
    BY DEF RestoreInv, TypeOK, Filed, ReturnInstall, At
<1>p. Around(j)
    BY AroundHolds
<1>a. Apart /\ Still(j)
    BY <1>0 DEF ReturnInstall, Same, Outside, flags, world, Apart, Still
<1>1. CASE files' = [Moved(RollbackOf(j), Current) EXCEPT ![RollbackOldOf(j)] = None] /\ Goto(j, "forget")
    <2>1. Goes(j, "forget", result[j])
        BY <1>0, <1>1, <1>p DEF Around, Goes, Goto, Places
    <2>2. /\ Filed' /\ Touches({RollbackOf(j), Current, RollbackOldOf(j)})
          /\ files'[Current] = files[RollbackOf(j)]
          /\ files'[RollbackOf(j)] = None /\ files'[RollbackOldOf(j)] = None
        BY <1>0, <1>1, <1>p DEF Around, Filed, Touches, Moved
    <2>u. /\ files'[Previous] = files[Previous] /\ files'[CopyOf(j)] = files[CopyOf(j)]
          /\ files'[SwapOf(j)] = files[SwapOf(j)] /\ files'[OldOf(j)] = files[OldOf(j)]
        BY <1>p, <2>2 DEF Touches, Around
    <2>3. JobInv(j)'
        BY <1>0, <1>a, <1>1, <2>1, <2>2, <2>u DEF Goes, Still, Apart, JobInv, Owns, Seen, OwnTemps,
           Swapping, Own, Over, Exists, Home, PastChecks, Kept, AfterSwap, Early
    <2>4. Found(j) /\ Clear(j)
        BY <1>0, <1>a, <1>1, <2>1, <2>2, <2>u DEF Found, Clear, Goes, Still, Apart,
           JobInv, Owns, Seen, OwnTemps, Swapping, Own, Over, Away, Stranded, Exists, Home,
           PastChecks, Kept, AfterSwap, Early
    <2> QED BY <1>a, <2>2, <2>3, <2>4 DEF Good, Touches, Mine
<1>2. CASE files' = Moved(RollbackOf(j), Current) /\ Throw(j, "manual", "manual")
    <2>1. Goes(j, "manual", "manual")
        BY <1>0, <1>2, <1>p DEF Around, Goes, Throw, Places
    <2>2. /\ Filed' /\ Touches({RollbackOf(j), Current})
          /\ files'[Current] = files[RollbackOf(j)] /\ files'[RollbackOf(j)] = None
        BY <1>0, <1>2, Moving, <1>p DEF Around
    <2>u. /\ files'[Previous] = files[Previous] /\ files'[CopyOf(j)] = files[CopyOf(j)]
          /\ files'[SwapOf(j)] = files[SwapOf(j)] /\ files'[OldOf(j)] = files[OldOf(j)]
          /\ files'[RollbackOldOf(j)] = files[RollbackOldOf(j)]
        BY <1>p, <2>2 DEF Touches, Around
    <2>3. JobInv(j)'
        BY <1>0, <1>a, <1>2, <2>1, <2>2, <2>u DEF Goes, Still, Apart, JobInv, Owns, Seen, OwnTemps,
           Swapping, Own, Over, Exists, Home, PastChecks, Kept, AfterSwap, Early
    <2>4. Found(j) /\ Clear(j)
        BY <1>0, <1>a, <1>2, <2>1, <2>2, <2>u DEF Found, Clear, Goes, Still, Apart,
           JobInv, Owns, Seen, OwnTemps, Swapping, Own, Over, Away, Stranded, Exists, Home,
           PastChecks, Kept, AfterSwap, Early
    <2> QED BY <1>a, <2>2, <2>3, <2>4 DEF Good, Touches, Mine
<1>3. CASE files' = Moved(RollbackOldOf(j), Current) /\ Throw(j, "manual", "manual")
    <2>1. Goes(j, "manual", "manual")
        BY <1>0, <1>3, <1>p DEF Around, Goes, Throw, Places
    <2>2. /\ Filed' /\ Touches({RollbackOldOf(j), Current})
          /\ files'[Current] = files[RollbackOldOf(j)] /\ files'[RollbackOldOf(j)] = None
        BY <1>0, <1>3, Moving, <1>p DEF Around
    <2>u. /\ files'[Previous] = files[Previous] /\ files'[CopyOf(j)] = files[CopyOf(j)]
          /\ files'[SwapOf(j)] = files[SwapOf(j)] /\ files'[OldOf(j)] = files[OldOf(j)]
          /\ files'[RollbackOf(j)] = files[RollbackOf(j)]
        BY <1>p, <2>2 DEF Touches, Around
    <2>3. JobInv(j)'
        BY <1>0, <1>a, <1>3, <2>1, <2>2, <2>u DEF Goes, Still, Apart, JobInv, Owns, Seen, OwnTemps,
           Swapping, Own, Over, Exists, Home, PastChecks, Kept, AfterSwap, Early
    <2>4. Found(j) /\ Clear(j)
        BY <1>0, <1>a, <1>3, <2>1, <2>2, <2>u DEF Found, Clear, Goes, Still, Apart,
           JobInv, Owns, Seen, OwnTemps, Swapping, Own, Over, Away, Stranded, Exists, Home,
           PastChecks, Kept, AfterSwap, Early
    <2> QED BY <1>a, <2>2, <2>3, <2>4 DEF Good, Touches, Mine
<1>4. CASE UNCHANGED files /\ Throw(j, "manual", "manual")
    <2>1. Goes(j, "manual", "manual")
        BY <1>0, <1>4, <1>p DEF Around, Goes, Throw, Places
    <2>2. Filed' /\ Touches({})
        BY <1>0, <1>4, Leaving
    <2>3. JobInv(j)'
        BY <1>0, <1>a, <1>4, <2>1, <2>2 DEF Goes, Still, Apart, JobInv, Owns, Seen, OwnTemps,
           Swapping, Own, Over, Exists, Home, PastChecks, Kept, AfterSwap, Early
    <2>4. Found(j) /\ Clear(j)
        BY <1>0, <1>a, <1>4, <2>1, <2>2 DEF Found, Clear, Goes, Still, Apart,
           JobInv, Owns, Seen, OwnTemps, Swapping, Own, Over, Away, Stranded, Exists, Home,
           PastChecks, Kept, AfterSwap, Early
    <2> QED BY <1>a, <2>2, <2>3, <2>4 DEF Good, Touches, Mine
<1> QED
    BY <1>1, <1>2, <1>3, <1>4 DEF ReturnInstall

\* Rolled back: previous is not needed any more.
LEMMA ForgetGood ==
    ASSUME RestoreInv, NEW j \in Applies, Forget(j)
    PROVE  Good(j)
<1>0. Filed /\ Places /\ JobInv(j) /\ pc[j] = "forget" /\ litter \subseteq Paths
    BY DEF RestoreInv, TypeOK, Filed, Forget, At
<1>p. Around(j)
    BY AroundHolds
<1>l. litter \subseteq litter'
    BY <1>0, <1>p, Removing DEF Forget, Around
<1>a. Apart /\ Still(j)
    BY <1>0, <1>l DEF Forget, Outside, flags, world, Apart, Still
<1>1. CASE Remove({Previous, RollbackOf(j)}) /\ Goto(j, "finally")
    <2>1. Goes(j, "finally", result[j])
        BY <1>0, <1>1, <1>p DEF Around, Goes, Goto, Places
    <2>2. /\ Filed' /\ Touches({Previous, RollbackOf(j)})
          /\ Removed(Previous) /\ Removed(RollbackOf(j))
        BY <1>0, <1>1, Removing, <1>p DEF Around
    <2>u. /\ files'[Current] = files[Current] /\ files'[CopyOf(j)] = files[CopyOf(j)]
          /\ files'[SwapOf(j)] = files[SwapOf(j)] /\ files'[OldOf(j)] = files[OldOf(j)]
          /\ files'[RollbackOldOf(j)] = files[RollbackOldOf(j)]
        BY <1>p, <2>2 DEF Touches, Around
    <2>3. JobInv(j)'
        BY <1>0, <1>a, <1>1, <2>1, <2>2, <2>u DEF Goes, Still, Apart, JobInv, Owns, Seen, OwnTemps,
           Swapping, Own, Over, Exists, Home, PastChecks, Kept, AfterSwap, Early, Removed
    <2>4. Found(j) /\ Clear(j)
        BY <1>0, <1>a, <1>1, <2>1, <2>2, <2>u DEF Found, Clear, Goes, Still, Apart,
           JobInv, Owns, Seen, OwnTemps, Swapping, Own, Over, Away, Stranded, Exists, Home,
           PastChecks, Kept, AfterSwap, Early, Removed
    <2> QED BY <1>a, <2>2, <2>3, <2>4 DEF Good, Touches, Mine
<1> QED
    BY <1>1 DEF Forget

\* A failed rollback keeps previous.
LEMMA ManualGood ==
    ASSUME RestoreInv, NEW j \in Applies, Manual(j)
    PROVE  Good(j)
<1>0. Filed /\ Places /\ JobInv(j) /\ pc[j] = "manual" /\ litter \subseteq Paths
    BY DEF RestoreInv, TypeOK, Filed, Manual, At
<1>p. Around(j)
    BY AroundHolds
<1>l. litter \subseteq litter'
    BY <1>0, <1>p, Removing DEF Manual, Around
<1>a. Apart /\ Still(j)
    BY <1>0, <1>l DEF Manual, Outside, flags, world, Apart, Still
<1>1. CASE Remove({RollbackOf(j)}) /\ Throw(j, "manual", "finally")
    <2>1. Goes(j, "finally", "manual")
        BY <1>0, <1>1, <1>p DEF Around, Goes, Throw, Places
    <2>2. Filed' /\ Touches({RollbackOf(j)}) /\ Removed(RollbackOf(j))
        BY <1>0, <1>1, Removing, <1>p DEF Around
    <2>u. /\ files'[Current] = files[Current] /\ files'[Previous] = files[Previous]
          /\ files'[CopyOf(j)] = files[CopyOf(j)] /\ files'[SwapOf(j)] = files[SwapOf(j)]
          /\ files'[OldOf(j)] = files[OldOf(j)] /\ files'[RollbackOldOf(j)] = files[RollbackOldOf(j)]
        BY <1>p, <2>2 DEF Touches, Around
    <2>3. JobInv(j)'
        BY <1>0, <1>a, <1>1, <2>1, <2>2, <2>u DEF Goes, Still, Apart, JobInv, Owns, Seen, OwnTemps,
           Swapping, Own, Over, Exists, Home, PastChecks, Kept, AfterSwap, Early, Removed
    <2>4. Found(j) /\ Clear(j)
        BY <1>0, <1>a, <1>1, <2>1, <2>2, <2>u DEF Found, Clear, Goes, Still, Apart,
           JobInv, Owns, Seen, OwnTemps, Swapping, Own, Over, Away, Stranded, Exists, Home,
           PastChecks, Kept, AfterSwap, Early, Removed
    <2> QED BY <1>a, <2>2, <2>3, <2>4 DEF Good, Touches, Mine
<1> QED
    BY <1>1 DEF Manual

\* The temporary files go, and the job ends as it was decided.
LEMMA FinallyGood ==
    ASSUME RestoreInv, NEW j \in Applies, Finally(j)
    PROVE  Good(j)
<1>0. Filed /\ Places /\ JobInv(j) /\ pc[j] = "finally" /\ litter \subseteq Paths
    BY DEF RestoreInv, TypeOK, Filed, Finally, At
<1>p. Around(j)
    BY AroundHolds
<1>l. litter \subseteq litter'
    BY <1>0, <1>p, Removing DEF Finally, Around
<1>a. Apart /\ Still(j)
    BY <1>0, <1>l DEF Finally, Outside, flags, world, Apart, Still
<1>1. CASE Remove({CopyOf(j), SwapOf(j), OldOf(j)}) /\ End(j, result[j])
    <2>1. Goes(j, "ended", result[j])
        BY <1>0, <1>1, <1>p DEF Around, Goes, End, Places
    <2>2. /\ Filed' /\ Touches({CopyOf(j), SwapOf(j), OldOf(j)})
          /\ Removed(CopyOf(j)) /\ Removed(SwapOf(j)) /\ Removed(OldOf(j))
        BY <1>0, <1>1, Removing, <1>p DEF Around
    <2>u. /\ files'[Current] = files[Current] /\ files'[Previous] = files[Previous]
          /\ files'[RollbackOf(j)] = files[RollbackOf(j)] /\ files'[RollbackOldOf(j)] = files[RollbackOldOf(j)]
        BY <1>p, <2>2 DEF Touches, Around
    <2>3. JobInv(j)'
        BY <1>0, <1>a, <1>1, <2>1, <2>2, <2>u DEF Goes, Still, Apart, JobInv, Owns, Seen, OwnTemps,
           Swapping, Own, Over, Exists, Home, PastChecks, Kept, AfterSwap, Early, Removed
    <2>4. Found(j) /\ Clear(j)
        BY <1>0, <1>a, <1>1, <2>1, <2>2, <2>u DEF Found, Clear, Goes, Still, Apart,
           JobInv, Owns, Seen, OwnTemps, Swapping, Own, Over, Away, Stranded, Exists, Home,
           PastChecks, Kept, AfterSwap, Early, Removed
    <2> QED BY <1>a, <2>2, <2>3, <2>4 DEF Good, Touches, Mine
<1> QED
    BY <1>1 DEF Finally

\* Every step of an apply job is good for it.
LEMMA ApplyGood ==
    ASSUME RestoreInv, NEW j \in Applies, Apply(j)
    PROVE  Good(j)
BY ApplyBeginGood, PreserveGood, CompareGood, KeepGood, PrepareGood,
   VerifyGood, SwapGood, AsideGood, InstallGood, BackGood,
   DropGood, AppliedGood, UndoGood, RollbackGood, ReturnGood,
   ReturnAsideGood, ReturnInstallGood, ForgetGood, ManualGood, FinallyGood DEF Apply

-----------------------------------------------------------------------------
(* Types *)

\* All of TypeOK and Places but the files.
Typed ==
    /\ manifest \in Data \cup {None} /\ manifest # Bad
    /\ staged \in BOOLEAN /\ raced \in BOOLEAN
    /\ seen \in [Applies -> File \cup {None}]
    /\ made \subseteq Applies /\ swapped \subseteq Applies /\ litter \subseteq Paths
    /\ writes \in 0 .. MaxWrites /\ faults \in 0 .. MaxFaults /\ crashes \in 0 .. MaxCrashes
    /\ Places

\* The types fall into those of the files and the rest.
LEMMA TypeParts == TypeOK /\ Places <=> Filed /\ Typed
BY DEF TypeOK, Filed, Typed

\* The places keep their types, and the other jobs stay where they are.
Moves(j) == Places' /\ \A i \in Jobs \ {j} : Goes(i, pc[i], result[i])

\* Going on to a step moves the job only.
LEMMA Goings ==
    ASSUME Places, NEW j \in Jobs, NEW next \in Labels, Goto(j, next)
    PROVE  Moves(j)
BY DEF Places, Moves, Goes, Goto

\* So does throwing ...
LEMMA Throws ==
    ASSUME Places, NEW j \in Jobs, NEW next \in Labels, NEW r \in Outcomes, Throw(j, r, next)
    PROVE  Moves(j)
<1>1. pc' \in [Jobs -> Labels] /\ \A i \in Jobs \ {j} : pc'[i] = pc[i]
    BY DEF Places, Throw
<1>2. result' \in [Jobs -> Outcomes \cup {None}] /\ \A i \in Jobs \ {j} : result'[i] = result[i]
    BY DEF Places, Throw
<1> QED BY <1>1, <1>2 DEF Places, Moves, Goes

\* ... and ending.
LEMMA Ends ==
    ASSUME Places, NEW j \in Jobs, NEW r \in Outcomes \cup {None}, End(j, r)
    PROVE  Moves(j)
<1>1. pc' \in [Jobs -> Labels] /\ \A i \in Jobs \ {j} : pc'[i] = pc[i]
    BY DEF Places, End, Labels
<1>2. result' \in [Jobs -> Outcomes \cup {None}] /\ \A i \in Jobs \ {j} : result'[i] = result[i]
    BY DEF Places, End
<1> QED BY <1>1, <1>2 DEF Places, Moves, Goes

\* A step of an apply job moves that job only.
LEMMA ApplyMoves ==
    ASSUME Places, NEW j \in Applies, Apply(j)
    PROVE  Moves(j)
<1>0. j \in Jobs /\ result[j] \in Outcomes \cup {None}
    BY PathsThere DEF Places
<1>1. CASE ApplyBegin(j)
    BY <1>0, <1>1, Goings, Throws, Ends DEF ApplyBegin, Check, Outcomes, Labels
<1>2. CASE Preserve(j)
    BY <1>0, <1>2, Goings, Throws, Ends DEF Preserve, Do, Outcomes, Labels
<1>3. CASE Compare(j)
    BY <1>0, <1>3, Goings, Throws, Ends DEF Compare, Check, Outcomes, Labels
<1>4. CASE Keep(j)
    BY <1>0, <1>4, Goings, Throws, Ends DEF Keep, Do, Outcomes, Labels
<1>5. CASE Prepare(j)
    BY <1>0, <1>5, Goings, Throws, Ends DEF Prepare, Do, Outcomes, Labels
<1>6. CASE Verify(j)
    BY <1>0, <1>6, Goings, Throws, Ends DEF Verify, Check, Outcomes, Labels
<1>7. CASE Swap(j)
    BY <1>0, <1>7, Goings, Throws, Ends DEF Swap, Replace, Outcomes, Labels
<1>8. CASE Aside(j)
    BY <1>0, <1>8, Goings, Throws, Ends DEF Aside, Do, Outcomes, Labels
<1>9. CASE Install(j)
    BY <1>0, <1>9, Goings, Throws, Ends DEF Install, Do, Outcomes, Labels
<1>10. CASE Back(j)
    BY <1>0, <1>10, Goings, Throws, Ends DEF Back, Outcomes, Labels
<1>11. CASE Drop(j)
    BY <1>0, <1>11, Goings, Throws, Ends DEF Drop, Outcomes, Labels
<1>12. CASE Applied(j)
    BY <1>0, <1>12, Goings, Throws, Ends DEF Applied, Outcomes, Labels
<1>13. CASE Undo(j)
    BY <1>0, <1>13, Goings, Throws, Ends DEF Undo, Outcomes, Labels
<1>14. CASE Rollback(j)
    BY <1>0, <1>14, Goings, Throws, Ends DEF Rollback, Do, Outcomes, Labels
<1>15. CASE Return(j)
    BY <1>0, <1>15, Goings, Throws, Ends DEF Return, Replace, Outcomes, Labels
<1>16. CASE ReturnAside(j)
    BY <1>0, <1>16, Goings, Throws, Ends DEF ReturnAside, Do, Outcomes, Labels
<1>17. CASE ReturnInstall(j)
    BY <1>0, <1>17, Goings, Throws, Ends DEF ReturnInstall, Outcomes, Labels
<1>18. CASE Forget(j)
    BY <1>0, <1>18, Goings, Throws, Ends DEF Forget, Outcomes, Labels
<1>19. CASE Manual(j)
    BY <1>0, <1>19, Goings, Throws, Ends DEF Manual, Outcomes, Labels
<1>20. CASE Finally(j)
    BY <1>0, <1>20, Goings, Throws, Ends DEF Finally, Outcomes, Labels
<1> QED
    BY <1>1, <1>2, <1>3, <1>4, <1>5, <1>6, <1>7, <1>8, <1>9, <1>10, <1>11, <1>12, <1>13, <1>14, <1>15, <1>16, <1>17, <1>18, <1>19, <1>20 DEF Apply

\* A step of an apply job keeps the types of the flags, and the flags of the others.
LEMMA ApplyFlags ==
    ASSUME Filed, Typed, NEW j \in Applies, Apply(j)
    PROVE  /\ seen' \in [Applies -> File \cup {None}] /\ made' \subseteq Applies /\ swapped' \subseteq Applies
           /\ \A i \in Applies \ {j} : Still(i)
<1>0. Current \in Paths
    BY PathsThere
<1>1. CASE ApplyBegin(j)
    BY <1>0, <1>1 DEF ApplyBegin, Same, Outside, flags, Typed, Filed, Still
<1>2. CASE Preserve(j)
    BY <1>0, <1>2 DEF Preserve, Same, Outside, flags, Typed, Filed, Still
<1>3. CASE Compare(j)
    BY <1>0, <1>3 DEF Compare, Same, Outside, flags, Typed, Filed, Still
<1>4. CASE Keep(j)
    BY <1>0, <1>4 DEF Keep, Same, Outside, flags, Typed, Filed, Still
<1>5. CASE Prepare(j)
    BY <1>0, <1>5 DEF Prepare, Same, Outside, flags, Typed, Filed, Still
<1>6. CASE Verify(j)
    BY <1>0, <1>6 DEF Verify, Same, Outside, flags, Typed, Filed, Still
<1>7. CASE Swap(j)
    BY <1>0, <1>7 DEF Swap, Same, Outside, flags, Typed, Filed, Still
<1>8. CASE Aside(j)
    BY <1>0, <1>8 DEF Aside, Same, Outside, flags, Typed, Filed, Still
<1>9. CASE Install(j)
    BY <1>0, <1>9 DEF Install, Same, Outside, flags, Typed, Filed, Still
<1>10. CASE Back(j)
    BY <1>0, <1>10 DEF Back, Same, Outside, flags, Typed, Filed, Still
<1>11. CASE Drop(j)
    BY <1>0, <1>11 DEF Drop, Same, Outside, flags, Typed, Filed, Still
<1>12. CASE Applied(j)
    BY <1>0, <1>12 DEF Applied, Same, Outside, flags, Typed, Filed, Still
<1>13. CASE Undo(j)
    BY <1>0, <1>13 DEF Undo, Same, Outside, flags, Typed, Filed, Still
<1>14. CASE Rollback(j)
    BY <1>0, <1>14 DEF Rollback, Same, Outside, flags, Typed, Filed, Still
<1>15. CASE Return(j)
    BY <1>0, <1>15 DEF Return, Same, Outside, flags, Typed, Filed, Still
<1>16. CASE ReturnAside(j)
    BY <1>0, <1>16 DEF ReturnAside, Same, Outside, flags, Typed, Filed, Still
<1>17. CASE ReturnInstall(j)
    BY <1>0, <1>17 DEF ReturnInstall, Same, Outside, flags, Typed, Filed, Still
<1>18. CASE Forget(j)
    BY <1>0, <1>18 DEF Forget, Same, Outside, flags, Typed, Filed, Still
<1>19. CASE Manual(j)
    BY <1>0, <1>19 DEF Manual, Same, Outside, flags, Typed, Filed, Still
<1>20. CASE Finally(j)
    BY <1>0, <1>20 DEF Finally, Same, Outside, flags, Typed, Filed, Still
<1> QED
    BY <1>1, <1>2, <1>3, <1>4, <1>5, <1>6, <1>7, <1>8, <1>9, <1>10, <1>11, <1>12, <1>13, <1>14, <1>15, <1>16, <1>17, <1>18, <1>19, <1>20 DEF Apply

\* What a removal leaves behind is under one of the paths, and counted.
LEMMA Counted ==
    ASSUME Typed, NEW ps \in SUBSET Paths, Remove(ps)
    PROVE  faults' \in 0 .. MaxFaults /\ litter' \subseteq Paths /\ litter \subseteq litter'
<1>0. MaxFaults \in Nat /\ faults \in 0 .. MaxFaults /\ litter \subseteq Paths
    BY RestoreAssumption DEF Typed
<1>1. PICK left \in SUBSET {p \in ps : Exists(p)} :
        /\ litter' = litter \cup left
        /\ IF left = {} THEN UNCHANGED faults ELSE Fault
    BY DEF Remove
<1>2. faults' \in 0 .. MaxFaults
    BY <1>0, <1>1 DEF Fault
<1>3. litter' \subseteq Paths /\ litter \subseteq litter'
    BY <1>0, <1>1
<1> QED BY <1>2, <1>3

\* A step of an apply job counts its faults, and leaves the surroundings alone.
LEMMA ApplyCounts ==
    ASSUME Typed, NEW j \in Applies, Apply(j)
    PROVE  /\ faults' \in 0 .. MaxFaults /\ litter' \subseteq Paths
           /\ UNCHANGED <<manifest, staged, world, crashes>>
<1>0. MaxFaults \in Nat
    BY RestoreAssumption
<1>p. Around(j)
    BY AroundHolds
<1>1. CASE ApplyBegin(j)
    BY <1>0, <1>1 DEF ApplyBegin, Check, Fault, Same, Outside, Typed
<1>2. CASE Preserve(j)
    BY <1>0, <1>2 DEF Preserve, Do, Fault, Same, Outside, Typed
<1>3. CASE Compare(j)
    BY <1>0, <1>3 DEF Compare, Check, Fault, Same, Outside, Typed
<1>4. CASE Keep(j)
    BY <1>0, <1>4 DEF Keep, Do, Fault, Same, Outside, Typed
<1>5. CASE Prepare(j)
    BY <1>0, <1>5 DEF Prepare, Do, Fault, Same, Outside, Typed
<1>6. CASE Verify(j)
    BY <1>0, <1>6 DEF Verify, Check, Fault, Same, Outside, Typed
<1>7. CASE Swap(j)
    BY <1>0, <1>7 DEF Swap, Replace, Fault, Same, Outside, Typed
<1>8. CASE Aside(j)
    BY <1>0, <1>8 DEF Aside, Do, Fault, Same, Outside, Typed
<1>9. CASE Install(j)
    BY <1>0, <1>9 DEF Install, Do, Fault, Same, Outside, Typed
<1>10. CASE Back(j)
    BY <1>0, <1>10 DEF Back, Fault, Same, Outside, Typed
<1>11. CASE Drop(j)
    BY <1>p, <1>11, Counted DEF Drop, Outside, world, Around
<1>12. CASE Applied(j)
    BY <1>0, <1>12 DEF Applied, Fault, Same, Outside, Typed
<1>13. CASE Undo(j)
    <2>1. (IF j \in made THEN {Previous} ELSE {}) \in SUBSET Paths
        BY <1>p DEF Around
    <2>2. CASE j \in swapped
        BY <1>13, <2>2 DEF Undo, Outside, Typed
    <2>3. CASE j \notin swapped
        BY <1>13, <2>1, <2>3, Counted DEF Undo, Outside
    <2> QED BY <2>2, <2>3
<1>14. CASE Rollback(j)
    BY <1>0, <1>14 DEF Rollback, Do, Fault, Same, Outside, Typed
<1>15. CASE Return(j)
    BY <1>0, <1>15 DEF Return, Replace, Fault, Same, Outside, Typed
<1>16. CASE ReturnAside(j)
    BY <1>0, <1>16 DEF ReturnAside, Do, Fault, Same, Outside, Typed
<1>17. CASE ReturnInstall(j)
    BY <1>0, <1>17 DEF ReturnInstall, Fault, Same, Outside, Typed
<1>18. CASE Forget(j)
    BY <1>p, <1>18, Counted DEF Forget, Outside, world, Around
<1>19. CASE Manual(j)
    BY <1>p, <1>19, Counted DEF Manual, Outside, world, Around
<1>20. CASE Finally(j)
    BY <1>p, <1>20, Counted DEF Finally, Outside, world, Around
<1> QED
    BY <1>1, <1>2, <1>3, <1>4, <1>5, <1>6, <1>7, <1>8, <1>9, <1>10, <1>11, <1>12, <1>13, <1>14, <1>15, <1>16, <1>17, <1>18, <1>19, <1>20 DEF Apply

\* A step of an apply job keeps the types.
LEMMA ApplyTyped ==
    ASSUME Filed, Typed, NEW j \in Applies, Apply(j)
    PROVE  Typed' /\ Moves(j)
<1>1. Moves(j)
    BY ApplyMoves, PathsThere DEF Typed
<1>2. faults' \in 0 .. MaxFaults /\ litter' \subseteq Paths /\ UNCHANGED <<manifest, staged, world, crashes>>
    BY ApplyCounts
<1>3. seen' \in [Applies -> File \cup {None}] /\ made' \subseteq Applies /\ swapped' \subseteq Applies
    BY ApplyFlags
<1> QED BY <1>1, <1>2, <1>3 DEF Typed, Moves, world

-----------------------------------------------------------------------------
(* What a step leaves to the other jobs *)

\* A step leaves apply job i alone: its place, its memory, its temporary files, and
\* current and previous as well, unless previous is another job's.
Framed(i) ==
    /\ Goes(i, pc[i], result[i]) /\ Still(i)
    /\ writes' = writes /\ raced' = raced /\ litter \subseteq litter'
    /\ manifest # None => manifest' = manifest
    /\ \A p \in Mine(i) \ {SwapOf(i)} : files'[p] = files[p]
    /\ Exists(SwapOf(i))' <=> Exists(SwapOf(i))
    /\ \/ files'[Current] = files[Current] /\ files'[Previous] = files[Previous]
       \/ ~Own(i) /\ ~Own(i)'

\* The files of a job that is left alone.
LEMMA FramedFiles ==
    ASSUME NEW i \in Applies, Framed(i)
    PROVE  /\ files'[CopyOf(i)] = files[CopyOf(i)] /\ files'[OldOf(i)] = files[OldOf(i)]
           /\ files'[RollbackOf(i)] = files[RollbackOf(i)]
           /\ files'[RollbackOldOf(i)] = files[RollbackOldOf(i)]
<1>1. {CopyOf(i), OldOf(i), RollbackOf(i), RollbackOldOf(i)} \subseteq Mine(i) \ {SwapOf(i)}
    BY AroundHolds DEF Around, Mine
<1> QED BY <1>1 DEF Framed

\* What is left alone keeps its invariant.
LEMMA FramedKeeps ==
    ASSUME Filed, NEW i \in Applies, JobInv(i), Framed(i)
    PROVE  JobInv(i)' /\ (Away(i) => Away(i)') /\ (Stranded(i) => Stranded(i)')
<1>1. /\ Goes(i, pc[i], result[i]) /\ Still(i)
      /\ writes' = writes /\ raced' = raced /\ litter \subseteq litter'
      /\ Exists(SwapOf(i))' <=> Exists(SwapOf(i))
    BY DEF Framed
<1>2. /\ files'[CopyOf(i)] = files[CopyOf(i)] /\ files'[OldOf(i)] = files[OldOf(i)]
      /\ files'[RollbackOf(i)] = files[RollbackOf(i)]
      /\ files'[RollbackOldOf(i)] = files[RollbackOldOf(i)]
    BY FramedFiles
<1>3. CASE files'[Current] = files[Current] /\ files'[Previous] = files[Previous]
    <2>1. result[i] = "applied" => manifest' = manifest
        <3>1. Exists(Current) => files[Current].data # None
            BY FileThere, PathsThere, NoneAssumption
        <3> QED BY <3>1 DEF JobInv, Swapping, Framed
    <2>2. Owns(i)' /\ Seen(i)'
        BY <1>1, <1>2, <1>3 DEF JobInv, Owns, Seen, Goes, Still, Own, Over, Exists,
           PastChecks, Kept, AfterSwap, Early
    <2>3. OwnTemps(i)' /\ Swapping(i)'
        BY <1>1, <1>2, <1>3, <2>1 DEF JobInv, OwnTemps, Swapping, Goes, Still, Over, Exists, Home
    <2>4. (Away(i) => Away(i)') /\ (Stranded(i) => Stranded(i)')
        BY <1>1, <1>2, <1>3 DEF Over, Away, Stranded, Own, Goes, Still, Exists
    <2> QED BY <2>2, <2>3, <2>4 DEF JobInv
<1>4. CASE ~Own(i) /\ ~Own(i)'
    <2>1. pc[i] \notin Kept /\ result[i] # "applied"
        BY <1>4 DEF JobInv, Owns, Kept, AfterSwap, Over
    <2>2. Owns(i)' /\ Seen(i)'
        BY <1>1, <1>2, <1>4, <2>1 DEF JobInv, Owns, Seen, Goes, Still, Over, Exists,
           PastChecks, Kept, AfterSwap, Early
    <2>3. OwnTemps(i)' /\ Swapping(i)'
        BY <1>1, <1>2, <1>4, <2>1 DEF JobInv, OwnTemps, Swapping, Goes, Still, Over, Exists, Kept, AfterSwap
    <2>4. (Away(i) => Away(i)') /\ (Stranded(i) => Stranded(i)')
        BY <1>1, <1>2, <1>4 DEF Over, Away, Stranded, Goes, Exists
    <2> QED BY <2>2, <2>3, <2>4 DEF JobInv
<1> QED BY <1>3, <1>4 DEF Framed

\* An apply job leaves the other ones alone.
LEMMA ApplyFrames ==
    ASSUME RestoreInv, NEW j \in Applies, Apply(j), NEW i \in Applies, i # j
    PROVE  Framed(i)
<1>0. Filed /\ Typed
    BY TypeParts DEF RestoreInv
<1>1. Good(j)
    BY ApplyGood
<1>2. Goes(i, pc[i], result[i])
    BY <1>0, ApplyTyped, PathsThere DEF Moves
<1>3. Still(i)
    BY <1>0, ApplyFlags
<1>4. Around(i) /\ Around(j)
    BY AroundHolds
<1>5. \A p \in Mine(i) : files'[p] = files[p]
    <2>1. Mine(i) \cap (Mine(j) \cup {Current, Previous}) = {}
        <3>1. Mine(i) \cap {Current, Previous} = {}
            BY <1>4 DEF Mine, Around
        <3>2. \A p \in Mine(i) : p[2] = i
            BY Tags DEF Mine
        <3>3. \A p \in Mine(j) : p[2] = j
            BY Tags DEF Mine
        <3> QED BY <3>1, <3>2, <3>3
    <2>2. Mine(i) \subseteq Paths
        BY <1>4 DEF Around, Mine
    <2> QED BY <1>1, <2>1, <2>2 DEF Good, Touches
<1>6. \/ files'[Current] = files[Current] /\ files'[Previous] = files[Previous]
      \/ ~Own(i) /\ ~Own(i)'
    <2>1. CASE Own(j) /\ (files'[Previous] = files[Previous] \/ files'[Previous] = None)
        <3>1. ~Own(i)
            BY <2>1, OneOwner
        <3> QED BY <2>1, <3>1 DEF Own, Exists
    <2>2. CASE ~Exists(Previous) /\ Own(j)'
        <3>1. CopyOf(i) # CopyOf(j)
            <4>1. CopyOf(i)[2] = i /\ CopyOf(j)[2] = j
                BY Tags
            <4> QED BY <4>1
        <3> QED BY <2>2, <3>1 DEF Own, Exists
    <2> QED BY <1>1, <2>1, <2>2 DEF Good, Clear
<1>7. Exists(SwapOf(i))' <=> Exists(SwapOf(i))
    BY <1>5 DEF Mine, Exists
<1> QED BY <1>1, <1>2, <1>3, <1>5, <1>6, <1>7 DEF Framed, Good, Apart

-----------------------------------------------------------------------------
(* Backup and staging jobs, and the surroundings *)

\* A backup or staging job changes only files and manifest, and keeps the types.
LEMMA SideTyped ==
    ASSUME RestoreInv, NEW j \in Backups \cup Stagings, 
           (j \in Backups /\ Backup(j)) \/ (j \in Stagings /\ Stage(j))
    PROVE  Typed' /\ Moves(j) /\ litter \subseteq litter' /\ UNCHANGED <<flags, world>>
<1>0. /\ Filed /\ Typed /\ Places /\ Copies(j) /\ j \in Jobs /\ MaxFaults \in Nat /\ CopyOf(j) \in Paths
      /\ result[j] \in Outcomes \cup {None}
    BY TypeParts, PathsThere, RestoreAssumption DEF RestoreInv, Typed, Places
<1>1. Moves(j)
    <2>1. CASE BackupBegin(j) \/ BackupVacuum(j) \/ BackupLink(j)
        BY <1>0, <2>1, Goings, Throws
        DEF BackupBegin, BackupVacuum, BackupLink, Do, Check, Outcomes, Labels
    <2>2. CASE StageBegin(j) \/ StageCopy(j) \/ StageVerify(j) \/ StageLink(j)
        BY <1>0, <2>2, Goings, Throws
        DEF StageBegin, StageCopy, StageVerify, StageLink, Do, Check, Outcomes, Labels
    <2>3. CASE Clean(j)
        BY <1>0, <2>3, Ends DEF Clean, Outcomes
    <2> QED BY <2>1, <2>2, <2>3 DEF Backup, Stage
<1>2. UNCHANGED <<flags, world, crashes>> /\ staged' \in BOOLEAN
    BY <1>0 DEF Backup, Stage, BackupBegin, BackupVacuum, BackupLink, Clean, StageBegin, StageCopy,
       StageVerify, StageLink, Same, Outside, Typed
<1>3. faults' \in 0 .. MaxFaults /\ litter' \subseteq Paths /\ litter \subseteq litter'
    <2>1. CASE Clean(j)
        BY <1>0, <2>1, Counted DEF Clean
    <2>2. CASE ~Clean(j)
        BY <1>0, <2>2 DEF Backup, Stage, BackupBegin, BackupVacuum, BackupLink, StageBegin, StageCopy,
           StageVerify, StageLink, Do, Check, Fault, Same, Typed
    <2> QED BY <2>1, <2>2
<1>4. manifest' \in Data \cup {None} /\ manifest' # Bad
    <2>1. CASE BackupLink(j) /\ files' # files /\ j \in Backups
        <3>1. ~Exists(Snapshot) /\ files[CopyOf(j)].data # Bad /\ manifest' = files[CopyOf(j)].data
            BY <2>1 DEF BackupLink, Do
        <3>2. files[CopyOf(j)].data \in Data
            BY <1>0, <2>1, FileThere DEF Copies, BackupLink, At
        <3> QED BY <3>1, <3>2
    <2>2. CASE UNCHANGED manifest
        BY <1>0, <2>2 DEF Typed
    <2> QED
        BY <1>0, <2>1, <2>2 DEF Backup, Stage, BackupBegin, BackupVacuum, BackupLink, Clean, StageBegin,
           StageCopy, StageVerify, StageLink, Same, Outside
<1> QED BY <1>0, <1>1, <1>2, <1>3, <1>4 DEF Typed, Moves, flags, world

\* A backup or staging job never touches current, previous or the files of an apply
\* job, and commits its copy under a name that is free.
Beside(j) ==
    /\ Filed' /\ Touches({CopyOf(j), Snapshot, Staged})
    /\ \A p \in {Snapshot, Staged} : Exists(p) => files'[p] = files[p]
    /\ Sealed' /\ (manifest # None => manifest' = manifest) /\ litter \subseteq litter'
    /\ Copies(j)'

\* Every step of a backup or staging job is of that kind.
LEMMA SideGood ==
    ASSUME RestoreInv, NEW j \in Backups \cup Stagings,
           (j \in Backups /\ Backup(j)) \/ (j \in Stagings /\ Stage(j))
    PROVE  Beside(j)
<1>0. /\ Filed /\ Places /\ Sealed /\ Copies(j) /\ litter \subseteq Paths
      /\ j \in Jobs /\ Backups \cap Stagings = {}
      /\ Current \in Paths /\ Snapshot \in Paths /\ Staged \in Paths /\ CopyOf(j) \in Paths
    BY TypeParts, PathsThere, RestoreAssumption DEF RestoreInv, Typed
<1>l. litter \subseteq litter'
    BY SideTyped
<1>d. CopyOf(j) \notin {Current, Snapshot, Staged} /\ Snapshot # Staged
    BY DEF CopyOf, Current, Snapshot, Staged
<1>r. ASSUME UNCHANGED <<files, manifest>>,
             Exists(CopyOf(j)) => pc'[j] \notin {"begin", "ended"},
             j \in Backups => pc'[j] # "link"
      PROVE  Beside(j)
    BY <1>0, <1>l, <1>r, Leaving DEF Beside, Touches, Sealed, Copies, Exists
<1>1. CASE j \in Backups /\ BackupBegin(j)
    BY <1>0, <1>1, <1>r DEF BackupBegin, Check, Goto, Throw, Same, Outside, At, Copies, Places
<1>2. CASE j \in Backups /\ BackupVacuum(j)
    <2>1. CASE Exists(Current) /\ files' = Copied(Current, CopyOf(j)) /\ Goto(j, "link")
        <3>1. /\ Filed' /\ Touches({CopyOf(j)}) /\ Exists(CopyOf(j))'
            BY <1>0, <2>1, Copying
        <3>2. manifest' = manifest /\ pc'[j] = "link"
            BY <1>0, <1>2, <2>1 DEF BackupVacuum, Same, Outside, Goto, Places
        <3> QED BY <1>0, <1>l, <1>d, <3>1, <3>2 DEF Beside, Touches, Sealed, Copies, Exists
    <2>2. CASE UNCHANGED files /\ Throw(j, "failed", "clean")
        BY <1>0, <1>2, <2>2, <1>r DEF BackupVacuum, Same, Outside, Throw, Places
    <2> QED BY <1>2, <2>1, <2>2 DEF BackupVacuum, Do
<1>3. CASE j \in Backups /\ BackupLink(j)
    <2>1. CASE ~Exists(Snapshot) /\ files' = Linked(CopyOf(j), Snapshot) /\ Goto(j, "clean")
        <3>1. /\ Filed' /\ Touches({Snapshot}) /\ files'[Snapshot] = files[CopyOf(j)]
            BY <1>0, <2>1, Linking
        <3>2. pc'[j] = "clean" /\ Exists(CopyOf(j))
            BY <1>0, <1>3, <2>1 DEF BackupLink, At, Goto, Places, Copies
        <3> QED BY <1>0, <1>l, <1>d, <2>1, <3>1, <3>2 DEF Beside, Touches, Sealed, Copies, Exists
    <2>2. CASE UNCHANGED files /\ Throw(j, "failed", "clean")
        BY <1>0, <1>3, <2>2, <1>r DEF BackupLink, Throw, Places
    <2> QED BY <1>3, <2>1, <2>2 DEF BackupLink, Do
<1>4. CASE Clean(j)
    <2>1. Filed' /\ Touches({CopyOf(j)}) /\ Removed(CopyOf(j))
        BY <1>0, <1>4, Removing DEF Clean
    <2>2. manifest' = manifest /\ pc'[j] = "ended"
        BY <1>0, <1>4 DEF Clean, Same, Outside, End, Places
    <2> QED BY <1>0, <1>l, <1>d, <2>1, <2>2 DEF Beside, Touches, Sealed, Copies, Exists, Removed
<1>5. CASE j \in Stagings /\ (StageBegin(j) \/ StageVerify(j))
    BY <1>0, <1>5, <1>r DEF StageBegin, StageVerify, Check, Goto, Throw, Same, Outside, At, Copies, Places
<1>6. CASE j \in Stagings /\ StageCopy(j)
    <2>1. CASE Exists(Snapshot) /\ files' = Copied(Snapshot, CopyOf(j)) /\ Goto(j, "verify")
        <3>1. /\ Filed' /\ Touches({CopyOf(j)}) /\ Exists(CopyOf(j))'
            BY <1>0, <2>1, Copying
        <3>2. manifest' = manifest /\ pc'[j] = "verify"
            BY <1>0, <1>6, <2>1 DEF StageCopy, Same, Outside, Goto, Places
        <3> QED BY <1>0, <1>6, <1>l, <1>d, <3>1, <3>2 DEF Beside, Touches, Sealed, Copies, Exists
    <2>2. CASE UNCHANGED files /\ Throw(j, "failed", "clean")
        BY <1>0, <1>6, <2>2, <1>r DEF StageCopy, Same, Outside, Throw, Places
    <2> QED BY <1>6, <2>1, <2>2 DEF StageCopy, Do
<1>7. CASE j \in Stagings /\ StageLink(j)
    <2>1. CASE ~Exists(Staged) /\ files' = Linked(CopyOf(j), Staged) /\ Goto(j, "clean")
        <3>1. /\ Filed' /\ Touches({Staged})
            BY <1>0, <2>1, Linking
        <3>2. manifest' = manifest /\ pc'[j] = "clean"
            BY <1>0, <1>7, <2>1 DEF StageLink, Goto, Places
        <3> QED BY <1>0, <1>l, <1>d, <2>1, <3>1, <3>2 DEF Beside, Touches, Sealed, Copies, Exists
    <2>2. CASE UNCHANGED files /\ Throw(j, "failed", "clean")
        BY <1>0, <1>7, <2>2, <1>r DEF StageLink, Throw, Places
    <2> QED BY <1>7, <2>1, <2>2 DEF StageLink, Do
<1> QED
    BY <1>1, <1>2, <1>3, <1>4, <1>5, <1>6, <1>7 DEF Backup, Stage

\* The latest data stays found when nothing moves but, at most, one apply job.
LEMMA WhereStays ==
    ASSUME Where, writes' = writes, raced' = raced, files'[Current] = files[Current],
           \A i \in Applies : (Away(i) => Away(i)') /\ (Stranded(i) => Stranded(i)')
    PROVE  Where'
<1>1. CASE raced \/ Home
    BY <1>1 DEF Where, Home, Exists
<1>2. CASE \E i \in Applies : Away(i)
    BY <1>2 DEF Where
<1>3. CASE ~Exists(Current) /\ \E i \in Applies : Stranded(i)
    BY <1>3 DEF Where, Exists
<1> QED BY <1>1, <1>2, <1>3 DEF Where

\* Previous keeps its owner when it stays.
LEMMA OwnedStays ==
    ASSUME Owned, files'[Previous] = files[Previous]
    PROVE  Owned'
BY DEF Owned, Own, Exists

-----------------------------------------------------------------------------
(* Every step *)

\* A file under one of these names stays, but for previous in the hands of its maker.
Steady ==
    \A p \in {Snapshot, Staged, Previous} :
        Exists(p) =>
          \/ files'[p] # None /\ files'[p].ino = files[p].ino
          \/ /\ p = Previous /\ files'[p] = None
             /\ \E j \in made : files[p].ino = CopyOf(j) /\ pc[j] \in {"undo", "forget"}

\* A step of an apply job keeps the invariant.
LEMMA ApplyStep ==
    ASSUME RestoreInv, NEW j \in Applies, Apply(j)
    PROVE  RestoreInv' /\ Steady
<1>0. Filed /\ Typed /\ Owned /\ Sealed /\ Where /\ Around(j)
    BY TypeParts, AroundHolds DEF RestoreInv
<1>1. Good(j)
    BY ApplyGood
<1>2. Typed' /\ Moves(j)
    BY <1>0, ApplyTyped
<1>3. TypeOK' /\ Places'
    BY <1>1, <1>2 DEF Good, Typed, Filed, TypeOK
<1>4. \A i \in Applies \ {j} : Framed(i)
    BY ApplyFrames
<1>5. \A i \in Applies \ {j} : JobInv(i)' /\ (Away(i) => Away(i)') /\ (Stranded(i) => Stranded(i)')
    BY <1>0, <1>4, FramedKeeps DEF RestoreInv
<1>6. \A i \in Applies : JobInv(i)'
    BY <1>1, <1>5 DEF Good
<1>7. Owned'
    <2>1. CASE files'[Previous] = files[Previous]
        BY <1>0, <2>1, OwnedStays
    <2>2. CASE files'[Previous] = None \/ Own(j)'
        BY <2>2 DEF Owned, Exists
    <2> QED BY <1>1, <2>1, <2>2 DEF Good, Clear
<1>8. /\ files'[Snapshot] = files[Snapshot] /\ files'[Staged] = files[Staged]
      /\ \A i \in Jobs \ Applies : files'[CopyOf(i)] = files[CopyOf(i)]
    <2>1. {Snapshot, Staged} \cap (Mine(j) \cup {Current, Previous}) = {}
        BY DEF Mine, Current, Previous, Snapshot, Staged, CopyOf, SwapOf, OldOf, RollbackOf, RollbackOldOf
    <2>2. ASSUME NEW i \in Jobs \ Applies
          PROVE  CopyOf(i) \notin Mine(j) \cup {Current, Previous}
        BY DEF Mine, Current, Previous, CopyOf, SwapOf, OldOf, RollbackOf, RollbackOldOf
    <2> QED BY <1>1, <2>1, <2>2, PathsThere DEF Good, Touches
<1>9. Sealed'
    BY <1>0, <1>1, <1>8 DEF Sealed, Good, Apart, Exists
<1>10. \A i \in Backups \cup Stagings : Copies(i)'
    <2>1. Backups \cup Stagings \subseteq Jobs \ Applies
        BY RestoreAssumption DEF Jobs
    <2> QED BY <1>1, <1>2, <1>8, <2>1 DEF RestoreInv, Copies, Moves, Goes, Exists, Good, Apart
<1>11. Where'
    <2>1. CASE raced' \/ Home' \/ Away(j)'
        BY <2>1 DEF Where
    <2>2. CASE ~Exists(Current)' /\ Stranded(j)'
        BY <2>2 DEF Where
    <2>3. CASE /\ files'[Current] = files[Current]
               /\ Away(j) => Away(j)'
               /\ Stranded(j) => Stranded(j)'
        BY <1>0, <1>1, <1>5, <2>3, WhereStays DEF Good, Apart
    <2> QED BY <1>1, <2>1, <2>2, <2>3 DEF Good, Found
<1>12. Steady
    <2>1. CASE files'[Previous] = files[Previous]
        BY <1>8, <2>1 DEF Steady, Exists
    <2>2. CASE Own(j) /\ files'[Previous] = None /\ pc[j] \in {"undo", "forget"}
        <3>1. j \in made /\ files[Previous].ino = CopyOf(j)
            BY <2>2 DEF RestoreInv, JobInv, Owns, Own
        <3> QED BY <1>8, <2>2, <3>1 DEF Steady, Exists
    <2>3. CASE ~Exists(Previous)
        BY <1>8, <2>3 DEF Steady, Exists
    <2> QED BY <1>1, <2>1, <2>2, <2>3 DEF Good, Clear
<1> QED BY <1>3, <1>6, <1>7, <1>9, <1>10, <1>11, <1>12 DEF RestoreInv

\* When every apply job is left alone.
LEMMA AllFramed ==
    ASSUME RestoreInv, \A i \in Applies : Framed(i),
           writes' = writes, raced' = raced,
           files'[Current] = files[Current], files'[Previous] = files[Previous]
    PROVE  (\A i \in Applies : JobInv(i)') /\ Where' /\ Owned'
<1>1. Filed /\ Where /\ Owned
    BY TypeParts DEF RestoreInv
<1>2. \A i \in Applies : JobInv(i)' /\ (Away(i) => Away(i)') /\ (Stranded(i) => Stranded(i)')
    BY <1>1, FramedKeeps DEF RestoreInv
<1> QED BY <1>1, <1>2, WhereStays, OwnedStays

\* A step of a backup or staging job keeps the invariant.
LEMMA SideStep ==
    ASSUME RestoreInv, NEW j \in Backups \cup Stagings,
           (j \in Backups /\ Backup(j)) \/ (j \in Stagings /\ Stage(j))
    PROVE  RestoreInv' /\ Steady
<1>0. Filed /\ Typed /\ j \in Jobs /\ j \notin Applies
    BY TypeParts, PathsThere, RestoreAssumption DEF RestoreInv
<1>1. Beside(j)
    BY SideGood
<1>2. Typed' /\ Moves(j) /\ UNCHANGED <<flags, world>>
    BY SideTyped
<1>3. TypeOK' /\ Places'
    BY <1>1, <1>2 DEF Beside, Typed, Filed, TypeOK
<1>4. files'[Current] = files[Current] /\ files'[Previous] = files[Previous]
    <2>1. {Current, Previous} \cap {CopyOf(j), Snapshot, Staged} = {}
        BY DEF Current, Previous, Snapshot, Staged, CopyOf
    <2> QED BY <1>1, <2>1, PathsThere DEF Beside, Touches
<1>5. ASSUME NEW i \in Applies
      PROVE  Framed(i)
    <2>1. Mine(i) \subseteq Paths
        BY AroundHolds DEF Around, Mine
    <2>2. Mine(i) \cap {CopyOf(j), Snapshot, Staged} = {}
        <3>1. CopyOf(i) # CopyOf(j)
            BY <1>0 DEF CopyOf
        <3>2. CopyOf(j) \notin {SwapOf(i), OldOf(i), RollbackOf(i), RollbackOldOf(i)}
            BY DEF CopyOf, SwapOf, OldOf, RollbackOf, RollbackOldOf
        <3>3. Mine(i) \cap {Snapshot, Staged} = {}
            BY DEF Mine, Snapshot, Staged, CopyOf, SwapOf, OldOf, RollbackOf, RollbackOldOf
        <3> QED BY <3>1, <3>2, <3>3 DEF Mine
    <2>3. \A p \in Mine(i) : files'[p] = files[p]
        BY <1>1, <2>1, <2>2 DEF Beside, Touches
    <2>4. Exists(SwapOf(i))' <=> Exists(SwapOf(i))
        BY <2>3 DEF Mine, Exists
    <2>5. Goes(i, pc[i], result[i]) /\ Still(i)
        BY <1>0, <1>2, PathsThere DEF Moves, Still, flags
    <2> QED BY <1>1, <1>2, <1>4, <2>3, <2>4, <2>5 DEF Framed, Beside, world
<1>6. (\A i \in Applies : JobInv(i)') /\ Where' /\ Owned'
    BY <1>2, <1>4, <1>5, AllFramed DEF world
<1>7. \A i \in Backups \cup Stagings : Copies(i)'
    <2>1. ASSUME NEW i \in (Backups \cup Stagings) \ {j}
          PROVE  Copies(i)'
        <3>1. CopyOf(i) \notin {CopyOf(j), Snapshot, Staged}
            BY DEF CopyOf, Snapshot, Staged
        <3>2. files'[CopyOf(i)] = files[CopyOf(i)]
            BY <1>1, <3>1, PathsThere DEF Beside, Touches
        <3> QED BY <1>1, <1>2, <3>2, PathsThere DEF RestoreInv, Copies, Moves, Goes, Exists, Beside
    <2> QED BY <1>1, <2>1 DEF Beside
<1>8. Steady
    BY <1>1, <1>4 DEF Steady, Beside, Exists
<1> QED BY <1>1, <1>3, <1>6, <1>7, <1>8 DEF RestoreInv, Beside

\* A job that dies leaves its files as they are.
LEMMA CrashStep ==
    ASSUME RestoreInv, NEW j \in Jobs, Crash(j)
    PROVE  RestoreInv' /\ Steady
<1>0. Filed /\ Typed /\ Places /\ Owned /\ Where /\ Sealed /\ MaxCrashes \in Nat
    BY TypeParts, RestoreAssumption DEF RestoreInv, Typed
<1>1. /\ pc'[j] = "ended" /\ result'[j] = "died" /\ pc[j] \notin {"begin", "ended"}
      /\ \A i \in Jobs \ {j} : Goes(i, pc[i], result[i])
      /\ Places'
    BY <1>0 DEF Crash, Places, Goes, Outcomes, Labels
<1>2. Apart /\ (\A i \in Applies : Still(i)) /\ files' = files /\ UNCHANGED staged
    BY DEF Crash, Apart, Still, flags, world
<1>3. TypeOK'
    BY <1>0, <1>2 DEF Crash, TypeOK, Typed, Filed, flags, world
<1>4. ASSUME NEW i \in Applies, i # j
      PROVE  JobInv(i)' /\ (Away(i) => Away(i)') /\ (Stranded(i) => Stranded(i)')
    <2>1. Framed(i)
        BY <1>1, <1>2, <1>4, PathsThere DEF Framed, Apart, Exists
    <2> QED BY <1>0, <2>1, FramedKeeps DEF RestoreInv
<1>5. ASSUME j \in Applies
      PROVE  JobInv(j)' /\ (Away(j) => Away(j)') /\ (Stranded(j) => Stranded(j)')
    <2>1. JobInv(j) /\ Still(j)
        BY <1>2, <1>5 DEF RestoreInv
    <2>2. Owns(j)' /\ Seen(j)'
        BY <1>1, <1>2, <2>1 DEF JobInv, Owns, Seen, Still, Apart, Own, Over, Exists,
           PastChecks, Kept, AfterSwap, Early
    <2>3. OwnTemps(j)' /\ Swapping(j)'
        BY <1>1, <1>2, <2>1 DEF JobInv, OwnTemps, Swapping, Still, Apart, Over, Exists, Home
    <2>4. (Away(j) => Away(j)') /\ (Stranded(j) => Stranded(j)')
        BY <1>1, <1>2 DEF Over, Away, Stranded, Own, Exists, Apart
    <2> QED BY <2>2, <2>3, <2>4 DEF JobInv
<1>6. (\A i \in Applies : JobInv(i)') /\ Where'
    BY <1>0, <1>2, <1>4, <1>5, WhereStays DEF Apart
<1>7. Owned' /\ Sealed' /\ Steady
    BY <1>0, <1>2 DEF Owned, Own, Sealed, Steady, Exists, Apart
<1>8. \A i \in Backups \cup Stagings : Copies(i)'
    BY <1>1, <1>2, PathsThere DEF RestoreInv, Copies, Goes, Exists, Apart
<1> QED BY <1>1, <1>3, <1>6, <1>7, <1>8 DEF RestoreInv

\* A write is the latest data, under its own name; when a swap is on its way, it races.
LEMMA WriteStep ==
    ASSUME RestoreInv, Write
    PROVE  RestoreInv' /\ Steady
<1>0. Filed /\ Typed /\ Places /\ Owned /\ Sealed /\ {MaxWrites, MaxFaults, MaxCrashes} \subseteq Nat
    BY TypeParts, RestoreAssumption DEF RestoreInv, Typed
<1>w. writes < MaxWrites /\ writes' = writes + 1 /\ writes \in Nat /\ MaxWrites \in Nat
    BY <1>0 DEF Write, Typed
<1>1. /\ Exists(Current) /\ writes' \in 0 .. MaxWrites
      /\ \A j \in Applies : result[j] # "applied"
      /\ ~raced' => ~raced /\ PastChecks = {}
      /\ raced' \in BOOLEAN
      /\ UNCHANGED <<manifest, staged, pc, flags, result, litter, faults, crashes>>
    <2>1. writes' \in 0 .. MaxWrites
        BY <1>w
    <2>2. raced' \in BOOLEAN /\ (~raced' => ~raced /\ PastChecks = {})
        BY <1>0 DEF Write, Typed
    <2> QED BY <2>1, <2>2 DEF Write
<1>2. files[Current] \in File
    BY <1>0, <1>1, FileThere, PathsThere
<1>3. writes' \in Data
    BY <1>1 DEF Data
<1>4. /\ files' = [files EXCEPT ![Current] = [files[Current] EXCEPT !.data = writes']]
    BY DEF Write
<1>5. [files[Current] EXCEPT !.data = writes'] \in File
    BY <1>2, <1>3 DEF File
<1>6. /\ Filed' /\ Touches({Current}) /\ files'[Current] = [files[Current] EXCEPT !.data = writes']
    BY <1>0, <1>4, <1>5, PathsThere DEF Filed, Touches
<1>7. Exists(Current)' /\ files'[Current].data = writes'
    BY <1>2, <1>5, <1>6, NoneAssumption DEF Exists, File
<1>8. TypeOK' /\ Places'
    BY <1>0, <1>1, <1>6 DEF TypeOK, Typed, Filed, Places, flags
<1>9. Where'
    BY <1>7 DEF Where, Home
<1>10. ASSUME NEW j \in Applies
       PROVE  JobInv(j)'
    <2>1. JobInv(j) /\ Around(j)
        BY AroundHolds DEF RestoreInv
    <2>2. /\ files'[Previous] = files[Previous] /\ files'[CopyOf(j)] = files[CopyOf(j)]
          /\ files'[SwapOf(j)] = files[SwapOf(j)] /\ files'[OldOf(j)] = files[OldOf(j)]
          /\ files'[RollbackOf(j)] = files[RollbackOf(j)]
          /\ files'[RollbackOldOf(j)] = files[RollbackOldOf(j)]
        BY <1>6, <2>1 DEF Touches, Around
    <2>3. Still(j)
        BY <1>1 DEF Still, flags
    <2>4. Owns(j)' /\ Seen(j)'
        BY <1>1, <2>1, <2>2, <2>3 DEF JobInv, Owns, Seen, Still, Own, Over, Exists,
           PastChecks, Kept, AfterSwap, Early
    <2>5. OwnTemps(j)'
        BY <1>1, <2>1, <2>2, <2>3 DEF JobInv, OwnTemps, Still, Over, Exists
    <2>6. Swapping(j)'
        <3>1. pc[j] \in {"install", "back"} => FALSE
            BY <1>1, <2>1 DEF JobInv, Swapping
        <3> QED BY <1>1, <1>7, <3>1 DEF Swapping, Home
    <2> QED BY <2>4, <2>5, <2>6 DEF JobInv
<1>11. /\ files'[Previous] = files[Previous] /\ files'[Snapshot] = files[Snapshot]
       /\ files'[Staged] = files[Staged]
       /\ \A j \in Backups \cup Stagings : files'[CopyOf(j)] = files[CopyOf(j)]
    <2>1. /\ Current \notin {Previous, Snapshot, Staged}
          /\ \A j : CopyOf(j) # Current
        BY DEF Current, Previous, Snapshot, Staged, CopyOf
    <2> QED BY <1>6, <2>1, PathsThere DEF Touches
<1>12. Owned' /\ Sealed' /\ Steady
    BY <1>0, <1>1, <1>11, OwnedStays DEF Sealed, Steady, Exists
<1>13. \A j \in Backups \cup Stagings : Copies(j)'
    BY <1>1, <1>11 DEF RestoreInv, Copies, Exists
<1> QED BY <1>8, <1>9, <1>10, <1>12, <1>13 DEF RestoreInv

\* A damaged file is still the same file, and none of those an apply job relies on.
LEMMA DamageStep ==
    ASSUME RestoreInv, Damage
    PROVE  RestoreInv' /\ Steady
<1>0. Filed /\ Typed /\ Places /\ Owned /\ Sealed /\ {MaxWrites, MaxFaults, MaxCrashes} \subseteq Nat
    BY TypeParts, RestoreAssumption DEF RestoreInv, Typed
<1>1. PICK p \in {Snapshot, Staged} \cup {SwapOf(j) : j \in Applies} :
          Exists(p) /\ files' = [files EXCEPT ![p] = [files[p] EXCEPT !.data = Bad]]
    BY DEF Damage
<1>2. p \in Paths
    BY <1>1, PathsThere
<1>3. files[p] \in File /\ Bad \in Data
    BY <1>0, <1>1, <1>2, FileThere DEF Data
<1>4. [files[p] EXCEPT !.data = Bad] \in File
    BY <1>3 DEF File
<1>5. /\ Filed' /\ Touches({p}) /\ files'[p] = [files[p] EXCEPT !.data = Bad]
    BY <1>0, <1>1, <1>2, <1>4 DEF Filed, Touches
<1>6. Exists(p)' /\ files'[p].ino = files[p].ino
    BY <1>3, <1>4, <1>5, NoneAssumption DEF Exists, File
<1>7. faults' \in 0 .. MaxFaults /\ UNCHANGED <<manifest, staged, pc, flags, result, world, litter, crashes>>
    BY <1>0 DEF Damage, Fault, Typed
<1>8. TypeOK' /\ Places'
    BY <1>0, <1>5, <1>7 DEF TypeOK, Typed, Filed, Places, flags, world
<1>9. p \notin {Current, Previous} /\ \A j : p \notin {CopyOf(j), OldOf(j), RollbackOf(j), RollbackOldOf(j)}
    <2>1. CASE p \in {Snapshot, Staged}
        BY <2>1 DEF Current, Previous, Snapshot, Staged, CopyOf, OldOf, RollbackOf, RollbackOldOf
    <2>2. CASE \E i \in Applies : p = SwapOf(i)
        BY <2>2 DEF Current, Previous, SwapOf, CopyOf, OldOf, RollbackOf, RollbackOldOf
    <2> QED BY <1>1, <2>1, <2>2
<1>10. files'[Current] = files[Current] /\ files'[Previous] = files[Previous]
    BY <1>5, <1>9, PathsThere DEF Touches
<1>11. \A q \in Paths : Exists(q)' <=> Exists(q)
    BY <1>1, <1>5, <1>6 DEF Touches, Exists
<1>12. ASSUME NEW i \in Applies
       PROVE  Framed(i)
    <2>1. \A q \in Mine(i) \ {SwapOf(i)} : files'[q] = files[q]
        BY <1>5, <1>9, PathsThere DEF Mine, Touches
    <2>2. Exists(SwapOf(i))' <=> Exists(SwapOf(i))
        BY <1>11, PathsThere
    <2> QED BY <1>7, <1>10, <2>1, <2>2 DEF Framed, Goes, Still, flags, world
<1>13. (\A i \in Applies : JobInv(i)') /\ Where' /\ Owned'
    BY <1>7, <1>10, <1>12, AllFramed DEF world
<1>14. Sealed'
    BY <1>0, <1>7, <1>11, PathsThere DEF Sealed
<1>15. \A j \in Backups \cup Stagings : Copies(j)'
    BY <1>7, <1>11, PathsThere DEF RestoreInv, Copies
<1>16. Steady
    BY <1>5, <1>6, PathsThere DEF Steady, Touches, Exists
<1> QED BY <1>8, <1>13, <1>14, <1>15, <1>16 DEF RestoreInv

\* The invariant holds at the start.
LEMMA InitInv ==
    ASSUME Init
    PROVE  RestoreInv
<1>0. {MaxWrites, MaxFaults, MaxCrashes} \subseteq Nat
    BY RestoreAssumption
<1>1. [data |-> 0, ino |-> Current] \in File /\ 0 \in Data
    BY <1>0, PathsThere DEF File, Data
<1>2. /\ files[Current] = [data |-> 0, ino |-> Current]
      /\ \A p \in Paths : p # Current => ~Exists(p)
      /\ Filed
    BY <1>1, PathsThere DEF Init, Filed, Exists
<1>3. TypeOK /\ Places
    <2>1. Places
        BY DEF Init, Places, Labels
    <2>2. manifest \in Data \cup {None} /\ manifest # Bad
        BY <1>0, NoneAssumption DEF Init, Data
    <2>3. seen \in [Applies -> File \cup {None}]
        BY DEF Init
    <2>4. /\ staged \in BOOLEAN /\ raced \in BOOLEAN /\ made \subseteq Applies /\ swapped \subseteq Applies
          /\ writes \in 0 .. MaxWrites /\ faults \in 0 .. MaxFaults /\ crashes \in 0 .. MaxCrashes
          /\ litter \subseteq Paths
        <3>1. litter = {} /\ writes = 0 /\ faults = 0 /\ crashes = 0 /\ staged = FALSE
              /\ raced = FALSE /\ made = {} /\ swapped = {}
            BY DEF Init
        <3>2. 0 \in 0 .. MaxWrites /\ 0 \in 0 .. MaxFaults /\ 0 \in 0 .. MaxCrashes
            BY <1>0
        <3> QED BY <3>1, <3>2
    <2> QED BY <1>2, <2>1, <2>2, <2>3, <2>4 DEF TypeOK, Filed
<1>4. Exists(Current) /\ ~Exists(Previous)
    BY <1>1, <1>2, PathsThere, NoneAssumption DEF Exists, Current, Previous
<1>5. ASSUME NEW j \in Applies
      PROVE  JobInv(j)
    <2>1. Around(j) /\ j \in Jobs
        BY AroundHolds DEF Around
    <2>2. /\ ~Exists(CopyOf(j)) /\ ~Exists(SwapOf(j)) /\ ~Exists(OldOf(j))
          /\ ~Exists(RollbackOf(j)) /\ ~Exists(RollbackOldOf(j))
        BY <1>2, <2>1 DEF Around
    <2>3. pc[j] = "begin" /\ result[j] = None /\ j \notin made /\ j \notin swapped
        BY <2>1 DEF Init
    <2>4. result[j] \notin {"applied", "manual", "died", "stranded"}
        BY <2>3, NoneAssumption DEF Outcomes
    <2> QED BY <1>4, <2>2, <2>3, <2>4 DEF JobInv, Owns, Seen, OwnTemps, Swapping, Own, Over,
           PastChecks, Kept, AfterSwap, Early
<1>6. Where
    BY <1>2, <1>4 DEF Init, Where, Home
<1>7. \A j \in Backups \cup Stagings : Copies(j)
    <2>1. \A j : CopyOf(j) # Current
        BY DEF CopyOf, Current
    <2> QED BY <1>2, <2>1, PathsThere DEF Init, Copies
<1>8. Owned /\ Sealed
    BY <1>4 DEF Init, Owned, Sealed
<1> QED BY <1>3, <1>5, <1>6, <1>7, <1>8 DEF RestoreInv

\* A step of the specification keeps the invariant and replaces no kept file.
LEMMA NextStep ==
    ASSUME RestoreInv, [Next]_vars
    PROVE  RestoreInv' /\ Steady
<1>1. CASE \E j \in Backups : Backup(j)
    BY <1>1, SideStep
<1>2. CASE \E j \in Stagings : Stage(j)
    BY <1>2, SideStep
<1>3. CASE \E j \in Applies : Apply(j)
    BY <1>3, ApplyStep
<1>4. CASE \E j \in Jobs : Crash(j)
    BY <1>4, CrashStep
<1>5. CASE Write
    BY <1>5, WriteStep
<1>6. CASE Damage
    BY <1>6, DamageStep
<1>7. CASE UNCHANGED vars
    <2>1. Steady
        BY <1>7 DEF vars, Steady, Exists
    <2>2. TypeOK' /\ Places' /\ Owned' /\ Sealed' /\ \A j \in Backups \cup Stagings : Copies(j)'
        BY <1>7 DEF RestoreInv, vars, flags, world, TypeOK, Places, Owned, Own, Sealed, Copies, Exists
    <2>3. \A i \in Applies : Framed(i)
        BY <1>7 DEF vars, flags, world, Framed, Goes, Still, Exists
    <2>4. (\A i \in Applies : JobInv(i)') /\ Where'
        BY <1>7, <2>3, AllFramed DEF vars, world
    <2> QED BY <2>1, <2>2, <2>4 DEF RestoreInv
<1> QED BY <1>1, <1>2, <1>3, <1>4, <1>5, <1>6, <1>7 DEF Next

-----------------------------------------------------------------------------
(* Theorems *)

\* What create(), stage() and apply() count on holds in every state, for any number of
\* jobs, writes, faults and crashes: who owns previous, what each temporary file holds,
\* and where the latest data is.
THEOREM RestoreInductive == Spec => []RestoreInv
<1>1. Init => RestoreInv
    BY InitInv
<1>2. RestoreInv /\ [Next]_vars => RestoreInv'
    BY NextStep
<1> QED BY <1>1, <1>2, PTL DEF Spec

\* The latest data of the daemon is in some file, whatever failed, died or interleaved,
\* unless a write raced with the swap or a failed swap could not be undone: apply() and
\* its rollback never remove the last copy.
THEOREM RestoreLosesNothing == Spec => []LatestSurvives
<1>1. RestoreInv => LatestSurvives
    <2> SUFFICES ASSUME RestoreInv, ~raced, \A j \in Applies : result[j] # "stranded"
                 PROVE  \E p \in Paths \ ({Snapshot, Staged} \cup {SwapOf(j) : j \in Applies}) :
                            Exists(p) /\ files[p].data = writes
        BY DEF LatestSurvives
    <2>1. {Current, Previous} \cap ({Snapshot, Staged} \cup {SwapOf(j) : j \in Applies}) = {}
        BY DEF Current, Previous, Snapshot, Staged, SwapOf
    <2>2. CASE Home
        BY <2>1, <2>2, PathsThere DEF Home
    <2>3. CASE \E j \in Applies : Away(j)
        BY <2>1, <2>3, PathsThere DEF Away, Own
    <2>4. CASE \E j \in Applies : Stranded(j)
        <3>1. PICK j \in Applies : Exists(OldOf(j)) /\ files[OldOf(j)].data = writes
            BY <2>4 DEF Stranded
        <3>2. OldOf(j) \notin {Snapshot, Staged} \cup {SwapOf(i) : i \in Applies}
            BY DEF OldOf, Snapshot, Staged, SwapOf
        <3> QED BY <3>1, <3>2, PathsThere
    <2> QED BY <2>2, <2>3, <2>4 DEF RestoreInv, Where
<1> QED BY <1>1, RestoreInductive, PTL

\* When all jobs are over and none died or needs a hand, a restore was applied whole,
\* with the data before it as previous, or nothing has changed; a temporary file or the
\* previous of a job that failed is left only if its removal failed: the catch and finally
\* blocks of apply(), stage() and create(), which ignore that.
THEOREM RestoreIsWhole == Spec => []EndsWhole
<1>1. RestoreInv => EndsWhole
    <2> SUFFICES ASSUME RestoreInv,
                        \A j \in Jobs : pc[j] \in {"begin", "ended"},
                        \A j \in Jobs : result[j] \notin {"died", "manual", "stranded"},
                        ~raced
                 PROVE  /\ \A p \in Temps : Exists(p) => p \in litter
                        /\ IF \E j \in Applies : result[j] = "applied"
                           THEN files[Current].data = manifest /\ files[Previous].data = writes
                           ELSE files[Current].data = writes /\ (Exists(Previous) => Previous \in litter)
        BY DEF EndsWhole, RestoreInv
    <2>1. ASSUME NEW j \in Applies, NEW p \in Mine(j), Exists(p)
          PROVE  p \in litter
        BY <2>1, PathsThere DEF RestoreInv, JobInv, OwnTemps, Over, Mine
    <2>2. ASSUME NEW j \in Jobs, Exists(CopyOf(j))
          PROVE  CopyOf(j) \in litter
        <3>1. CASE j \in Applies
            BY <2>1, <2>2, <3>1 DEF Mine
        <3>2. CASE j \in Backups \cup Stagings
            BY <2>2, <3>2 DEF RestoreInv, Copies
        <3> QED BY <3>1, <3>2 DEF Jobs
    <2>3. \A p \in Temps : Exists(p) => p \in litter
        <3>1. ASSUME NEW p \in Temps
              PROVE  \/ \E j \in Jobs : p = CopyOf(j)
                     \/ \E j \in Applies : p \in Mine(j)
            BY DEF Temps, Mine, CopyOf, SwapOf, OldOf, RollbackOf, RollbackOldOf
        <3> QED BY <2>1, <2>2, <3>1
    <2>4. CASE \E j \in Applies : result[j] = "applied"
        <3>1. PICK j \in Applies : result[j] = "applied"
            BY <2>4
        <3>2. JobInv(j) /\ pc[j] \in {"begin", "ended"}
            BY PathsThere DEF RestoreInv
        <3>3. Own(j)
            BY <3>1, <3>2 DEF JobInv, Owns, Swapping
        <3> QED BY <2>3, <2>4, <3>1, <3>2, <3>3 DEF JobInv, Seen, Swapping
    <2>5. CASE ~\E j \in Applies : result[j] = "applied"
        <3>1. ASSUME NEW j \in Applies
              PROVE  (Own(j) => Previous \in litter) /\ ~Away(j) /\ ~Stranded(j)
            <4>1. /\ JobInv(j) /\ pc[j] \in {"begin", "ended"}
                  /\ result[j] \notin {"died", "manual", "stranded", "applied"}
                BY <2>5, PathsThere DEF RestoreInv
            <4>2. ~Stranded(j)
                BY <4>1 DEF Stranded
            <4>3. Own(j) => Previous \in litter
                BY <4>1 DEF JobInv, Owns, Over, Kept, AfterSwap
            <4>4. ~Away(j)
                BY <4>1 DEF JobInv, Owns, Away, Over, Early
            <4> QED BY <4>2, <4>3, <4>4
        <3> QED BY <2>3, <2>5, <3>1 DEF RestoreInv, Owned, Where, Home
    <2> QED BY <2>3, <2>4, <2>5
<1> QED BY <1>1, RestoreInductive, PTL

\* No step replaces a snapshot, a staged copy or a previous database by another file: each
\* is committed by link(), which fails if the name is taken.  Nor does one remove them, but
\* the job that made a previous, which takes it away as it undoes its work.
THEOREM RestoreReplacesNothing == Spec => NeverReplaced
<1>1. RestoreInv /\ [Next]_vars =>
        [\A p \in {Snapshot, Staged, Previous} :
            Exists(p) =>
              \/ files'[p] # None /\ files'[p].ino = files[p].ino
              \/ /\ p = Previous /\ files'[p] = None
                 /\ \E j \in made : files[p].ino = CopyOf(j) /\ pc[j] \in {"undo", "forget"}]_vars
    BY NextStep DEF Steady
<1> QED BY <1>1, RestoreInductive, PTL DEF Spec, NeverReplaced

=============================================================================
