----------------------------- MODULE BackupQueue -----------------------------
(***************************************************************************)
(* /usr/bin/backup, as cron and "BackupNow" start it for one backup id:    *)
(* exclusive() queues the runs behind a pid file that is only touched      *)
(* inside a lock directory, do_backup() makes a dated copy, moves the link *)
(* "current" to it and removes the oldest.  The status page also removes   *)
(* the pid file, without the lock, when its process is gone.  rsync or cp  *)
(* is a child that outlives a killed run, and nothing knows of it then.    *)
(***************************************************************************)
EXTENDS Integers, FiniteSets

CONSTANTS
    Runs,        \* runs of the script
    None,        \* no pid file
    nlogs,       \* "Rotate", the number of backups kept; 0 keeps all
    Mirror,      \* 1 for FTP and HTTP: there is a directory "mirror" too
    MaxFails, MaxKills, MaxPages     \* bounds

ASSUME BackupAssumption ==
    /\ None \notin Runs /\ IsFiniteSet(Runs)
    /\ nlogs \in Nat /\ Mirror \in {0, 1}
    /\ {MaxFails, MaxKills, MaxPages} \subseteq Nat

VARIABLES
    pc,
    lock,        \* LOCKFILE exists
    pid,         \* what PIDFILE says
    dirs,        \* by date, the backup of that date
    date,        \* of each run
    current,     \* the date "current" points to, 0 if that is missing
    tries,       \* removals clean_logs() still wants, by run
    reused,      \* another program has the pid in PIDFILE, of a run that is gone
    page,        \* the status page has found the process of PIDFILE gone
    fails, kills, pages,
    robbed,      \* history: it removed the pid file of a process that runs
    strays       \* history: since the last clean_logs() began, or as it began,
                 \* the copy of a killed run went on

queue == <<lock, pid, reused>>
store == <<dirs, date, current, tries>>
bounds == <<fails, kills, pages>>
past == <<robbed, strays>>
vars == <<pc, queue, store, page, bounds, past>>

Dates == 1..Cardinality(Runs)
Made == {d \in Dates : dirs[d] # "no"}
Busy == {"go", "copy", "unlink", "link", "count", "clean", "leave"}
InLock == {"held", "mine", "out", "left"}
Ended == {"done", "orphan", "dead"}

(* The backups so far, the newest of them, and the copies of killed runs.  *)
Last == Cardinality({p \in Runs : date[p] # 0})
Orphans == {p \in Runs : pc[p] = "orphan"}

TypeOK ==
    /\ pc \in [Runs -> {"new", "lock", "asleep"} \cup Busy \cup InLock \cup Ended]
    /\ lock \in {0, 1} /\ pid \in Runs \cup {None}
    /\ dirs \in [Dates -> {"no", "part", "torn", "good"}]
    /\ date \in [Runs -> {0} \cup Dates] /\ current \in {0} \cup Made
    /\ tries \in [Runs -> Nat]
    /\ {reused, page, robbed, strays} \subseteq {0, 1}

Init ==
    /\ pc = [p \in Runs |-> "new"] /\ lock = 0 /\ pid = None
    /\ dirs = [d \in Dates |-> "no"] /\ date = [p \in Runs |-> 0] /\ current = 0
    /\ tries = [p \in Runs |-> 0]
    /\ reused = 0 /\ page = 0 /\ robbed = 0 /\ strays = 0
    /\ fails = MaxFails /\ kills = MaxKills /\ pages = MaxPages

Go(p, from, to) == pc[p] = from /\ pc' = [pc EXCEPT ![p] = to]
Alive(p) == p \in Runs /\ pc[p] \notin {"new"} \cup Ended

-----------------------------------------------------------------------------
(* exclusive().                                                            *)

Start(p) == Go(p, "new", "lock") /\ UNCHANGED <<queue, store, page, bounds, past>>

NobodyHolds == lock = 0

(* lock()                                                                  *)
Lock(p, from, to) ==
    /\ Go(p, from, to)
    /\ NobodyHolds /\ lock' = lock + 1
    /\ UNCHANGED <<pid, reused, store, page, bounds, past>>

(* unlock()                                                                *)
Unlock(p, from, to) ==
    /\ Go(p, from, to)
    /\ lock' = 0
    /\ UNCHANGED <<pid, reused, store, page, bounds, past>>

(* Mutants: that the file exists is enough; nobody looks at the file.       *)
TakenByFile == pid # None
TakenNever == FALSE

(* kill -0                                                                 *)
Taken == Alive(pid) \/ reused = 1

Queued(p) == Taken /\ Unlock(p, "held", "asleep")

Claim(p) ==
    /\ ~Taken /\ Go(p, "held", "mine")
    /\ pid' = p /\ reused' = 0
    /\ UNCHANGED <<lock, store, page, bounds, past>>

Enter(p) == Lock(p, "lock", "held") \/ Lock(p, "asleep", "held") \/ Queued(p)
            \/ Claim(p) \/ Unlock(p, "mine", "go")

-----------------------------------------------------------------------------
(* do_backup().                                                            *)

(* The clock: later than all dates there have been.                        *)
Today == Last + 1

(* A source or a host that is not there ends the run before do_backup().   *)
Prepare(p) ==
    /\ \/ /\ Go(p, "go", "copy")
          /\ date' = [date EXCEPT ![p] = Today]
          /\ dirs' = [dirs EXCEPT ![Today] = "part"]
          /\ UNCHANGED fails
       \/ /\ Go(p, "go", "leave")
          /\ fails > 0 /\ fails' = fails - 1
          /\ UNCHANGED <<date, dirs>>
    /\ UNCHANGED <<queue, current, tries, page, kills, pages, past>>

(* rsync or cp; "An error occurred, continuing anyway".                    *)
Copy(p) ==
    /\ Go(p, "copy", IF current = 0 THEN "link" ELSE "unlink")
    /\ \/ dirs' = [dirs EXCEPT ![date[p]] = "good"] /\ UNCHANGED fails
       \/ fails > 0 /\ fails' = fails - 1 /\ UNCHANGED dirs
    /\ UNCHANGED <<queue, date, current, tries, page, kills, pages, past>>

Unlink(p) ==
    /\ Go(p, "unlink", "link") /\ current' = 0
    /\ UNCHANGED <<queue, dirs, date, tries, page, bounds, past>>

(* Where a link is, ln makes the new one inside the directory it points to.*)
Link(p) ==
    /\ Go(p, "link", IF nlogs > 0 THEN "count" ELSE "leave")
    /\ current' = IF current = 0 /\ date[p] \in Made THEN date[p] ELSE current
    /\ UNCHANGED <<queue, dirs, date, tries, page, bounds, past>>

(* Mutants: the directory itself, which find lists too, is not taken off;  *)
(* it is taken off twice, before the loop and in its test.                 *)
SurplusSelf == Cardinality(Made) + Mirror + 1 - nlogs
SurplusLess == Cardinality(Made) + Mirror - 1 - nlogs

(* clean_logs(): it counts all directories, and removes dated ones.        *)
Surplus == Cardinality(Made) + Mirror - nlogs

Count(p) ==
    /\ Go(p, "count", "clean")
    /\ tries' = [tries EXCEPT ![p] = IF Surplus > 0 THEN Surplus ELSE 0]
    /\ strays' = IF Orphans = {} THEN 0 ELSE 1
    /\ UNCHANGED <<queue, dirs, date, current, page, bounds, robbed>>

Oldest(d) == d \in Made /\ \A e \in Made : d <= e

(* rm -rf, and a directory that a copy goes on filling may be there still. *)
RemoveOldest(p) ==
    /\ Go(p, "clean", "clean") /\ tries[p] > 0
    /\ tries' = [tries EXCEPT ![p] = tries[p] - 1]
    /\ IF Made = {} THEN UNCHANGED <<dirs, current>>
       ELSE \E d \in Made :
            /\ Oldest(d)
            /\ \/ /\ dirs' = [dirs EXCEPT ![d] = "no"]
                  /\ current' = IF current = d THEN 0 ELSE current
               \/ /\ \E q \in Runs : date[q] = d /\ pc[q] \in {"copy", "orphan"}
                  /\ dirs' = [dirs EXCEPT ![d] = "torn"]
                  /\ UNCHANGED current
    /\ UNCHANGED <<queue, date, page, bounds, past>>

Cleaned(p) ==
    /\ Go(p, "clean", "leave") /\ tries[p] = 0
    /\ UNCHANGED <<queue, store, page, bounds, past>>

Clean(p) == Count(p) \/ RemoveOldest(p) \/ Cleaned(p)

DoBackup(p) == Prepare(p) \/ Copy(p) \/ Unlink(p) \/ Link(p) \/ Clean(p)

-----------------------------------------------------------------------------
(* cleanup(), whosever pid the file holds.                                 *)

RemovePid(p) ==
    /\ Go(p, "out", "left")
    /\ pid' = None /\ reused' = 0
    /\ UNCHANGED <<lock, store, page, bounds, past>>

Cleanup(p) == Lock(p, "leave", "out") \/ RemovePid(p) \/ Unlock(p, "left", "done")

(* rsync or cp goes on without the run; its directory may be whole in the  *)
(* end, unless rm went over it, and even if rm came before it had begun.   *)
Kill(p) ==
    /\ Alive(p) /\ kills > 0 /\ kills' = kills - 1
    /\ pc' = [pc EXCEPT ![p] = IF pc[p] = "copy" THEN "orphan" ELSE "dead"]
    /\ tries' = [tries EXCEPT ![p] = 0]
    /\ strays' = IF pc[p] = "copy" THEN 1 ELSE strays
    /\ UNCHANGED <<queue, dirs, date, current, page, fails, pages, robbed>>

OrphanEnds(p) ==
    /\ Go(p, "orphan", "dead")
    /\ \/ dirs[date[p]] # "torn" /\ dirs' = [dirs EXCEPT ![date[p]] = "good"]
       \/ dirs[date[p]] = "no" /\ dirs' = [dirs EXCEPT ![date[p]] = "part"]
       \/ UNCHANGED dirs
    /\ UNCHANGED <<queue, date, current, tries, page, bounds, past>>

(* Any program may get the pid of a run that is gone, and keep it or not.  *)
Reuse ==
    /\ pid # None /\ ~Alive(pid) /\ reused' = 1 - reused
    /\ UNCHANGED <<pc, lock, pid, store, page, bounds, past>>

(* status.cgi: backup_st().                                                *)
PageLooks ==
    /\ page = 0 /\ pages > 0 /\ pages' = pages - 1
    /\ pid # None /\ ~Taken
    /\ page' = 1
    /\ UNCHANGED <<pc, queue, store, fails, kills, past>>

PageRemoves ==
    /\ page = 1 /\ page' = 0
    /\ pid' = None /\ reused' = 0
    /\ robbed' = IF Alive(pid) THEN 1 ELSE robbed
    /\ UNCHANGED <<pc, lock, store, bounds, strays>>

Step(p) == Enter(p) \/ DoBackup(p) \/ Cleanup(p)
Next ==
    \/ PageLooks \/ PageRemoves \/ Reuse
    \/ \E p \in Runs : Start(p) \/ Step(p) \/ Kill(p) \/ OrphanEnds(p)

Spec == Init /\ [][Next]_vars

(* A run goes on, and one that tries every few seconds at last finds the   *)
(* lock free, which is held for a moment only.  Strong fairness matters    *)
(* for lock() alone: the other steps stay enabled until they are taken.    *)
FairSpec == Spec /\ \A p \in Runs : SF_vars(Step(p))

-----------------------------------------------------------------------------
(* exclusive(): one run at a time, whoever was killed and wherever, unless *)
(* the status page removed the pid file of a run that had just come.  So   *)
(* two copies go on at once only if one of them is of a run killed in it:  *)
(* that one is not waited for, however long it takes.                      *)
OneBackup == robbed = 0 => Cardinality({p \in Runs : pc[p] \in Busy}) <= 1

(* backup_hlp.html:66  "Rotate is the number of backups kept, with the     *)
(* oldest being deleted after a new one is made": when a run is done with  *)
(* the copies, the newest ones are there, as many as Rotate says, and      *)
(* nothing else is, unless the copy of a killed run went on then or since  *)
(* and its directory was in the way.  "mirror" is counted as a backup.     *)
Kept == {d \in Dates : d <= Last /\ (nlogs = 0 \/ d > Last - (nlogs - Mirror))}
RotateKept ==
    robbed = 0 => \A p \in Runs : pc[p] = "leave" /\ date[p] # 0 =>
        Kept \subseteq Made /\ (nlogs = 0 \/ strays = 0 => Made = Kept)

(* "a special file named current that refers to the last backup done": it  *)
(* is the newest one from ln on, whatever was killed before, as long as    *)
(* that backup is there.                                                   *)
Linked == {"count", "clean", "leave", "out", "left", "done"}
CurrentIsLast ==
    robbed = 0 => \A p \in Runs : pc[p] \in Linked /\ date[p] = Last =>
        current = IF Last \in Made THEN Last ELSE 0

(* What the documentation says of the store.                               *)
StoreKept == TypeOK /\ RotateKept /\ CurrentIsLast

(* A whole copy is never given up for worse: failed and cut short copies   *)
(* count too and push the others out, but while there were fewer of them   *)
(* than nlogs no step leaves a store that had a whole copy without one.    *)
Bad == (MaxFails - fails) + (MaxKills - kills)
HasGood == \E d \in Made : dirs[d] = "good"
GoodKept ==
    [][robbed' = 0 /\ (nlogs = 0 \/ Bad' + Mirror < nlogs) => (HasGood => HasGood')]_vars

(* Nobody waits for ever behind a backup, but for two reasons: a run was   *)
(* killed with the lock in its hands, which nothing removes, or another    *)
(* program has got the pid that a killed run left in the pid file.         *)
Stuck == lock = 1 /\ \A p \in Runs : pc[p] \notin InLock
EveryRunEnds ==
    \A p \in Runs :
        pc[p] \in {"lock", "asleep"} ~> pc[p] \in Ended \/ Stuck \/ reused = 1
=============================================================================
