------------------------------ MODULE TempLock ------------------------------
(***************************************************************************)
(* The programs that share the temperature of a DNS-320: sysctrl, which    *)
(* keeps to one instance with a pid file, and dns320-temp.sh.  Both guard  *)
(* temp1_input with a directory, /var/lock/temp-lock, whose file "pid"     *)
(* names the holder; after a hundred tries a waiter looks at that file and *)
(* may take the lock over.  A process is its pid.                          *)
(***************************************************************************)
EXTENDS Integers, FiniteSets

CONSTANTS
    Sysctrls,    \* pids of the sysctrl processes that may be started
    Scripts,     \* pids of dns320-temp.sh
    Nobody,      \* no pid
    Tries,       \* attempts before the owner is looked at: 100
    MaxKills,    \* processes that may be killed
    MaxReuse,    \* pids of dead processes that another program may get
    MaxSlow,     \* waits that may outlast a holder that is alive
    MaxForks     \* user scripts whose execl() fails

Procs == Sysctrls \cup Scripts

Absent == "absent"     \* no file; Nobody is an empty one

ASSUME TempLockAssumption ==
    /\ {Nobody, Absent} \cap Procs = {} /\ Nobody # Absent
    /\ Sysctrls \cap Scripts = {}
    /\ {Tries, MaxKills, MaxReuse, MaxSlow, MaxForks} \subseteq Nat

VARIABLES
    pc,          \* where each process is
    tries,       \* mkdir attempts left
    dir, owner,  \* the lock directory; what its file pid says
    run,         \* /var/run/sysctrl.pid: who created it, and what it says
    reused,      \* pids of dead processes that denote a living program
    kills, slow, forks,   \* bounds
    race,        \* history: the lock changed hands while it was examined
    crowd        \* history: two sysctrl processes were starting at once

bounds == <<kills, slow, forks>>
lock == <<tries, dir, owner, race>>
lvars == <<pc, lock, run, reused, bounds, crowd>>

Starting == {"open", "read", "unlink", "create", "write"}
Waiting == {"lock", "owner"}
Held == {"mine", "named", "in", "clear", "rmdir"}
Places == {"off", "idle", "gone", "exit", "locked"} \cup Starting \cup Waiting \cup Held

Runs(p) == pc[p] \notin {"off", "gone", "exit", "locked"}
Holding == {p \in Procs : pc[p] \in Held}

(* kill(p, 0): some process has that pid.                                  *)
Alive(p) == Runs(p) \/ p \in reused

LTypeOK ==
    /\ pc \in [Procs -> Places]
    /\ tries \in [Procs -> 0..Tries]
    /\ dir \in {0, 1}
    /\ owner \in Procs \cup {Nobody, Absent}
    /\ run \in [by : Procs \cup {Absent}, text : Procs \cup {Nobody}]
    /\ reused \subseteq Procs
    /\ kills \in 0..MaxKills /\ slow \in 0..MaxSlow /\ forks \in 0..MaxForks
    /\ race \in {0, 1} /\ crowd \in {0, 1}

LInit ==
    /\ pc = [p \in Procs |-> "off"]
    /\ tries = [p \in Procs |-> Tries]
    /\ dir = 0 /\ owner = Absent
    /\ run = [by |-> Absent, text |-> Nobody]
    /\ reused = {}
    /\ kills = MaxKills /\ slow = MaxSlow /\ forks = MaxForks
    /\ race = 0 /\ crowd = 0

Go(p, from, to) == pc[p] = from /\ pc' = [pc EXCEPT ![p] = to]

-----------------------------------------------------------------------------
(* check_other_daemon(); dns320-temp.sh has no such check.                 *)

Start(p) ==
    /\ Go(p, "off", IF p \in Sysctrls THEN "open" ELSE "idle")
    /\ crowd' = IF \E q \in Procs : pc[q] \in Starting THEN 1 ELSE crowd
    /\ UNCHANGED <<lock, run, reused, bounds>>

(* Mutant: the file is opened whether it exists or not.                    *)
CreateAny(p) == run' = [by |-> p, text |-> Nobody]

(* open(O_CREAT | O_EXCL).                                                 *)
Create(p) == run.by = Absent /\ run' = [by |-> p, text |-> Nobody]

Open(p) ==
    /\ \/ Go(p, "open", "write") /\ Create(p)
       \/ Go(p, "open", "read") /\ run.by # Absent /\ UNCHANGED run
    /\ UNCHANGED <<lock, reused, bounds, crowd>>

(* A file that says nothing, or names a process that is there: exit(1).    *)
ReadPid(p) ==
    /\ Go(p, "read", IF run.text = Nobody \/ Alive(run.text) THEN "exit" ELSE "unlink")
    /\ UNCHANGED <<lock, run, reused, bounds, crowd>>

(* unlink() of whatever is there by now.                                   *)
UnlinkPid(p) ==
    /\ Go(p, "unlink", "create")
    /\ run' = [by |-> Absent, text |-> Nobody]
    /\ UNCHANGED <<lock, reused, bounds, crowd>>

(* The second open(); if it fails, fprintf() to a null stream is the end.  *)
Reopen(p) ==
    /\ \/ Go(p, "create", "write") /\ Create(p)
       \/ Go(p, "create", "gone") /\ run.by # Absent /\ UNCHANGED run
    /\ UNCHANGED <<lock, reused, bounds, crowd>>

(* Into its own file, even if that has been unlinked.                      *)
WritePid(p) ==
    /\ Go(p, "write", "idle")
    /\ run' = IF run.by = p THEN [run EXCEPT !.text = p] ELSE run
    /\ UNCHANGED <<lock, reused, bounds, crowd>>

Check(p) == Open(p) \/ ReadPid(p) \/ UnlinkPid(p) \/ Reopen(p) \/ WritePid(p)

(* exec_userscript(): a child whose execl() fails goes on as a sysctrl.    *)
ExecFails(p, q) ==
    /\ pc[p] = "idle" /\ forks > 0 /\ forks' = forks - 1
    /\ Go(q, "off", "idle")
    /\ UNCHANGED <<lock, run, reused, kills, slow, crowd>>

-----------------------------------------------------------------------------
(* dolock(), clearlock(), and the same in write_temp().                    *)

Want(p) ==
    /\ Go(p, "idle", "lock")
    /\ tries' = [tries EXCEPT ![p] = Tries]
    /\ UNCHANGED <<dir, owner, run, race, reused, bounds, crowd>>

Mkdir(p) ==
    /\ Go(p, "lock", "mine")
    /\ dir = 0 /\ dir' = 1
    /\ UNCHANGED <<tries, owner, run, race, reused, bounds, crowd>>

(* Mutant: the tries are not counted.                                      *)
CountNot(p) == UNCHANGED tries

Count(p) == tries' = [tries EXCEPT ![p] = @ - 1]

Left(p) == tries[p] > 0

Retry(p) ==
    /\ pc[p] = "lock" /\ dir = 1 /\ Left(p)
    /\ Count(p)
    /\ UNCHANGED <<pc, dir, owner, run, race, reused, bounds, crowd>>

(* The last try.  A holder that is alive is done long before, or is slow.  *)
Exhaust(p) ==
    /\ Go(p, "lock", "owner") /\ dir = 1 /\ ~Left(p)
    /\ IF Holding = {} THEN UNCHANGED slow ELSE slow > 0 /\ slow' = slow - 1
    /\ UNCHANGED <<tries, dir, owner, run, race, reused, kills, forks, crowd>>

(* Mutants: a lock that names nobody is somebody else's; whoever is named  *)
(* is taken for dead.                                                      *)
FreeIfNamed(p) == owner \in Procs /\ (owner = p \/ ~Alive(owner))
FreeAlways(p) == TRUE

(* No readable pid, its own pid, or that of a process that is not there.   *)
Free(p) == owner \notin Procs \/ owner = p \/ ~Alive(owner)

(* The lock was released after the last try, or another process examines   *)
(* it too, or has it and has not, or no longer, its name in the file.      *)
Moved(p) == dir = 0 \/ \E q \in Procs \ {p} : pc[q] \in (Held \ {"in"}) \cup {"owner"}

Examine(p) ==
    /\ Go(p, "owner", IF Free(p) THEN "mine" ELSE "locked")
    /\ race' = IF Moved(p) THEN 1 ELSE race
    /\ UNCHANGED <<tries, dir, owner, run, reused, bounds, crowd>>

(* creat(), which fails quietly when the directory is gone.                *)
Creat(p) ==
    /\ Go(p, "mine", "named")
    /\ owner' = IF dir = 1 THEN Nobody ELSE owner
    /\ UNCHANGED <<tries, dir, run, race, reused, bounds, crowd>>

Name(p) ==
    /\ Go(p, "named", "in")
    /\ owner' = IF owner # Absent THEN p ELSE owner
    /\ UNCHANGED <<tries, dir, run, race, reused, bounds, crowd>>

(* temp1_input has been read or written.                                   *)
Leave(p) == Go(p, "in", "clear") /\ UNCHANGED <<lock, run, reused, bounds, crowd>>

Unlink(p) ==
    /\ Go(p, "clear", "rmdir")
    /\ owner' = Absent
    /\ UNCHANGED <<tries, dir, run, race, reused, bounds, crowd>>

(* rmdir(), which fails when a pid file has appeared.                      *)
Release(p) ==
    /\ Go(p, "rmdir", "idle")
    /\ dir' = IF owner = Absent THEN 0 ELSE dir
    /\ UNCHANGED <<tries, owner, run, race, reused, bounds, crowd>>

Lock(p) == Mkdir(p) \/ Retry(p) \/ Exhaust(p) \/ Examine(p)
Inside(p) == Creat(p) \/ Name(p) \/ Leave(p) \/ Unlink(p) \/ Release(p)

-----------------------------------------------------------------------------
Kill(p) ==
    /\ Runs(p) /\ kills > 0 /\ kills' = kills - 1
    /\ pc' = [pc EXCEPT ![p] = "gone"]
    /\ UNCHANGED <<lock, run, reused, slow, forks, crowd>>

(* The kernel gives the pid of a dead process to another program.          *)
Reuse(p) ==
    /\ pc[p] = "gone" /\ Cardinality(reused) < MaxReuse
    /\ reused' = reused \cup {p}
    /\ UNCHANGED <<pc, lock, run, bounds, crowd>>

Step(p) == Check(p) \/ Lock(p) \/ Inside(p)
LNext ==
    \E p \in Procs :
        \/ Start(p) \/ Want(p) \/ Step(p) \/ Kill(p) \/ Reuse(p)
        \/ p \in Sysctrls /\ \E q \in Sysctrls : ExecFails(p, q)

LSpec == LInit /\ [][LNext]_lvars

(* A process that is alive goes on; a wait that would outlast a living     *)
(* holder once too often is only put off, hence strong fairness.           *)
LFairSpec == LSpec /\ \A p \in Procs : WF_lvars(Check(p)) /\ SF_lvars(Lock(p)) /\ WF_lvars(Inside(p))

-----------------------------------------------------------------------------
(* dns320-temp.sh:38 "sysctrl is asynchronously reading the out file, set  *)
(* a lock": never two holders, whoever died with the lock, whosever pid    *)
(* was reused and however long a holder stays in, unless the lock changes  *)
(* hands between a last try and the look at the file.                      *)
Mutex == race = 0 => Cardinality(Holding) <= 1

(* A waiter gives up, and the box loses its fan control (dolock() ends in  *)
(* exit(1)), only because of a holder that is slow, a pid that was reused  *)
(* or a lock that changed hands.                                           *)
NoLockout ==
    slow = MaxSlow /\ reused = {} /\ race = 0 =>
        \A p \in Procs : pc[p] # "locked"

(* A lock whose holder died is taken over: a wait ends.                    *)
WaitEnds == \A p \in Procs : pc[p] = "lock" ~> pc[p] \notin Waiting

(* sysctrl.c:514 check_other_daemon(): no second sysctrl, unless two were  *)
(* starting at once or a user script could not be executed.                *)
Running == {p \in Sysctrls : pc[p] \in {"idle"} \cup Waiting \cup Held}
OneSysctrl == crowd = 0 /\ forks = MaxForks => Cardinality(Running) <= 1
=============================================================================
