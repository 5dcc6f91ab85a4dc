------------------------------ MODULE FsckQueue ------------------------------
(***************************************************************************)
(* hot_aux.sh, which hot.sh starts in the background for each partition    *)
(* that appears: one fsck at a time behind the directory /tmp/fsck_lock,   *)
(* then the mount.  A waiter cleans up after killed jobs and takes the     *)
(* lock over when it has seen no check-*.pid Limit times in a row.         *)
(***************************************************************************)
EXTENDS Integers, FiniteSets

CONSTANTS
    Jobs,        \* runs of hot_aux.sh
    Devs,        \* partitions
    MDEV,        \* the partition of a job; device-mapper repeats events
    Plain,       \* partitions whose fstype has no fsck command
    Boot,        \* may FSCK_FORCE be there at first: after a power cut it is
    Limit,       \* looks before a lock is taken for dangling: 5
    MaxKills     \* jobs that may be killed, with the fsck they run

ASSUME FsckAssumption ==
    /\ MDEV \in [Jobs -> Devs] /\ Plain \subseteq Devs
    /\ Boot \subseteq {0, 1}
    /\ Limit \in Nat \ {0} /\ MaxKills \in Nat
    /\ {"absent", "empty"} \cap Jobs = {}

VARIABLES
    pc, cnt,     \* of each job
    opt,         \* its fsck option; "due": it saw FSCK_FORCE while it waited
    lock,        \* FSCK_LCK exists
    pids,        \* check-$MDEV.pid of each partition
    waits,       \* the wait-$MDEV.pid files, by partition
    force,       \* FSCK_FORCE exists
    led,         \* trigger of the power LED
    mounted,
    kills,
    robbed       \* history: a job meddled with the lock of a live holder,
                 \* or took over a lock that had just been released

job == <<pc, cnt, opt>>
files == <<lock, pids, waits, force>>
vars == <<job, files, led, mounted, kills, robbed>>

Locked == {"mounted", "name", "write", "fsck", "led", "after", "mount", "rmdir"}
Ended == {"extra", "there", "done", "dead"}

TypeOK ==
    /\ pc \in [Jobs -> {"new", "lock", "look"} \cup Locked \cup Ended]
    /\ cnt \in [Jobs -> 0..Limit]
    /\ opt \in [Jobs -> {"-p", "due", "-fp"}]
    /\ lock \in {0, 1} /\ force \in {0, 1} /\ led \in {"none", "heartbeat"}
    /\ pids \in [Devs -> Jobs \cup {"absent", "empty"}]
    /\ waits \subseteq Devs /\ mounted \subseteq Devs
    /\ kills \in 0..MaxKills /\ robbed \in {0, 1}

Checked(p) == MDEV[p] \notin Plain
Holders == {p \in Jobs : pc[p] \in Locked /\ Checked(p)}
Fscking == {p \in Jobs : pc[p] = "fsck"}

Init ==
    /\ pc = [p \in Jobs |-> "new"] /\ cnt = [p \in Jobs |-> 0]
    /\ opt = [p \in Jobs |-> "-p"]
    /\ lock = 0 /\ force \in Boot /\ led = "none"
    /\ pids = [d \in Devs |-> "absent"]
    /\ waits = {} /\ mounted = {}
    /\ kills = MaxKills /\ robbed = 0

Go(p, from, to) == pc[p] = from /\ pc' = [pc EXCEPT ![p] = to]
Checks == {d \in Devs : pids[d] # "absent"}
Alive(p) == p \in Jobs /\ pc[p] \notin {"new"} \cup Ended
Dead == {d \in Checks : ~Alive(pids[d])}

-----------------------------------------------------------------------------
(* hot.sh ends in "hot_aux.sh ... &".                                      *)
Add(p) ==
    /\ Go(p, "new", IF Checked(p) THEN "lock" ELSE "after")
    /\ UNCHANGED <<cnt, opt, files, led, mounted, kills, robbed>>

(* Mutant: mkdir -p.                                                       *)
MkdirP == lock' = 1

Locks == lock = 0 /\ lock' = 1

(* check().                                                                *)
Mkdir(p) ==
    /\ Go(p, "lock", "mounted")
    /\ Locks
    /\ waits' = waits \ {MDEV[p]}
    /\ UNCHANGED <<cnt, opt, pids, force, led, mounted, kills, robbed>>

Wait(p) ==
    /\ Go(p, "lock", "look") /\ lock = 1
    /\ waits' = waits \cup {MDEV[p]}
    /\ opt' = IF force = 1 THEN [opt EXCEPT ![p] = "due"] ELSE opt
    /\ UNCHANGED <<cnt, lock, pids, force, led, mounted, kills, robbed>>

Patient(p) == cnt[p] + 1 < Limit

(* No check-*.pid: perhaps a dangling lock.                                *)
Dangling(p) ==
    /\ Checks = {} /\ Patient(p)
    /\ Go(p, "look", "lock")
    /\ cnt' = [cnt EXCEPT ![p] = @ + 1]
    /\ UNCHANGED <<opt, files, led, mounted, kills, robbed>>

TakeOver(p) ==
    /\ Checks = {} /\ ~Patient(p)
    /\ Go(p, "look", "mounted")
    /\ cnt' = [cnt EXCEPT ![p] = @ + 1]
    /\ waits' = waits \ {MDEV[p]}
    /\ robbed' = IF Holders # {} \/ lock = 0 THEN 1 ELSE robbed
    /\ UNCHANGED <<opt, lock, pids, force, led, mounted, kills>>

(* Mutant: the pid files are not looked into.                              *)
CleanNot(p) == cnt' = [cnt EXCEPT ![p] = 0] /\ UNCHANGED pids

(* The pid files of jobs that are gone, or whose pid is still to come.     *)
Clean(p) ==
    /\ cnt' = [cnt EXCEPT ![p] = 0]
    /\ pids' = [d \in Devs |-> IF d \in Dead THEN "absent" ELSE pids[d]]

Look(p) ==
    /\ Checks # {} /\ MDEV[p] \notin Checks \ Dead
    /\ Go(p, "look", "lock")
    /\ Clean(p)
    /\ UNCHANGED <<opt, lock, waits, force, led, mounted, kills, robbed>>

(* One more event for a partition that is being checked.                   *)
Extra(p) ==
    /\ MDEV[p] \in Checks \ Dead
    /\ Go(p, "look", "extra")
    /\ cnt' = [cnt EXCEPT ![p] = 0]
    /\ \E gone \in SUBSET Dead :
          pids' = [d \in Devs |-> IF d \in gone THEN "absent" ELSE pids[d]]
    /\ UNCHANGED <<opt, lock, waits, force, led, mounted, kills, robbed>>

Mounted(p) ==
    /\ IF MDEV[p] \in mounted THEN Go(p, "mounted", "there") /\ lock' = 0
       ELSE Go(p, "mounted", "name") /\ UNCHANGED lock
    /\ UNCHANGED <<cnt, opt, pids, waits, force, led, mounted, kills, robbed>>

Check(p) == Mkdir(p) \/ Wait(p) \/ Dangling(p) \/ TakeOver(p) \/ Look(p)
            \/ Extra(p) \/ Mounted(p)

-----------------------------------------------------------------------------
(* The fsck.                                                               *)

Name(p) ==
    /\ Go(p, "name", "write")
    /\ opt' = IF force = 1 THEN [opt EXCEPT ![p] = "-fp"] ELSE opt
    /\ pids' = [pids EXCEPT ![MDEV[p]] = "empty"]
    /\ UNCHANGED <<cnt, lock, waits, force, led, mounted, kills, robbed>>

(* The pid goes to a file that a waiter may have removed by now.           *)
WritePid(p) ==
    /\ Go(p, "write", "fsck")
    /\ pids' = [pids EXCEPT ![MDEV[p]] = IF @ = "empty" THEN p ELSE @]
    /\ led' = "heartbeat"
    /\ UNCHANGED <<cnt, opt, lock, waits, force, mounted, kills, robbed>>

Fsck(p) ==
    /\ Go(p, "fsck", "led")
    /\ pids' = [pids EXCEPT ![MDEV[p]] = "absent"]
    /\ UNCHANGED <<cnt, opt, lock, waits, force, led, mounted, kills, robbed>>

(* Mutant: the LED is left to beat.                                        *)
LedKept == led

(* ls /tmp/check-*                                                         *)
LedAfter == IF Checks = {} THEN "none" ELSE led

Led(p) ==
    /\ Go(p, "led", "after")
    /\ led' = LedAfter
    /\ UNCHANGED <<cnt, opt, files, mounted, kills, robbed>>

-----------------------------------------------------------------------------
(* What is common to partitions with and without an fsck.                  *)

(* Mutant: nobody asks who waits.                                          *)
ForceNow == 0

(* "nobody is waiting, so assume nobody will appear".                      *)
ForceAfter == IF waits = {} THEN 0 ELSE force

(* A job without the lock comes here too.                                  *)
Meddles(p) == ~Checked(p) /\ Holders # {}

After(p) ==
    /\ Go(p, "after", "mount")
    /\ force' = ForceAfter
    /\ robbed' = IF Meddles(p) THEN 1 ELSE robbed
    /\ UNCHANGED <<cnt, opt, lock, pids, waits, led, mounted, kills>>

(* The mount point may be in use, the options "noauto", the mount fail.    *)
Mount(p) ==
    /\ Go(p, "mount", "rmdir")
    /\ mounted' \in {mounted, mounted \cup {MDEV[p]}}
    /\ UNCHANGED <<cnt, opt, files, led, kills, robbed>>

Rmdir(p) ==
    /\ Go(p, "rmdir", "done")
    /\ lock' = 0
    /\ robbed' = IF Meddles(p) THEN 1 ELSE robbed
    /\ UNCHANGED <<cnt, opt, pids, waits, force, led, mounted, kills>>

Work(p) == Name(p) \/ WritePid(p) \/ Fsck(p) \/ Led(p)
           \/ After(p) \/ Mount(p) \/ Rmdir(p)

Kill(p) ==
    /\ Alive(p) /\ kills > 0 /\ kills' = kills - 1
    /\ pc' = [pc EXCEPT ![p] = "dead"]
    /\ UNCHANGED <<cnt, opt, files, led, mounted, robbed>>

Step(p) == Check(p) \/ Work(p)
Next == \E p \in Jobs : Add(p) \/ Step(p) \/ Kill(p)

Spec == Init /\ [][Next]_vars

(* A script that runs goes on: fsck and mount end.                         *)
FairSpec == Spec /\ \A p \in Jobs : WF_vars(Step(p))

-----------------------------------------------------------------------------
(* hot_aux.sh:24 "don't do paralell fsck", whoever was killed, unless a    *)
(* lock was taken from or removed under a live holder, or taken over just  *)
(* when it was released.                                                   *)
OneFsck == robbed = 0 => Cardinality(Fscking) <= 1

(* The comment as it stands, whoever else came along.                      *)
NoParallelFsck == Cardinality(Fscking) <= 1

(* FSCK_FORCE stays until who waited for the lock while it was there has   *)
(* been checked with -f: unless somebody was killed, the partition of a    *)
(* job that was due is not left with an ordinary fsck.                     *)
ForcedAll ==
    robbed = 0 /\ kills = MaxKills => \A p \in Fscking : opt[p] = "due" =>
        \E q \in Jobs : MDEV[q] = MDEV[p] /\ opt[q] = "-fp"

(* The power LED beats while there is an fsck and rests when all is done   *)
(* and nobody was killed.                                                  *)
LedTellsFsck ==
    robbed = 0 =>
        /\ Fscking # {} => led = "heartbeat"
        /\ kills = MaxKills /\ (\A p \in Jobs : ~Alive(p)) => led = "none"

(* A killed holder stops nobody: every partition's job ends.               *)
JobsEnd == \A p \in Jobs : pc[p] = "lock" ~> pc[p] \in Ended
=============================================================================
