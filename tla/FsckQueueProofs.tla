-------------------------- MODULE FsckQueueProofs --------------------------
(***************************************************************************)
(* One fsck at a time, for any number of partitions, events, kills and     *)
(* looks at the lock.                                                      *)
(***************************************************************************)
EXTENDS FsckQueue, FiniteSetTheorems, TLAPS

(* Only jobs with an fsck come to the lock, and those that still wait have *)
(* not looked Limit times.                                                 *)
Places ==
    \A p \in Jobs :
        /\ pc[p] \in {"lock", "look", "mounted", "name", "write", "fsck", "led"}
              => Checked(p)
        /\ pc[p] \in {"new", "lock", "look"} => cnt[p] < Limit

(* Until a lock is robbed its holder is alone and the directory exists, so *)
(* that mkdir fails for everybody else; and the LED beats while it checks. *)
OneHolder ==
    robbed = 0 =>
        /\ \A p, q \in Holders : p = q
        /\ Holders # {} => lock = 1
        /\ \A p \in Jobs : pc[p] = "fsck" => led = "heartbeat"

(* As long as nobody is killed, a check file belongs to a job on its way   *)
(* to or in its fsck, and the LED beats for one that is in it or just out. *)
LedBeats ==
    robbed = 0 /\ kills = MaxKills =>
        /\ \A d \in Checks : \E p \in Jobs : MDEV[p] = d /\ pc[p] \in {"write", "fsck"}
        /\ led = "heartbeat" => \E p \in Jobs : pc[p] \in {"fsck", "led"}

(* Options are written on the way to the fsck.                             *)
Options ==
    \A p \in Jobs :
        /\ pc[p] = "new" => opt[p] = "-p"
        /\ pc[p] \in {"lock", "look", "mounted", "name"} => opt[p] # "-fp"

(* Why FSCK_FORCE is still there when the partition of a job that is due   *)
(* comes to be checked: its wait file keeps it until a job for the         *)
(* partition has the lock, and then nobody else gets to remove it.         *)
SameDev(p) == {q \in Jobs : MDEV[q] = MDEV[p]}
Kept(p) ==
    \/ \E q \in SameDev(p) : opt[q] = "-fp"
    \/ MDEV[p] \in mounted /\ pc[p] \in {"lock", "look", "mounted"}
    \/ force = 1 /\ MDEV[p] \in waits /\ pc[p] \in {"lock", "look"}
    \/ force = 1 /\ \E q \in SameDev(p) : pc[q] \in {"mounted", "name"}
Due == {p \in Jobs : opt[p] = "due"
                     /\ pc[p] \in {"lock", "look", "mounted", "name", "write", "fsck"}}
ForceKept == robbed = 0 /\ kills = MaxKills => \A p \in Due : Kept(p)

IInv == TypeOK /\ Places /\ OneHolder /\ LedBeats /\ Options /\ ForceKept

LEMMA Initially == Init => IInv
BY FsckAssumption
   DEF Init, IInv, TypeOK, Places, OneHolder, Holders, Locked, Ended, Checked,
       LedBeats, Checks, Options, ForceKept, Due

LEMMA TypeStep == TypeOK /\ Places /\ [Next]_vars => TypeOK' /\ Places'
<1> SUFFICES ASSUME TypeOK, Places, [Next]_vars PROVE TypeOK' /\ Places'
  OBVIOUS
<1> USE FsckAssumption DEF TypeOK, Places, Checked, Locked, Ended, Go, job, files
<1>1. ASSUME NEW p \in Jobs, Add(p) \/ Kill(p) PROVE TypeOK' /\ Places'
  BY <1>1 DEF Add, Kill
<1>2. ASSUME NEW p \in Jobs, Mkdir(p) \/ Wait(p) \/ Mounted(p) PROVE TypeOK' /\ Places'
  BY <1>2 DEF Mkdir, Locks, Wait, Mounted
<1>3. ASSUME NEW p \in Jobs, Dangling(p) \/ TakeOver(p) PROVE TypeOK' /\ Places'
  <2>1. cnt[p] \in Nat /\ cnt[p] < Limit
    BY <1>3 DEF Dangling, TakeOver
  <2>2. CASE Dangling(p)
    BY <2>1, <2>2 DEF Dangling, Patient
  <2>3. CASE TakeOver(p)
    BY <2>1, <2>3 DEF TakeOver
  <2> QED BY <1>3, <2>2, <2>3
<1>4. ASSUME NEW p \in Jobs, Look(p) \/ Extra(p) PROVE TypeOK' /\ Places'
  <2>1. CASE Look(p)
    BY <2>1 DEF Look, Clean
  <2>2. CASE Extra(p)
    BY <2>2 DEF Extra
  <2> QED BY <1>4, <2>1, <2>2
<1>5. ASSUME NEW p \in Jobs, Work(p) PROVE TypeOK' /\ Places'
  <2>1. CASE Name(p)
    BY <2>1 DEF Name
  <2>2. CASE WritePid(p)
    BY <2>2 DEF WritePid
  <2>3. CASE Fsck(p) \/ Led(p)
    BY <2>3 DEF Fsck, Led, LedAfter
  <2>4. CASE After(p) \/ Mount(p) \/ Rmdir(p)
    BY <2>4 DEF After, ForceAfter, Mount, Rmdir
  <2> QED BY <1>5, <2>1, <2>2, <2>3, <2>4 DEF Work
<1>6. CASE UNCHANGED vars
  BY <1>6 DEF vars
<1> QED BY <1>1, <1>2, <1>3, <1>4, <1>5, <1>6 DEF Next, Step, Check

LEMMA HolderStep == IInv /\ [Next]_vars => OneHolder'
<1> SUFFICES ASSUME IInv, [Next]_vars, robbed' = 0 PROVE OneHolder'
  BY DEF OneHolder
<1> USE DEF IInv, TypeOK, Places, OneHolder, Holders, Checked, Locked, Ended, Go, job, files
<1>1. ASSUME NEW p \in Jobs, Add(p) \/ Kill(p) PROVE OneHolder'
  BY <1>1 DEF Add, Kill
<1>2. ASSUME NEW p \in Jobs, Mkdir(p) PROVE OneHolder'
  BY <1>2 DEF Mkdir, Locks
<1>3. ASSUME NEW p \in Jobs, TakeOver(p) PROVE OneHolder'
  BY <1>3 DEF TakeOver
<1>4. ASSUME NEW p \in Jobs, Mounted(p) PROVE OneHolder'
  BY <1>4 DEF Mounted
<1>5. ASSUME NEW p \in Jobs, Wait(p) \/ Dangling(p) \/ Look(p) \/ Extra(p) PROVE OneHolder'
  BY <1>5 DEF Wait, Dangling, Look, Extra
<1>6. ASSUME NEW p \in Jobs, Name(p) \/ WritePid(p) \/ Fsck(p) PROVE OneHolder'
  BY <1>6 DEF Name, WritePid, Fsck
<1>7. ASSUME NEW p \in Jobs, Led(p) PROVE OneHolder'
  <2>1. \A q \in Jobs : pc'[q] # "fsck"
    BY <1>7 DEF Led
  <2> QED BY <1>7, <2>1 DEF Led
<1>8. ASSUME NEW p \in Jobs, After(p) \/ Mount(p) PROVE OneHolder'
  BY <1>8 DEF After, Mount
<1>9. ASSUME NEW p \in Jobs, Rmdir(p) PROVE OneHolder'
  <2>1. robbed = 0 /\ ~Meddles(p)
    BY <1>9 DEF Rmdir
  <2>2. \A q \in Jobs \ {p} : q \notin Holders
    BY <1>9, <2>1 DEF Rmdir, Meddles
  <2> QED BY <1>9, <2>1, <2>2 DEF Rmdir
<1>10. CASE UNCHANGED vars
  BY <1>10 DEF vars
<1> QED
  BY <1>1, <1>2, <1>3, <1>4, <1>5, <1>6, <1>7, <1>8, <1>9, <1>10
     DEF Next, Step, Check, Work

LEMMA OptionStep == TypeOK /\ Options /\ [Next]_vars => Options'
<1> SUFFICES ASSUME TypeOK, Options, [Next]_vars PROVE Options'
  OBVIOUS
<1> USE DEF TypeOK, Options, Go, job, files
<1>1. ASSUME NEW p \in Jobs, Add(p) \/ Kill(p) PROVE Options'
  BY <1>1 DEF Add, Kill
<1>2. ASSUME NEW p \in Jobs, Check(p) PROVE Options'
  BY <1>2 DEF Check, Mkdir, Wait, Dangling, TakeOver, Look, Extra, Mounted
<1>3. ASSUME NEW p \in Jobs, Work(p) PROVE Options'
  BY <1>3 DEF Work, Name, WritePid, Fsck, Led, After, Mount, Rmdir
<1>4. CASE UNCHANGED vars
  BY <1>4 DEF vars
<1> QED BY <1>1, <1>2, <1>3, <1>4 DEF Next, Step

LEMMA LedStep == IInv /\ [Next]_vars => LedBeats'
<1> SUFFICES ASSUME IInv, [Next]_vars, robbed' = 0, kills' = MaxKills PROVE LedBeats'
  BY DEF LedBeats
<1> USE FsckAssumption
    DEF IInv, TypeOK, LedBeats, Checks, Locked, Ended, Go, job, files
<1>1. ASSUME NEW p \in Jobs, Add(p) PROVE LedBeats'
  BY <1>1 DEF Add
<1>2. ASSUME NEW p \in Jobs, Kill(p) PROVE FALSE
  BY <1>2 DEF Kill
<1>3. ASSUME NEW p \in Jobs, Mkdir(p) \/ Wait(p) \/ Dangling(p) \/ TakeOver(p) \/ Mounted(p)
      PROVE LedBeats'
  BY <1>3 DEF Mkdir, Wait, Dangling, TakeOver, Mounted
<1>4. ASSUME NEW p \in Jobs, Look(p) \/ Extra(p) PROVE LedBeats'
  <2>1. Checks' \subseteq Checks /\ led' = led /\ robbed = 0 /\ kills = MaxKills
    BY <1>4 DEF Look, Clean, Extra
  <2>2. \A q \in Jobs : pc[q] \in {"write", "fsck", "led"} => pc'[q] = pc[q]
    BY <1>4 DEF Look, Extra
  <2> QED BY <2>1, <2>2
<1>5. ASSUME NEW p \in Jobs, Name(p) \/ WritePid(p) PROVE LedBeats'
  BY <1>5 DEF Name, WritePid
<1>6. ASSUME NEW p \in Jobs, pc[p] \in {"fsck", "led"}, robbed = 0,
             NEW q \in Jobs, pc[q] \in {"write", "fsck", "led"}
      PROVE  p = q
  BY <1>6 DEF OneHolder, Holders, Places, Checked
<1>7. ASSUME NEW p \in Jobs, Fsck(p) PROVE LedBeats'
  <2>1. pc[p] = "fsck" /\ robbed = 0 /\ kills = MaxKills
    BY <1>7 DEF Fsck
  <2>2. Checks \subseteq {MDEV[p]}
    BY <1>6, <2>1
  <2>3. Checks' = {}
    BY <1>7, <2>2 DEF Fsck
  <2>4. p \in Jobs /\ pc'[p] = "led"
    BY <1>7 DEF Fsck
  <2> QED BY <2>3, <2>4
<1>8. ASSUME NEW p \in Jobs, Led(p) PROVE LedBeats'
  <2>1. pc[p] = "led" /\ robbed = 0 /\ kills = MaxKills
    BY <1>8 DEF Led
  <2>2. Checks = {}
    BY <1>6, <2>1
  <2> QED BY <1>8, <2>2 DEF Led, LedAfter
<1>9. ASSUME NEW p \in Jobs, After(p) \/ Mount(p) \/ Rmdir(p) PROVE LedBeats'
  BY <1>9 DEF After, Mount, Rmdir
<1>10. CASE UNCHANGED vars
  BY <1>10 DEF vars
<1> QED
  BY <1>1, <1>2, <1>3, <1>4, <1>5, <1>7, <1>8, <1>9, <1>10 DEF Next, Step, Check, Work

LEMMA ForceStep == IInv /\ [Next]_vars => ForceKept'
<1> SUFFICES ASSUME IInv, [Next]_vars, robbed' = 0, kills' = MaxKills, NEW x \in Due'
             PROVE  Kept(x)'
  BY DEF ForceKept
<1> USE FsckAssumption
    DEF IInv, TypeOK, ForceKept, Due, Kept, SameDev, Options, Locked, Ended, Go, job, files
<1>1. ASSUME NEW p \in Jobs, Add(p) PROVE Kept(x)'
  BY <1>1 DEF Add
<1>2. ASSUME NEW p \in Jobs, Kill(p) PROVE FALSE
  BY <1>2 DEF Kill
<1>3. ASSUME NEW p \in Jobs, Mkdir(p) \/ TakeOver(p) PROVE Kept(x)'
  BY <1>3 DEF Mkdir, TakeOver
<1>4. ASSUME NEW p \in Jobs, Wait(p) PROVE Kept(x)'
  BY <1>4 DEF Wait
<1>5. ASSUME NEW p \in Jobs, Dangling(p) \/ Look(p) \/ Extra(p) PROVE Kept(x)'
  BY <1>5 DEF Dangling, Look, Extra
<1>6. ASSUME NEW p \in Jobs, Mounted(p) PROVE Kept(x)'
  <2>1. /\ pc[p] = "mounted" /\ robbed = 0 /\ x \in Due /\ Kept(x)
        /\ \A q \in Jobs : q # p => pc'[q] = pc[q]
        /\ UNCHANGED <<opt, waits, force, mounted>>
    BY <1>6 DEF Mounted
  <2>2. \A q \in Jobs : pc[q] \in {"mounted", "name", "write", "fsck"} => q = p
    BY <2>1 DEF OneHolder, Holders, Places
  <2>3. CASE MDEV[p] \in mounted
    <3>1. pc'[p] = "there"
      BY <1>6, <2>3 DEF Mounted
    <3>2. x # p /\ pc[x] \in {"lock", "look"}
      BY <2>1, <2>2, <3>1
    <3> QED BY <2>1, <2>2, <2>3, <3>1, <3>2
  <2>4. CASE MDEV[p] \notin mounted
    <3>1. pc'[p] = "name"
      BY <1>6, <2>4 DEF Mounted
    <3>2. (\E q \in SameDev(x) : pc[q] \in {"mounted", "name"})
              => \E q \in SameDev(x) : pc'[q] \in {"mounted", "name"}
      BY <2>1, <3>1
    <3>3. pc[x] \in {"lock", "look"} => pc'[x] = pc[x]
      BY <2>1
    <3>4. MDEV[x] \in mounted => pc[x] # "mounted"
      BY <2>1, <2>2, <2>4
    <3> QED BY <2>1, <3>2, <3>3, <3>4
  <2> QED BY <2>3, <2>4
<1>7. ASSUME NEW p \in Jobs, Name(p) PROVE Kept(x)'
  BY <1>7 DEF Name
<1>8. ASSUME NEW p \in Jobs, WritePid(p) \/ Fsck(p) \/ Led(p) PROVE Kept(x)'
  BY <1>8 DEF WritePid, Fsck, Led
<1>9. ASSUME NEW p \in Jobs, After(p) PROVE Kept(x)'
  <2>1. pc[p] = "after" /\ robbed = 0 /\ ~Meddles(p)
    BY <1>9 DEF After
  <2>2. \A q \in Jobs : pc[q] \notin {"mounted", "name"}
    BY <2>1 DEF Meddles, OneHolder, Holders, Places
  <2> QED BY <1>9, <2>1, <2>2 DEF After, ForceAfter
<1>10. ASSUME NEW p \in Jobs, Mount(p) \/ Rmdir(p) PROVE Kept(x)'
  BY <1>10 DEF Mount, Rmdir
<1>11. CASE UNCHANGED vars
  BY <1>11 DEF vars
<1> QED
  BY <1>1, <1>2, <1>3, <1>4, <1>5, <1>6, <1>7, <1>8, <1>9, <1>10, <1>11
     DEF Next, Step, Check, Work

THEOREM Invariance == Spec => []IInv
<1>1. IInv /\ [Next]_vars => IInv'
  BY TypeStep, HolderStep, OptionStep, LedStep, ForceStep DEF IInv
<1> QED BY Initially, <1>1, PTL DEF Spec

(* The states of the model are what their comments say.                    *)
THEOREM FsckTypes == Spec => []TypeOK
<1>1. IInv => TypeOK BY DEF IInv
<1> QED BY Invariance, <1>1, PTL

(* hot_aux.sh:24 "don't do paralell fsck": true of check() and what comes  *)
(* after it, however many jobs wait and are killed, as long as no lock is  *)
(* robbed.                                                                 *)
THEOREM FsckAlone == Spec => []OneFsck
<1>1. ASSUME IInv, robbed = 0 PROVE Cardinality(Fscking) <= 1
  <2>1. \A p, q \in Fscking : p = q
    BY <1>1 DEF IInv, OneHolder, Places, Holders, Fscking, Locked
  <2>2. CASE Fscking = {} BY <2>2, FS_EmptySet
  <2>3. CASE Fscking # {}
    <3>1. PICK p \in Fscking : Fscking = {p} BY <2>1, <2>3
    <3> QED BY <3>1, FS_Singleton
  <2> QED BY <2>2, <2>3
<1>2. IInv => OneFsck BY <1>1 DEF OneFsck
<1> QED BY Invariance, <1>2, PTL

(* hot_aux.sh:280 "nobody is waiting, so assume nobody will appear": the   *)
(* flag is not removed while a partition is due, so that no partition gets *)
(* away with an ordinary check.                                            *)
THEOREM FsckForced == Spec => []ForcedAll
<1>1. ASSUME IInv, robbed = 0, kills = MaxKills, NEW p \in Fscking, opt[p] = "due"
      PROVE  \E q \in Jobs : MDEV[q] = MDEV[p] /\ opt[q] = "-fp"
  <2>1. p \in Due /\ Kept(p)
    BY <1>1 DEF IInv, ForceKept, Due, Fscking
  <2>2. \A q \in Jobs : pc[q] \notin {"mounted", "name"}
    BY <1>1 DEF IInv, OneHolder, Holders, Places, Fscking, Locked
  <2> QED BY <1>1, <2>1, <2>2 DEF Kept, SameDev, Fscking
<1>2. IInv => ForcedAll BY <1>1 DEF ForcedAll
<1> QED BY Invariance, <1>2, PTL

(* hot_aux.sh:243,269: the LED beats during every fsck, and is out when    *)
(* all jobs are done, if none was killed.                                  *)
THEOREM FsckLed == Spec => []LedTellsFsck
<1>1. IInv => LedTellsFsck
  BY DEF IInv, OneHolder, LedBeats, LedTellsFsck, Fscking, TypeOK, Alive, Ended
<1> QED BY Invariance, <1>1, PTL
=============================================================================
