--------------------------- MODULE SysctrlProofs ----------------------------
(***************************************************************************)
(* Three things of sysctrl's main loop.  The temperature lock and the pid  *)
(* file: one holder at most and one instance, for any number of processes, *)
(* tries, deaths and reused pids.  fanctl(): what fan1_input is worth for  *)
(* every temperature, limit and number of mishaps.  hdd_powercheck(): when *)
(* it can stop a disk in use.  They share no state.                        *)
(***************************************************************************)
EXTENDS FanControl, DiskPower, TempLock, FiniteSetTheorems, TLAPS

(* While the lock has not changed hands under a process that examines it,  *)
(* a holder is alone, its directory exists, and once it is in, the file    *)
(* names it: whoever looks finds it alive.                                 *)
OneHolder ==
    race = 0 =>
        /\ \A p, q \in Procs : pc[p] \in Held /\ pc[q] \in Held => p = q
        /\ \A p \in Procs : pc[p] \in Held => dir = 1
        /\ \A p \in Procs : pc[p] = "named" => owner # Absent
        /\ \A p \in Procs : pc[p] = "in" => owner = p

(* While sysctrl is started once at a time, a running sysctrl is the one   *)
(* the pid file names, and one that found the file stale is alone.         *)
InUse == {"idle"} \cup Waiting \cup Held
OneInstance ==
    crowd = 0 /\ forks = MaxForks =>
        /\ \A p, q \in Procs : pc[p] \in Starting /\ pc[q] \in Starting => p = q
        /\ \A p \in Sysctrls : pc[p] \in InUse => run.by = p /\ run.text = p
        /\ \A p \in Procs : pc[p] \in {"unlink", "create", "write"} =>
              \A q \in Sysctrls : pc[q] \notin InUse
        /\ \A p \in Procs : pc[p] = "write" => run.by = p

(* Only a process that is in, or on its way out, or dead, is named by the  *)
(* file; and while nobody was slow, who looks at the file finds a lock     *)
(* that nobody holds.                                                      *)
NamesHolder ==
    race = 0 =>
        \A p \in Procs : owner = p => pc[p] \in {"in", "clear", "gone"}
Abandoned ==
    race = 0 /\ slow = MaxSlow =>
        \A p \in Procs : pc[p] = "owner" => dir = 1 /\ Holding = {}

LockInv == LTypeOK /\ OneHolder /\ OneInstance /\ NamesHolder /\ Abandoned /\ NoLockout

LEMMA AtMostOne ==
    ASSUME NEW S, \A x, y \in S : x = y
    PROVE  Cardinality(S) <= 1
<1>1. CASE S = {} BY <1>1, FS_EmptySet
<1>2. CASE S # {}
  <2>1. PICK x \in S : TRUE BY <1>2
  <2>2. S = {x} BY <2>1
  <2> QED BY <2>2, FS_Singleton
<1> QED BY <1>1, <1>2

LEMMA NoPid ==
    Nobody \notin Procs /\ Absent \notin Procs /\ Nobody # Absent /\ Sysctrls \cap Scripts = {} /\ Sysctrls \subseteq Procs
BY TempLockAssumption DEF Procs

LEMMA InitLockInv == LInit => LockInv
<1> SUFFICES ASSUME LInit PROVE LockInv
  OBVIOUS
<1>1. LTypeOK
  BY TempLockAssumption DEF LInit, LTypeOK, Places, Starting
<1>2. OneHolder /\ OneInstance /\ NamesHolder /\ Abandoned /\ NoLockout
  BY NoPid DEF LInit, OneHolder, OneInstance, NamesHolder, Abandoned, NoLockout,
               Holding, InUse, Starting, Waiting, Held
<1> QED BY <1>1, <1>2 DEF LockInv

-----------------------------------------------------------------------------
LEMMA LockTypeStep == LTypeOK /\ [LNext]_lvars => LTypeOK'
<1> SUFFICES ASSUME LTypeOK, [LNext]_lvars PROVE LTypeOK'
  OBVIOUS
<1> USE TempLockAssumption DEF LTypeOK, Places, Starting, Waiting, Held, Go, bounds, lock
<1>1. ASSUME NEW p \in Procs, Start(p) PROVE LTypeOK'
  BY <1>1 DEF Start
<1>2. ASSUME NEW p \in Procs, Check(p) PROVE LTypeOK'
  BY <1>2, NoPid DEF Check, Open, ReadPid, UnlinkPid, Reopen, WritePid, Create
<1>3. ASSUME NEW p \in Procs, NEW q \in Sysctrls, ExecFails(p, q) PROVE LTypeOK'
  BY <1>3, NoPid DEF ExecFails
<1>4. ASSUME NEW p \in Procs, Want(p) \/ Lock(p) PROVE LTypeOK'
  <2>1. CASE Retry(p)
    <3>1. tries[p] \in 0..Tries /\ tries[p] > 0 BY <2>1 DEF Retry, Left
    <3> QED BY <2>1, <3>1 DEF Retry, Count
  <2> QED BY <1>4, <2>1 DEF Want, Lock, Mkdir, Exhaust, Examine
<1>5. ASSUME NEW p \in Procs, Inside(p) PROVE LTypeOK'
  BY <1>5 DEF Inside, Creat, Name, Leave, Unlink, Release
<1>6. ASSUME NEW p \in Procs, Kill(p) \/ Reuse(p) PROVE LTypeOK'
  BY <1>6 DEF Kill, Reuse
<1>7. CASE UNCHANGED lvars
  BY <1>7 DEF lvars
<1> QED BY <1>1, <1>2, <1>3, <1>4, <1>5, <1>6, <1>7 DEF LNext, Step

LEMMA HolderStep == LTypeOK /\ OneHolder /\ [LNext]_lvars => OneHolder'
<1> SUFFICES ASSUME LTypeOK, OneHolder, [LNext]_lvars, race' = 0 PROVE OneHolder'
  BY DEF OneHolder
<1> USE DEF OneHolder, LTypeOK, Starting, Waiting, Held, Go, bounds, lock
<1>1. ASSUME NEW p \in Procs, Start(p) \/ Kill(p) \/ Reuse(p) \/ Want(p) PROVE OneHolder'
  BY <1>1 DEF Start, Kill, Reuse, Want
<1>2. ASSUME NEW p \in Procs, Check(p) PROVE OneHolder'
  BY <1>2 DEF Check, Open, ReadPid, UnlinkPid, Reopen, WritePid
<1>3. ASSUME NEW p \in Procs, NEW q \in Sysctrls, ExecFails(p, q) PROVE OneHolder'
  BY <1>3, NoPid DEF ExecFails
<1>4. ASSUME NEW p \in Procs, Mkdir(p) \/ Retry(p) \/ Exhaust(p) PROVE OneHolder'
  BY <1>4 DEF Mkdir, Retry, Exhaust
<1>5. ASSUME NEW p \in Procs, Examine(p) PROVE OneHolder'
  <2>1. race = 0 /\ dir = 1
    BY <1>5 DEF Examine, Moved
  <2>2. \A q \in Procs \ {p} : pc[q] \notin Held \ {"in"}
    BY <1>5 DEF Examine, Moved
  <2>3. ASSUME Free(p), NEW q \in Procs \ {p} PROVE pc[q] \notin Held
    <3>1. pc[q] = "in" => owner = q /\ Alive(q)
      BY <2>1 DEF Alive, Runs
    <3> QED BY <2>2, <2>3, <3>1 DEF Free
  <2> QED BY <1>5, <2>1, <2>3 DEF Examine
<1>6. ASSUME NEW p \in Procs, Inside(p) PROVE OneHolder'
  <2> USE NoPid
  <2>1. CASE Creat(p)
    <3>1. race = 0 /\ dir = 1 BY <2>1 DEF Creat
    <3> QED BY <2>1, <3>1 DEF Creat
  <2>2. CASE Name(p)
    BY <2>2 DEF Name
  <2>3. CASE Leave(p) \/ Unlink(p)
    BY <2>3 DEF Leave, Unlink
  <2>4. CASE Release(p)
    BY <2>4 DEF Release
  <2> QED BY <1>6, <2>1, <2>2, <2>3, <2>4 DEF Inside
<1>7. CASE UNCHANGED lvars
  BY <1>7 DEF lvars
<1> QED BY <1>1, <1>2, <1>3, <1>4, <1>5, <1>6, <1>7 DEF LNext, Step, Lock

-----------------------------------------------------------------------------
LEMMA InstanceStep == LTypeOK /\ OneInstance /\ [LNext]_lvars => OneInstance'
<1> SUFFICES ASSUME LTypeOK, OneInstance, [LNext]_lvars, crowd' = 0, forks' = MaxForks
             PROVE OneInstance'
  BY DEF OneInstance
<1> USE TempLockAssumption, NoPid
    DEF OneInstance, LTypeOK, Starting, Waiting, Held, InUse, Go, bounds, lock
<1>1. ASSUME NEW p \in Procs, Start(p) PROVE OneInstance'
  BY <1>1 DEF Start
<1>2. ASSUME NEW p \in Procs, Kill(p) \/ Reuse(p) PROVE OneInstance'
  BY <1>2 DEF Kill, Reuse
<1>3. ASSUME NEW p \in Procs, Check(p) PROVE OneInstance'
  <2>1. CASE Open(p)
    BY <2>1 DEF Open, Create
  <2>2. CASE ReadPid(p)
    <3>1. \A q \in Sysctrls : pc[q] \in InUse => Alive(run.text)
      BY <2>2 DEF ReadPid, Alive, Runs
    <3> QED BY <2>2, <3>1 DEF ReadPid
  <2>3. CASE UnlinkPid(p)
    BY <2>3 DEF UnlinkPid
  <2>4. CASE Reopen(p)
    BY <2>4 DEF Reopen, Create
  <2>5. CASE WritePid(p)
    BY <2>5 DEF WritePid
  <2> QED BY <1>3, <2>1, <2>2, <2>3, <2>4, <2>5 DEF Check
<1>4. ASSUME NEW p \in Procs, NEW q \in Sysctrls, ExecFails(p, q) PROVE FALSE
  BY <1>4 DEF ExecFails
<1>5. ASSUME NEW p \in Procs, Want(p) \/ Lock(p) PROVE OneInstance'
  BY <1>5 DEF Want, Lock, Mkdir, Retry, Exhaust, Examine
<1>6. ASSUME NEW p \in Procs, Inside(p) PROVE OneInstance'
  BY <1>6 DEF Inside, Creat, Name, Leave, Unlink, Release
<1>7. CASE UNCHANGED lvars
  BY <1>7 DEF lvars
<1> QED BY <1>1, <1>2, <1>3, <1>4, <1>5, <1>6, <1>7 DEF LNext, Step

-----------------------------------------------------------------------------
LEMMA NamedStep ==
    LTypeOK /\ OneHolder /\ NamesHolder /\ [LNext]_lvars => NamesHolder'
<1> SUFFICES ASSUME LTypeOK, OneHolder, NamesHolder, [LNext]_lvars, race' = 0
             PROVE NamesHolder'
  BY DEF NamesHolder
<1> USE NoPid DEF NamesHolder, Runs, LTypeOK, Starting, Waiting, Held, Go, bounds, lock
<1>1. ASSUME NEW p \in Procs, Start(p) \/ Kill(p) \/ Reuse(p) \/ Want(p) PROVE NamesHolder'
  BY <1>1 DEF Start, Kill, Reuse, Want
<1>2. ASSUME NEW p \in Procs, Check(p) PROVE NamesHolder'
  BY <1>2 DEF Check, Open, ReadPid, UnlinkPid, Reopen, WritePid
<1>3. ASSUME NEW p \in Procs, NEW q \in Sysctrls, ExecFails(p, q) PROVE NamesHolder'
  BY <1>3 DEF ExecFails
<1>4. ASSUME NEW p \in Procs, Lock(p) PROVE NamesHolder'
  BY <1>4 DEF Lock, Mkdir, Retry, Exhaust, Examine
<1>5. ASSUME NEW p \in Procs, Creat(p) PROVE NamesHolder'
  BY <1>5 DEF Creat, OneHolder
<1>6. ASSUME NEW p \in Procs, Name(p) \/ Leave(p) \/ Unlink(p) \/ Release(p)
      PROVE NamesHolder'
  BY <1>6 DEF Name, Leave, Unlink, Release, OneHolder
<1>7. CASE UNCHANGED lvars
  BY <1>7 DEF lvars
<1> QED BY <1>1, <1>2, <1>3, <1>4, <1>5, <1>6, <1>7 DEF LNext, Step, Inside

LEMMA AbandonedStep ==
    LTypeOK /\ Abandoned /\ [LNext]_lvars => Abandoned'
<1> SUFFICES ASSUME LTypeOK, Abandoned, [LNext]_lvars, race' = 0, slow' = MaxSlow
             PROVE Abandoned'
  BY DEF Abandoned
<1> USE TempLockAssumption, NoPid
    DEF Abandoned, Holding, LTypeOK, Starting, Waiting, Held, Go, bounds, lock
<1>1. ASSUME NEW p \in Procs, Start(p) \/ Kill(p) \/ Reuse(p) \/ Want(p) PROVE Abandoned'
  BY <1>1 DEF Start, Kill, Reuse, Want
<1>2. ASSUME NEW p \in Procs, Check(p) PROVE Abandoned'
  BY <1>2 DEF Check, Open, ReadPid, UnlinkPid, Reopen, WritePid
<1>3. ASSUME NEW p \in Procs, NEW q \in Sysctrls, ExecFails(p, q) PROVE Abandoned'
  BY <1>3 DEF ExecFails
<1>4. ASSUME NEW p \in Procs, Mkdir(p) \/ Retry(p) \/ Exhaust(p) PROVE Abandoned'
  BY <1>4 DEF Mkdir, Retry, Exhaust
<1>5. ASSUME NEW p \in Procs, Examine(p) PROVE Abandoned'
  BY <1>5 DEF Examine, Moved
<1>6. ASSUME NEW p \in Procs, Inside(p) PROVE Abandoned'
  BY <1>6 DEF Inside, Creat, Name, Leave, Unlink, Release
<1>7. CASE UNCHANGED lvars
  BY <1>7 DEF lvars
<1> QED BY <1>1, <1>2, <1>3, <1>4, <1>5, <1>6, <1>7 DEF LNext, Step, Lock

(* Only Examine() locks a process out, and then the lock is free for it.   *)
LEMMA LockoutStep == LockInv /\ [LNext]_lvars => NoLockout'
<1> SUFFICES ASSUME LockInv, [LNext]_lvars, slow' = MaxSlow, reused' = {}, race' = 0,
                    NEW x \in Procs
             PROVE pc'[x] # "locked"
  BY DEF NoLockout
<1> USE TempLockAssumption, NoPid
    DEF LockInv, NoLockout, LTypeOK, Starting, Waiting, Held, Go, bounds, lock
<1>1. ASSUME NEW p \in Procs, Start(p) \/ Kill(p) \/ Reuse(p) \/ Want(p)
      PROVE pc'[x] # "locked"
  BY <1>1 DEF Start, Kill, Reuse, Want
<1>2. ASSUME NEW p \in Procs, Check(p) PROVE pc'[x] # "locked"
  BY <1>2 DEF Check, Open, ReadPid, UnlinkPid, Reopen, WritePid
<1>3. ASSUME NEW p \in Procs, NEW q \in Sysctrls, ExecFails(p, q) PROVE pc'[x] # "locked"
  BY <1>3 DEF ExecFails
<1>4. ASSUME NEW p \in Procs, Mkdir(p) \/ Retry(p) \/ Exhaust(p) PROVE pc'[x] # "locked"
  BY <1>4 DEF Mkdir, Retry, Exhaust
<1>5. ASSUME NEW p \in Procs, Examine(p) PROVE pc'[x] # "locked"
  <2>1. pc[p] = "owner" /\ race = 0 /\ slow = MaxSlow /\ reused = {}
    BY <1>5 DEF Examine
  <2>2. \A q \in Procs : pc[q] \notin Held
    BY <2>1 DEF Abandoned, Holding
  <2>3. owner \in Procs => ~Alive(owner)
    BY <2>1, <2>2 DEF NamesHolder, Alive, Runs
  <2> QED BY <1>5, <2>1, <2>3 DEF Examine, Free
<1>6. ASSUME NEW p \in Procs, Inside(p) PROVE pc'[x] # "locked"
  BY <1>6 DEF Inside, Creat, Name, Leave, Unlink, Release
<1>7. CASE UNCHANGED lvars
  BY <1>7 DEF lvars
<1> QED BY <1>1, <1>2, <1>3, <1>4, <1>5, <1>6, <1>7 DEF LNext, Step, Lock

THEOREM LockInvariance == LSpec => []LockInv
<1>1. LockInv /\ [LNext]_lvars => LockInv'
  BY LockTypeStep, HolderStep, InstanceStep, NamedStep, AbandonedStep, LockoutStep DEF LockInv
<1> QED BY InitLockInv, <1>1, PTL DEF LSpec

(* The states of the model are what their comments say.                    *)
THEOREM LockTypes == LSpec => []LTypeOK
<1>1. LockInv => LTypeOK BY DEF LockInv
<1> QED BY LockInvariance, <1>1, PTL

(* dns320-temp.sh:38 "set a lock": dolock() and write_temp() never let two *)
(* processes in, unless the lock changes hands while one examines it.      *)
THEOREM LockMutex == LSpec => []Mutex
<1>1. LockInv => Mutex
  BY AtMostOne DEF LockInv, OneHolder, Mutex, Holding
<1> QED BY LockInvariance, <1>1, PTL

(* dolock() ends in exit(1), and the fan control with it, only because of  *)
(* a slow holder, a reused pid or a lock that changed hands: a dead holder *)
(* never locks the others out.                                             *)
THEOREM DeadLocksNobodyOut == LSpec => []NoLockout
<1>1. LockInv => NoLockout BY DEF LockInv
<1> QED BY LockInvariance, <1>1, PTL

(* sysctrl.c:514 check_other_daemon(): one sysctrl at most, unless two     *)
(* start at once or a user script cannot be executed.                      *)
THEOREM SingleInstance == LSpec => []OneSysctrl
<1>1. ASSUME LockInv, crowd = 0, forks = MaxForks PROVE Cardinality(Running) <= 1
  <2>1. \A p, q \in Running : p = q
    BY <1>1 DEF LockInv, OneInstance, Running, InUse
  <2> QED BY <2>1, AtMostOne
<1>2. LockInv => OneSysctrl BY <1>1 DEF OneSysctrl
<1> QED BY LockInvariance, <1>2, PTL

-----------------------------------------------------------------------------
(* The file lags the command only inside setfan_cmd(), and there the       *)
(* command being written is the one the MCU acknowledged.                  *)
Lag ==
    /\ dpc = "fan" => cmd = fanSpeed
    /\ fanSpeed # None /\ dpc \notin {"fan", "down"} => fan1 = Rpm(fanSpeed)

IInv == TypeOK /\ Lag

USE DEF Empty, None, Kinds, Pwms, Speeds, sysctrl, daemon, vars

LEMMA HappensType ==
    ASSUME had \subseteq Mishaps, NEW k, Happens(k)
    PROVE  had' \subseteq Mishaps
BY DEF Happens

LEMMA ReadsType ==
    ASSUME had \subseteq Mishaps, NEW f, NEW w, Reads(f, w)
    PROVE  had' \subseteq Mishaps
BY HappensType DEF Reads

LEMMA PwmType == ASSUME NEW r PROVE Pwm(r) \in Pwms
BY DEF Pwm, AutoPwm

LEMMA ValueType == ASSUME NEW f \in Nat \cup {Empty} PROVE Value(f) \in Nat
BY DEF Value

LEMMA SmoothType == ASSUME NEW t \in Nat, NEW x \in Nat PROVE Smooth(t, x) \in Nat
BY DEF Smooth

LEMMA InitIInv == Init => IInv
<1> SUFFICES ASSUME Init PROVE IInv
  OBVIOUS
<1>1. had \subseteq Mishaps
  BY FanAssumption DEF Init
<1>2. Lag
  BY DEF Init, Lag
<1> QED
  BY <1>1, <1>2 DEF Init, IInv, TypeOK

(* The steps of sysctrl touch neither the daemon's state nor fan1_input.   *)
LEMMA FanctlIInv == IInv /\ Fanctl => IInv'
<1> SUFFICES ASSUME IInv, Fanctl PROVE IInv'
  OBVIOUS
<1> USE DEF IInv, TypeOK
<1>1. CASE FirstRead
  <2>1. had' \subseteq Mishaps
    BY <1>1, ReadsType DEF FirstRead
  <2>2. temp' \in Nat
    BY <1>1, ValueType DEF FirstRead
  <2> QED
    BY <1>1, <2>1, <2>2 DEF FirstRead, Lag
<1>2. CASE ReadTemp
  <2>1. had' \subseteq Mishaps
    BY <1>2, ReadsType DEF ReadTemp
  <2>2. Value(temp1) \in Nat
    BY ValueType
  <2>3. temp' \in Nat
    BY <1>2, <2>2, SmoothType DEF ReadTemp
  <2> QED
    BY <1>2, <2>1, <2>3 DEF ReadTemp, Lag
<1>3. CASE ReadFan
  <2>1. had' \subseteq Mishaps
    BY <1>3, ReadsType DEF ReadFan
  <2>2. want' \in Pwms
    BY <1>3, PwmType DEF ReadFan
  <2> QED
    BY <1>3, <2>1, <2>2 DEF ReadFan, Lag
<1>4. CASE WritePwm
  BY <1>4 DEF WritePwm, Lag
<1> QED
  BY <1>1, <1>2, <1>3, <1>4 DEF Fanctl

LEMMA ReadsetIInv == IInv /\ Readset => IInv'
<1> SUFFICES ASSUME IInv, Readset PROVE IInv'
  OBVIOUS
<1> USE DEF IInv, TypeOK
<1>1. CASE GetTemp
  <2>1. had' \subseteq Mishaps
    BY <1>1, HappensType DEF GetTemp
  <2> QED
    BY <1>1, <2>1, FanAssumption DEF GetTemp, Lag
<1>2. CASE WriteTemp
  BY <1>2 DEF WriteTemp, Lag
<1>3. CASE ReadPwm
  <2>1. had' \subseteq Mishaps
    BY <1>3, ReadsType DEF ReadPwm
  <2> QED
    BY <1>3, <2>1 DEF ReadPwm, Lag, SpeedOf
<1>4. CASE SetFan
  <2>1. had' \subseteq Mishaps
    BY <1>4, HappensType DEF SetFan
  <2> QED
    BY <1>4, <2>1 DEF SetFan, Set, Unset, Lag
<1>5. CASE WriteFan
  BY <1>5 DEF WriteFan, Lag, Rpm
<1>6. CASE Respawn
  BY <1>6 DEF Respawn, Lag
<1> QED
  BY <1>1, <1>2, <1>3, <1>4, <1>5, <1>6 DEF Readset

LEMMA NextIInv == IInv /\ [Next]_vars => IInv'
<1> SUFFICES ASSUME IInv, [Next]_vars PROVE IInv'
  OBVIOUS
<1> USE DEF IInv, TypeOK
<1>1. CASE Fanctl
  BY <1>1, FanctlIInv
<1>2. CASE Readset
  BY <1>2, ReadsetIInv
<1>3. ASSUME NEW c \in Speeds, Client(c) PROVE IInv'
  <2>1. had' \subseteq Mishaps
    BY <1>3, HappensType DEF Client
  <2> QED
    BY <1>3, <2>1 DEF Client, Lag
<1>4. CASE Stop
  <2>1. had' \subseteq Mishaps
    BY <1>4, HappensType DEF Stop
  <2> QED
    BY <1>4, <2>1 DEF Stop, Lag
<1>5. CASE Heat
  BY <1>5 DEF Heat, Lag
<1>6. CASE UNCHANGED vars
  BY <1>6 DEF Lag
<1> QED
  BY <1>1, <1>2, <1>3, <1>4, <1>5, <1>6 DEF Next

-----------------------------------------------------------------------------
(* Without losses the acknowledged speed is the speed of the fan.          *)
Obeyed == "lost" \notin had => (fanSpeed # None => speed = fanSpeed)

LEMMA NoLoss ==
    /\ Happens("lost") => "lost" \in had'
    /\ \A k : Happens(k) => had \subseteq had'
    /\ \A file, w : Reads(file, w) => had \subseteq had'
BY DEF Happens, Reads

LEMMA NextObeyed == Obeyed /\ [Next]_vars => Obeyed'
<1> SUFFICES ASSUME Obeyed, [Next]_vars PROVE Obeyed'
  OBVIOUS
<1>1. CASE Fanctl
  BY <1>1, NoLoss DEF Fanctl, FirstRead, ReadTemp, ReadFan, WritePwm, Obeyed
<1>2. CASE GetTemp \/ WriteTemp \/ ReadPwm
  BY <1>2, NoLoss DEF GetTemp, WriteTemp, ReadPwm, Obeyed
<1>3. CASE SetFan
  BY <1>3, NoLoss DEF SetFan, Set, Obeyed
<1>4. CASE WriteFan \/ Respawn \/ Heat
  BY <1>4 DEF WriteFan, Respawn, Heat, Obeyed
<1>5. ASSUME NEW c \in Speeds, Client(c) PROVE Obeyed'
  BY <1>5, NoLoss DEF Client, Obeyed
<1>6. CASE Stop
  BY <1>6, NoLoss DEF Stop, Obeyed
<1>7. CASE UNCHANGED vars
  BY <1>7 DEF Obeyed
<1> QED
  BY <1>1, <1>2, <1>3, <1>4, <1>5, <1>6, <1>7 DEF Next, Readset

(* The files hold readings, PWM values or nothing, and every kind of       *)
(* mishap happens once at most.                                            *)
THEOREM FanTypes == Spec => []TypeOK
<1>1. IInv => TypeOK
  BY DEF IInv
<1> QED
  BY <1>1, InitIInv, NextIInv, PTL DEF Spec

(* Whatever is lost, asked, signalled or killed, between two commands      *)
(* fan1_input holds the speed that the MCU acknowledged last, and as long  *)
(* as no command was lost that is the speed of the fan.                    *)
THEOREM FanTruthful == Spec => []FanFileTruthful
<1>1. Init => Obeyed
  BY DEF Init, Obeyed
<1>2. IInv /\ Obeyed => FanFileTruthful
  BY DEF IInv, Lag, Obeyed, FanFileTruthful
<1> QED
  BY <1>1, <1>2, InitIInv, NextIInv, NextObeyed, PTL DEF Spec

-----------------------------------------------------------------------------
(* hdd_powercheck().  The I/O counter it remembers of a disk is never      *)
(* ahead of the disk's, and once it has caught up the age it computes is   *)
(* never more than the disk's real idle time: but for disks that replaced  *)
(* another and have not outdone its counter.                               *)

USE DiskAssumption DEF Long

CountersAgree ==
    \A s \in (Opaque \cap plugged) \ heirs :
      /\ rdwr_cnt[s] <= io[s]
      /\ rdwr_cnt[s] = io[s] => since[s] <= idle[s]

(* A disk that is about to be stopped, and was neither used nor replaced   *)
(* since its counter was read, has been idle for its programmed time; and  *)
(* the handlers that change this time do not run inside a check.           *)
DoomedIdle ==
    /\ doomed \in plugged \ heirs /\ ~hit
          => doomed \in Opaque /\ idle[doomed] > spindow[doomed]
    /\ doomed # NoSlot \/ todo # {} => checking

DiskInv == DTypeOK /\ CountersAgree /\ DoomedIdle

(* Times only grow, and stay within their cap.                             *)
LEMMA PassType ==
    ASSUME NEW t \in 0..Long, NEW u \in 0..Long, t <= u
    PROVE  /\ Pass(t) \in 0..Long /\ Pass(u) \in 0..Long
           /\ Pass(t) <= Pass(u)
BY DEF Pass

(* What is longer than a spindown time stays longer.                       *)
LEMMA PassLong ==
    ASSUME NEW t \in 0..Long, NEW d \in {0, SpinTime}, t > d
    PROVE  Pass(t) > d
BY DEF Pass

(* A power state is always one of active, standby and unknown.             *)
LEMMA DpmType ==
    ASSUME DTypeOK, NEW s \in Slots
    PROVE  Dpm(s) \in {-1, 0, 1}
BY DEF Dpm, PowerMode, DTypeOK

LEMMA InitDiskInv == DInit => DiskInv
<1> SUFFICES ASSUME DInit PROVE DiskInv
  OBVIOUS
<1>1. DTypeOK
  <2>1. /\ io \in [Slots -> 0..MaxIO] /\ rdwr_cnt \in [Slots -> 0..MaxIO]
        /\ idle \in [Opaque -> 0..Long] /\ since \in [Slots -> 0..Long]
    BY DEF DInit
  <2>2. /\ spinning \in [Slots -> BOOLEAN] /\ spindow \in [Slots -> {0, SpinTime}]
        /\ power_state \in [Slots -> {-1, 0, 1}]
    BY DEF DInit
  <2>3. /\ doomed \in Slots \cup {NoSlot} /\ dpmf \in Int
        /\ todo \subseteq Slots /\ heirs \subseteq Opaque
    BY DEF DInit
  <2>6. checking \in BOOLEAN /\ hit \in BOOLEAN
    BY DEF DInit
  <2>4. plugged \subseteq Slots /\ dev \subseteq Slots
    BY DEF DInit
  <2>5. pled \in {0, 1} /\ trigger \in {"none", "other"}
    BY DEF DInit
  <2> QED BY <2>1, <2>2, <2>3, <2>4, <2>5, <2>6 DEF DTypeOK
<1>2. CountersAgree
  BY DEF DInit, CountersAgree
<1>3. DoomedIdle
  BY DEF DInit, DoomedIdle, NoSlot
<1> QED BY <1>1, <1>2, <1>3 DEF DiskInv

LEMMA NextDTypeOK == DTypeOK /\ [DNext]_dvars => DTypeOK'
<1> SUFFICES ASSUME DTypeOK, [DNext]_dvars PROVE DTypeOK'
  OBVIOUS
<1> USE DEF disk, table, check, past
<1>1. CASE Begin
  BY <1>1 DEF Begin, DTypeOK
<1>2. ASSUME NEW s \in Slots, Look(s) PROVE DTypeOK'
  <2>1. rdwr_cnt' \in [Slots -> 0..MaxIO] /\ since' \in [Slots -> 0..Long]
    BY <1>2 DEF Look, Dstat, DTypeOK
  <2>2. power_state' \in [Slots -> {-1, 0, 1}] /\ dpmf' \in Int
    BY <1>2, DpmType DEF Look, Record, DpmfWith, DTypeOK
  <2>3. todo' \subseteq Slots /\ doomed' \in Slots \cup {NoSlot} /\ heirs' \subseteq Opaque
    BY <1>2 DEF Look, DTypeOK
  <2> QED BY <1>2, <2>1, <2>2, <2>3 DEF Look, DTypeOK
<1>3. ASSUME NEW s \in Slots, spindown_disk(s) PROVE DTypeOK'
  <2>1. power_state' \in [Slots -> {-1, 0, 1}] /\ dpmf' \in Int
    BY <1>3 DEF spindown_disk, Record, DpmfWith, DTypeOK
  <2> QED BY <1>3, <2>1 DEF spindown_disk, DTypeOK
<1>4. CASE PowerLed
  <2>1. pled' \in {0, 1}
    BY <1>4 DEF PowerLed, DTypeOK
  <2>2. dpmf' \in Int
    BY <1>4 DEF PowerLed
  <2>3. checking' \in BOOLEAN
    BY <1>4 DEF PowerLed
  <2> QED BY <1>4, <2>1, <2>2, <2>3 DEF PowerLed, DTypeOK
<1>5. CASE read_bay \/ read_misc \/ LedTaken
  BY <1>5 DEF read_bay, read_misc, LedTaken, DTypeOK
<1>6. ASSUME NEW s \in Slots, Use(s) PROVE DTypeOK'
  <2>1. io' \in [Slots -> 0..MaxIO] /\ idle' \in [Opaque -> 0..Long] /\ hit' \in BOOLEAN
    BY <1>6 DEF Use, DTypeOK
  <2> QED BY <1>6, <2>1 DEF Use, DTypeOK
<1>7. ASSUME NEW s \in Slots, Standby(s) PROVE DTypeOK'
  BY <1>7 DEF Standby, DTypeOK
<1>8. ASSUME NEW s \in Slots, Unplug(s) PROVE DTypeOK'
  <2>1. io' \in [Slots -> 0..MaxIO] /\ idle' \in [Opaque -> 0..Long]
    BY <1>8 DEF Unplug, DTypeOK
  <2> QED BY <1>8, <2>1 DEF Unplug, DTypeOK
<1>9. ASSUME NEW s \in Slots, Plug(s) PROVE DTypeOK'
  <2>1. plugged' \subseteq Slots /\ io' \in [Slots -> 0..MaxIO] /\ hit' \in BOOLEAN
    BY <1>9 DEF Plug, DTypeOK
  <2>2. spinning' \in [Slots -> BOOLEAN] /\ idle' \in [Opaque -> 0..Long]
    BY <1>9 DEF Plug, DTypeOK
  <2>3. heirs' \subseteq Opaque
    BY <1>9 DEF Plug, DTypeOK
  <2> QED BY <1>9, <2>1, <2>2, <2>3 DEF Plug, DTypeOK
<1>10. CASE Time
  <2>1. idle' \in [Opaque -> 0..Long] /\ since' \in [Slots -> 0..Long]
    BY <1>10, PassType DEF Time, DTypeOK
  <2> QED BY <1>10, <2>1 DEF Time, DTypeOK
<1>11. CASE UNCHANGED dvars
  BY <1>11 DEF dvars, DTypeOK
<1> QED
  BY <1>1, <1>2, <1>3, <1>4, <1>5, <1>6, <1>7, <1>8, <1>9, <1>10, <1>11
     DEF DNext, hdd_powercheck

LEMMA NextCounters == DTypeOK /\ CountersAgree /\ [DNext]_dvars => CountersAgree'
<1> SUFFICES ASSUME DTypeOK, CountersAgree, [DNext]_dvars PROVE CountersAgree'
  OBVIOUS
<1> USE DEF CountersAgree, disk, table, check, past
<1>1. CASE Begin \/ PowerLed \/ read_bay \/ read_misc \/ LedTaken
  BY <1>1 DEF Begin, PowerLed, read_bay, read_misc, LedTaken
<1>2. ASSUME NEW s \in Slots, Look(s) PROVE CountersAgree'
  <2>1. /\ rdwr_cnt' = [rdwr_cnt EXCEPT ![s] = IF Used(s) THEN io[s] ELSE @]
        /\ since' = [since EXCEPT ![s] = IF Used(s) THEN 0 ELSE @]
        /\ heirs' = IF Used(s) THEN heirs \ {s} ELSE heirs
        /\ plugged' = plugged /\ io' = io /\ idle' = idle
    BY <1>2 DEF Look, Dstat
  <2>2. CASE Used(s)
    <3>1. rdwr_cnt'[s] = io[s] /\ since'[s] = 0
      BY <2>1, <2>2 DEF DTypeOK
    <3>2. \A t \in Slots \ {s} : rdwr_cnt'[t] = rdwr_cnt[t] /\ since'[t] = since[t]
      BY <2>1, <2>2 DEF DTypeOK
    <3>3. \A t \in Opaque : 0 <= idle[t]
      BY DEF DTypeOK
    <3> QED BY <2>1, <2>2, <3>1, <3>2, <3>3 DEF DTypeOK
  <2>3. CASE ~Used(s)
    <3>1. rdwr_cnt' = rdwr_cnt /\ since' = since /\ heirs' = heirs
      BY <2>1, <2>3 DEF DTypeOK
    <3> QED BY <2>1, <3>1
  <2> QED BY <2>2, <2>3
<1>3. ASSUME NEW s \in Slots, spindown_disk(s) PROVE CountersAgree'
  BY <1>3 DEF spindown_disk
<1>4. ASSUME NEW s \in Slots, Use(s) PROVE CountersAgree'
  <2> SUFFICES ASSUME NEW t \in (Opaque \cap plugged) \ heirs
               PROVE  /\ rdwr_cnt[t] <= io'[t]
                      /\ rdwr_cnt[t] = io'[t] => since[t] <= idle'[t]
    BY <1>4 DEF Use
  <2>1. CASE t = s
    BY <1>4, <2>1 DEF Use, DTypeOK
  <2>2. CASE t # s
    BY <1>4, <2>2 DEF Use, DTypeOK
  <2> QED BY <2>1, <2>2
<1>5. ASSUME NEW s \in Slots, Standby(s) PROVE CountersAgree'
  BY <1>5 DEF Standby
<1>6. ASSUME NEW s \in Slots, Unplug(s) PROVE CountersAgree'
  BY <1>6 DEF Unplug, DTypeOK
<1>7. ASSUME NEW s \in Slots, Plug(s) PROVE CountersAgree'
  <2>1. /\ (Opaque \cap plugged') \ heirs' = ((Opaque \cap plugged) \ heirs) \ {s}
        /\ rdwr_cnt' = rdwr_cnt /\ since' = since
        /\ \A t \in Slots \ {s} : io'[t] = io[t]
        /\ \A t \in Opaque \ {s} : idle'[t] = idle[t]
    BY <1>7 DEF Plug, DTypeOK
  <2> QED BY <2>1
<1>8. CASE Time
  <2> SUFFICES ASSUME NEW t \in (Opaque \cap plugged) \ heirs
               PROVE  rdwr_cnt[t] = io[t] => since'[t] <= idle'[t]
    BY <1>8 DEF Time
  <2>1. since'[t] = Pass(since[t]) /\ idle'[t] = Pass(idle[t])
    BY <1>8 DEF Time, DTypeOK
  <2>2. since[t] \in 0..Long /\ idle[t] \in 0..Long
    BY DEF DTypeOK
  <2> QED BY <2>1, <2>2, PassType
<1>9. CASE UNCHANGED dvars
  BY <1>9 DEF dvars
<1> QED
  BY <1>1, <1>2, <1>3, <1>4, <1>5, <1>6, <1>7, <1>8, <1>9 DEF DNext, hdd_powercheck

LEMMA NextDoomed == DiskInv /\ [DNext]_dvars => DoomedIdle'
<1> SUFFICES ASSUME DTypeOK, CountersAgree, DoomedIdle, [DNext]_dvars PROVE DoomedIdle'
  BY DEF DiskInv
<1> USE DEF DoomedIdle, disk, table, check, past
<1>0. NoSlot \notin Slots
  BY DEF NoSlot
<1>1. CASE Begin \/ PowerLed \/ read_bay \/ read_misc \/ LedTaken
  BY <1>0, <1>1 DEF Begin, PowerLed, read_bay, read_misc, LedTaken, DTypeOK
<1>2. ASSUME NEW s \in Slots, Look(s) PROVE DoomedIdle'
  <2>1. /\ plugged' = plugged /\ idle' = idle /\ spindow' = spindow /\ hit' = hit
        /\ checking /\ checking' = checking
    BY <1>2 DEF Look
  <2>2. CASE SpinsDown(s)
    <3>1. doomed' = s /\ heirs' = heirs
      BY <1>2, <2>2 DEF Look, SpinsDown
    <3>2. ASSUME s \in plugged \ heirs PROVE s \in Opaque /\ idle[s] > spindow[s]
      <4>1. s \in Opaque
        BY <2>2, <3>2 DEF SpinsDown, Tracked, PowerMode
      <4>2. rdwr_cnt[s] \in Int /\ io[s] \in Int /\ since[s] \in Int /\ idle[s] \in Int
            /\ spindow[s] \in Int
        BY <4>1 DEF DTypeOK
      <4>3. ~(io[s] > rdwr_cnt[s]) /\ since[s] > spindow[s]
        BY <2>2 DEF SpinsDown, Used, Dstat
      <4>4. rdwr_cnt[s] <= io[s] /\ (rdwr_cnt[s] = io[s] => since[s] <= idle[s])
        BY <3>2, <4>1 DEF CountersAgree
      <4> QED BY <4>1, <4>2, <4>3, <4>4
    <3> QED BY <2>1, <3>1, <3>2
  <2>3. CASE ~SpinsDown(s)
    BY <1>0, <1>2, <2>1, <2>3 DEF Look, DTypeOK
  <2> QED BY <2>2, <2>3
<1>3. ASSUME NEW s \in Slots, spindown_disk(s) PROVE DoomedIdle'
  BY <1>0, <1>3 DEF spindown_disk, DTypeOK
<1>4. ASSUME NEW s \in Slots, Use(s) PROVE DoomedIdle'
  BY <1>4 DEF Use, DTypeOK
<1>5. ASSUME NEW s \in Slots, Standby(s) PROVE DoomedIdle'
  BY <1>5 DEF Standby
<1>6. ASSUME NEW s \in Slots, Unplug(s) PROVE DoomedIdle'
  BY <1>6 DEF Unplug, DTypeOK
<1>9. ASSUME NEW s \in Slots, Plug(s) PROVE DoomedIdle'
  <2>1. \/ doomed' = s /\ hit'
        \/ /\ doomed' # s /\ hit' = hit
           /\ doomed' \in plugged' \ heirs' => doomed \in plugged \ heirs
    BY <1>9 DEF Plug, DTypeOK
  <2>2. ASSUME doomed' # s, doomed \in Opaque PROVE idle'[doomed] = idle[doomed]
    BY <1>9, <2>2 DEF Plug
  <2>3. doomed' = doomed /\ spindow' = spindow /\ todo' = todo /\ checking' = checking
    BY <1>9 DEF Plug
  <2> QED BY <2>1, <2>2, <2>3
<1>7. CASE Time
  <2> SUFFICES ASSUME doomed \in plugged \ heirs, ~hit
               PROVE  doomed \in Opaque /\ idle'[doomed] > spindow[doomed]
    BY <1>7 DEF Time
  <2>1. /\ doomed \in Opaque /\ idle[doomed] > spindow[doomed]
        /\ idle[doomed] \in 0..Long /\ spindow[doomed] \in {0, SpinTime}
    BY DEF DTypeOK
  <2>2. idle'[doomed] = Pass(idle[doomed])
    BY <1>7, <2>1 DEF Time
  <2> QED BY <2>1, <2>2, PassLong
<1>8. CASE UNCHANGED dvars
  BY <1>8 DEF dvars
<1> QED
  BY <1>1, <1>2, <1>3, <1>4, <1>5, <1>6, <1>7, <1>8, <1>9 DEF DNext, hdd_powercheck

(* Counters, times, modes and the LED keep to their values, whatever disks *)
(* are swapped and configurations read.                                    *)
THEOREM DiskTypes == DSpec => []DTypeOK
<1>1. DInit => DTypeOK
  BY InitDiskInv DEF DiskInv
<1> QED BY <1>1, NextDTypeOK, PTL DEF DSpec

(* spindown_disk() stops a disk that has been idle for its programmed      *)
(* time, or was used since its counter was read, or replaced another whose *)
(* counter is still in the table; for any slots, times, swaps, changes of  *)
(* the configuration and I/O between any two steps of a check.             *)
THEOREM SpinDownSafe == DSpec => SpinDownOnlyIdle
<1>1. DiskInv /\ [DNext]_dvars => DiskInv'
  BY NextDTypeOK, NextCounters, NextDoomed DEF DiskInv
<1>2. DiskInv /\ [DNext]_dvars
        => [\A s \in plugged :
              spindown_disk(s) =>
                hit \/ s \in heirs \/ (s \in Opaque /\ idle[s] > spindow[s])]_dvars
  BY DEF DiskInv, DoomedIdle, spindown_disk
<1> QED BY <1>1, <1>2, InitDiskInv, PTL DEF DSpec, SpinDownOnlyIdle
=============================================================================
