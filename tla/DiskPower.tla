----------------------------- MODULE DiskPower ------------------------------
(***************************************************************************)
(* hdd_powercheck() of sysctrl: every five seconds it asks each disk for   *)
(* its power mode, spins down the disks that cannot tell (USB bridges)     *)
(* when their I/O counter has not moved for the programmed time, and sets  *)
(* the power LED.  Disks are used, fall asleep and are replaced at any     *)
(* time, also while the check runs; /etc/bay and /etc/misc.conf are        *)
(* re-read by the inotify handler, which runs between two iterations of    *)
(* the main loop only.                                                     *)
(***************************************************************************)
EXTENDS Integers, FiniteSets

CONSTANTS
    Slots,      \* slots in use, a subset of {"left", "right", "usb"}
    Opaque,     \* slots whose disk answers CHECKPOWERMODE with an error
    SpinTime,   \* spindow_time when configured, in time units
    MaxIO,      \* bound on the I/O counter of a disk
    Swaps       \* slots whose disk may be unplugged and replaced

ASSUME DiskAssumption ==
    /\ Opaque \subseteq Slots /\ IsFiniteSet(Slots)
    /\ SpinTime \in Nat \ {0} /\ MaxIO \in Nat \ {0}
    /\ Swaps \subseteq Slots /\ Slots \subseteq {"left", "right", "usb"}

(* Times are only compared with SpinTime: counting stops above it.         *)
Long == SpinTime + 1

VARIABLES
    plugged,      \* the slots that hold a disk
    io,           \* reads plus writes of the disk in a slot (/sys/block), or 0
    spinning,     \* what the disk really does
    idle,         \* history: time since the disk in a slot of Opaque was used
    dev,          \* slots with disks[i].dev set
    rdwr_cnt,     \* disks[i].rdwr_cnt
    since,        \* time(NULL) - disks[i].last_access, up to Long
    spindow,      \* disks[i].spindow_time
    power_state,  \* disks[i].power_state: 1 active, 0 standby, -1 unknown
    pled,         \* brightness of the power LED
    trigger,      \* trigger of the power LED
    todo,         \* slots that the loop of hdd_powercheck() has still to see
    checking,     \* TRUE from the first slot to the power LED
    doomed,       \* the slot spindown_disk() is called for, or NoSlot
    dpmf,         \* hdd_powercheck()'s dpmf
    heirs,        \* history: slots of Opaque with the counter of a disk before
    hit           \* history: the doomed disk was used or came since dstat()

disk == <<plugged, io, spinning, idle>>
table == <<rdwr_cnt, since, power_state>>
check == <<todo, checking, doomed, dpmf>>
past == <<heirs, hit>>
dvars == <<disk, dev, table, spindow, pled, trigger, check, past>>

NoSlot == "none"

DTypeOK ==
    /\ plugged \subseteq Slots /\ dev \subseteq Slots
    /\ io \in [Slots -> 0..MaxIO] /\ rdwr_cnt \in [Slots -> 0..MaxIO]
    /\ spinning \in [Slots -> BOOLEAN]
    /\ idle \in [Opaque -> 0..Long] /\ since \in [Slots -> 0..Long]
    /\ spindow \in [Slots -> {0, SpinTime}]
    /\ power_state \in [Slots -> {-1, 0, 1}]
    /\ pled \in {0, 1}
    /\ trigger \in {"none", "other"}
    /\ todo \subseteq Slots /\ checking \in BOOLEAN
    /\ doomed \in Slots \cup {NoSlot}
    /\ dpmf \in Int
    /\ heirs \subseteq Opaque /\ hit \in BOOLEAN

(* Disks found at boot have been read by the kernel's partition scan.      *)
DInit ==
    /\ plugged = Slots /\ dev = Slots
    /\ io = [s \in Slots |-> 1]
    /\ spinning = [s \in Slots |-> TRUE]
    /\ idle = [s \in Opaque |-> 0]
    /\ rdwr_cnt = [s \in Slots |-> 0]
    /\ since = [s \in Slots |-> Long]
    /\ spindow \in [Slots -> {0, SpinTime}]
    /\ power_state = [s \in Slots |-> 1]
    /\ pled = 0
    /\ trigger = "none"
    /\ todo = {} /\ checking = FALSE /\ doomed = NoSlot /\ dpmf = 0
    /\ heirs = {} /\ hit = FALSE

-----------------------------------------------------------------------------
(* check_powermode(): -1 when the device can not be opened or can not tell. *)
PowerMode(s) ==
    IF s \notin plugged \/ s \in Opaque THEN -1
    ELSE IF spinning[s] THEN 1 ELSE 0

(* dstat(): 0 when the device is gone.                                     *)
Dstat(s) == io[s]

(* The branch "unknown, might happens for USB disks".                      *)
Tracked(s) == s \in dev /\ PowerMode(s) = -1 /\ spindow[s] > 0

Used(s) == Tracked(s) /\ Dstat(s) > rdwr_cnt[s]

(* Mutant: last_access counts from the spindown time on, never reached.    *)
SpinsDownLate(s) ==
    Tracked(s) /\ ~Used(s) /\ power_state[s] # 0 /\ since[s] > spindow[s] + 1

(* Mutant: a quiet disk is spun down at once.                              *)
SpinsDownAtOnce(s) == Tracked(s) /\ ~Used(s) /\ power_state[s] # 0

SpinsDown(s) ==
    Tracked(s) /\ ~Used(s) /\ power_state[s] # 0 /\ since[s] > spindow[s]

(* dpm for a disk that is not spun down.                                   *)
Dpm(s) ==
    IF ~Tracked(s) THEN PowerMode(s) ELSE IF Used(s) THEN 1 ELSE power_state[s]

(* Mutant: the mode of the last disk replaces the sum.                     *)
DpmfLast(dpm) == dpm

(* dpmf: the sum of the modes of the disks in the table.                   *)
DpmfWith(dpm) == dpmf + dpm

(* The order of the slots in disks[].                                      *)
Place == [left |-> 0, right |-> 1, usb |-> 2]

(* The end of an iteration of the loop over the slots.                     *)
Record(s, dpm) ==
    /\ power_state' = [power_state EXCEPT ![s] = dpm]
    /\ dpmf' = DpmfWith(dpm)

Begin ==
    /\ ~checking
    /\ checking' = TRUE /\ todo' = dev
    /\ UNCHANGED <<disk, dev, table, spindow, pled, trigger, doomed, dpmf, past>>

(* A slot with a disk, up to the decision: its mode is asked for and its   *)
(* counter read.                                                           *)
Look(s) ==
    /\ s \in todo /\ doomed = NoSlot
    /\ \A t \in todo : Place[s] <= Place[t]
    /\ todo' = todo \ {s}
    /\ IF SpinsDown(s)
       THEN doomed' = s /\ UNCHANGED <<power_state, dpmf>>
       ELSE Record(s, Dpm(s)) /\ UNCHANGED doomed
    /\ rdwr_cnt' = [rdwr_cnt EXCEPT ![s] = IF Used(s) THEN Dstat(s) ELSE @]
    /\ since' = [since EXCEPT ![s] = IF Used(s) THEN 0 ELSE @]
    /\ heirs' = IF Used(s) THEN heirs \ {s} ELSE heirs
    /\ UNCHANGED <<disk, dev, spindow, pled, trigger, checking, hit>>

(* spindown_disk(): whatever the disk has been asked for in between, it is *)
(* stopped, and recorded as asleep.                                        *)
spindown_disk(s) ==
    /\ doomed = s /\ doomed' = NoSlot
    /\ spinning' = [spinning EXCEPT ![s] = FALSE]
    /\ Record(s, 0)
    /\ hit' = FALSE
    /\ UNCHANGED <<plugged, io, idle, dev, rdwr_cnt, since, spindow, pled,
                   trigger, todo, checking, heirs>>

PowerLed ==
    /\ checking /\ todo = {} /\ doomed = NoSlot
    /\ checking' = FALSE /\ dpmf' = 0
    /\ pled' = IF trigger # "none" THEN pled
               ELSE IF dpmf # 0 \/ dev = {} THEN 1 ELSE 0
    /\ UNCHANGED <<disk, dev, table, spindow, trigger, todo, doomed, past>>

hdd_powercheck == Begin \/ (\E s \in Slots : Look(s) \/ spindown_disk(s)) \/ PowerLed

(* inotify_handler(): /etc/bay and /etc/misc.conf as they are now.         *)
(* read_bay() resets the device names only.                                *)
read_bay ==
    /\ ~checking
    /\ dev # plugged
    /\ dev' = plugged
    /\ UNCHANGED <<disk, table, spindow, pled, trigger, check, past>>

read_misc ==
    /\ ~checking
    /\ spindow' \in [Slots -> {0, SpinTime}]
    /\ UNCHANGED <<disk, dev, table, pled, trigger, check, past>>

-----------------------------------------------------------------------------
(* The disks, the hotplug scripts and time.                                *)
Use(s) ==
    /\ s \in plugged /\ io[s] < MaxIO
    /\ io' = [io EXCEPT ![s] = @ + 1]
    /\ spinning' = [spinning EXCEPT ![s] = TRUE]
    /\ idle' = [o \in Opaque |-> IF o = s THEN 0 ELSE idle[o]]
    /\ hit' = (hit \/ s = doomed)
    /\ UNCHANGED <<plugged, dev, table, spindow, pled, trigger, check, heirs>>

(* A bay disk's own standby timer, programmed with hdparm.                 *)
Standby(s) ==
    /\ s \in plugged \ Opaque /\ spinning[s]
    /\ spinning' = [spinning EXCEPT ![s] = FALSE]
    /\ UNCHANGED <<plugged, io, idle, dev, table, spindow, pled, trigger, check,
                   past>>

Unplug(s) ==
    /\ s \in Swaps \cap plugged
    /\ plugged' = plugged \ {s}
    /\ io' = [io EXCEPT ![s] = 0]
    /\ spinning' = [spinning EXCEPT ![s] = FALSE]
    /\ idle' = [o \in Opaque |-> IF o = s THEN 0 ELSE idle[o]]
    /\ UNCHANGED <<dev, table, spindow, pled, trigger, check, past>>

(* Another disk in the slot: what the table says is of the one before.     *)
Plug(s) ==
    /\ s \in Swaps \ plugged
    /\ plugged' = plugged \cup {s}
    /\ io' = [io EXCEPT ![s] = 1]
    /\ spinning' = [spinning EXCEPT ![s] = TRUE]
    /\ idle' = [o \in Opaque |-> IF o = s THEN 0 ELSE idle[o]]
    /\ heirs' = heirs \cup ({s} \cap Opaque)
    /\ hit' = (hit \/ s = doomed)
    /\ UNCHANGED <<dev, table, spindow, pled, trigger, check>>

(* Another script takes or gives back the power LED.                       *)
LedTaken ==
    /\ trigger' = IF trigger = "none" THEN "other" ELSE "none"
    /\ UNCHANGED <<disk, dev, table, spindow, pled, check, past>>

Pass(t) == IF t < Long THEN t + 1 ELSE Long

Time ==
    /\ idle' = [s \in Opaque |-> IF s \in plugged THEN Pass(idle[s]) ELSE 0]
    /\ since' = [s \in Slots |-> Pass(since[s])]
    /\ UNCHANGED <<plugged, io, spinning, dev, rdwr_cnt, power_state, spindow,
                   pled, trigger, check, past>>

DNext ==
    \/ hdd_powercheck \/ read_bay \/ read_misc
    \/ \E s \in Slots : Use(s) \/ Standby(s) \/ Unplug(s) \/ Plug(s)
    \/ LedTaken \/ Time

DSpec == DInit /\ [][DNext]_dvars

(* The main loop runs its check for ever and time passes.  The signal that *)
(* /etc/bay was rewritten waits while signals are blocked and is delivered *)
(* when a check is over: hence strong fairness for read_bay.               *)
DFairSpec == DSpec /\ WF_dvars(hdd_powercheck) /\ WF_dvars(Time) /\ SF_dvars(read_bay)

-----------------------------------------------------------------------------
(* sysctrl.c:1200 "not active and unused for longer then programmed        *)
(* spindown": a disk is stopped only when it was without I/O for SpinTime  *)
(* at the time its counter was read.  There are two ways to stop a disk in *)
(* use, and no other: it is used between dstat() and spindown_disk(), or   *)
(* it replaced another disk and has not yet had as much I/O as that one,   *)
(* whose counter is still in the table.                                    *)
SpinDownOnlyIdle ==
    [][\A s \in plugged :
         spindown_disk(s) =>
           hit \/ s \in heirs \/ (s \in Opaque /\ idle[s] > spindow[s])]_dvars

(* A disk that cannot tell its power mode, is configured to sleep and is   *)
(* left alone, is eventually put to sleep.  One that replaced another may  *)
(* spin for ever: it inherits that disk's sleep with its counter.          *)
IdleSpinsDown ==
    \A s \in Opaque :
      <>[](s \in plugged \ heirs /\ idle[s] = Long /\ spindow[s] > 0)
        => <>[](~spinning[s])

(* The table follows the disks: a disk that tells its power mode and stays *)
(* in that mode is eventually recorded with it, whatever disk was in the   *)
(* slot before and however the bay file and the check interleaved.         *)
ModeTracked ==
    \A s \in Slots \ Opaque :
      /\ <>[](s \in plugged /\ spinning[s]) => <>[](power_state[s] = 1)
      /\ <>[](s \in plugged /\ ~spinning[s]) => <>[](power_state[s] = 0)

(* The disks whose mode sysctrl is told or can find out.                   *)
Known ==
    \A s \in plugged :
      power_state[s] # -1 /\ (s \in Opaque => spindow[s] > 0 /\ s \notin heirs)

(* sysctrl.c:1225 "at least one disk is active": when nobody else drives   *)
(* the power LED and every disk has a known mode, the LED settles on       *)
(* whether a disk is active, though modes are summed over a table that     *)
(* lags behind the disks.                                                  *)
PowerLedFollows ==
    \A active \in BOOLEAN :
      <>[](/\ trigger = "none" /\ plugged # {} /\ Known
           /\ active = (\E s \in plugged : spinning[s]))
        => <>[](pled = IF active THEN 1 ELSE 0)

(* What sysctrl believes of the disks, and shows, comes to be the truth.   *)
ModesFollowed == ModeTracked /\ PowerLedFollows
=============================================================================
