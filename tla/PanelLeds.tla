----------------------------- MODULE PanelLeds ------------------------------
(***************************************************************************)
(* The two orange LEDs of the box, added to the main loop of FrontPanel.   *)
(* Three writers share them: the button dialogues, the five-second status  *)
(* check (disk standby, degraded RAID, system error log) and its           *)
(* "priority queue" leds_pqueue.  Every step of FrontPanel is extended     *)
(* with what it does to the LEDs.                                          *)
(***************************************************************************)
EXTENDS FrontPanel

CONSTANTS
    Arrays,   \* the md devices md0..md8 that may exist
    Bays,     \* the bays with a disk, a subset of Led
    Logs,     \* what other programs may make of the system error log
    CheckInterval  \* powercheck_interval

Led == {"left", "right"}

ASSUME PanelAssumption ==
    /\ Bays \subseteq Led
    /\ Logs \subseteq {"absent", "empty", "full"}
    /\ CheckInterval \in Nat \ {0}

VARIABLES
    led,         \* what each LED shows
    powercheck,  \* mainloop's powercheck_count, modulo CheckInterval
    queue,       \* leds_pqueue
    md,          \* the md devices: external
    degraded,    \* md_stat()'s static degraded[]
    last,        \* md_stat()'s static last_degraded
    log,         \* /var/log/systemerror.log: external writers and readers too
    logSeen,     \* check_syserrlog()'s static leds_state
    mode,        \* the power mode of the disk in each bay: external
    power        \* disks[].power_state

status == <<queue, degraded, last, log, logSeen, power>>
outside == <<md, mode>>
pvars == <<vars, led, powercheck, status, outside>>

Priorities == 0..2     \* PHIGH, PMED, PLOW
PHIGH == 0
PLOW == 2
QueueModes == {"NA", "OFF", "ON"}
MdStates == {"absent", "inactive", "clean", "degraded"}

AllOff == [l \in Led |-> "off"]
AllOn == [l \in Led |-> "on"]
AllFast == [l \in Led |-> "fast"]
Blinking(x) == [l \in Led |-> IF l = x THEN "fast" ELSE "off"]

PTypeOK ==
    /\ led \in [Led -> {"off", "on", "fast", "slow"}]
    /\ powercheck \in 0..(CheckInterval - 1)
    /\ queue \in [Priorities -> QueueModes]
    /\ md \in [Arrays -> MdStates]
    /\ degraded \in [Arrays -> BOOLEAN]
    /\ last \in BOOLEAN
    /\ log \in {"absent", "empty", "full"}
    /\ logSeen \in BOOLEAN
    /\ mode \in [Led -> {"active", "standby"}]
    /\ power \in [Led -> {"active", "standby"}]

PInit ==
    /\ Init
    /\ led = AllOff
    /\ powercheck = CheckInterval - 1
    /\ queue = [i \in Priorities |-> "OFF"]
    /\ md \in [Arrays -> MdStates]
    /\ degraded = [a \in Arrays |-> FALSE]
    /\ last = FALSE
    /\ log = "absent"
    /\ logSeen = FALSE
    /\ mode = [b \in Led |-> "active"]
    /\ power = [b \in Led |-> "active"]

-----------------------------------------------------------------------------
(* hdd_powercheck(): a disk that changed power state sets the LED of its   *)
(* bay, led_blink(i, "10", "2000") for standby, off for active.            *)
DiskLeds ==
    [b \in Led |-> IF b \in Bays /\ power[b] # mode[b]
                   THEN IF mode[b] = "standby" THEN "slow" ELSE "off"
                   ELSE led[b]]

(* md_stat(): a device that is not there is skipped, its entry kept.       *)
DegradedNow ==
    [a \in Arrays |-> IF md[a] = "absent" THEN degraded[a]
                      ELSE md[a] = "degraded"]

Newly == \E a \in Arrays : md[a] = "degraded" /\ ~degraded[a]
Any == \E a \in Arrays : DegradedNow[a]

MdQueue ==
    IF Newly THEN [queue EXCEPT ![PHIGH] = "ON"]
    ELSE IF last /\ ~Any THEN [queue EXCEPT ![PHIGH] = "OFF"]
    ELSE queue

(* syserrorlog() called by md_stat() for a newly degraded array.           *)
MdLog == IF Newly THEN "full" ELSE log

(* check_syserrlog(): leds_state follows whether the log has content.      *)
LogNow == MdLog = "full"

LogQueue ==
    IF LogNow /\ ~logSeen THEN [MdQueue EXCEPT ![PLOW] = "ON"]
    ELSE IF ~LogNow /\ logSeen THEN [MdQueue EXCEPT ![PLOW] = "OFF"]
    ELSE MdQueue

Apply(l, m) == IF m = "OFF" THEN AllOff ELSE IF m = "ON" THEN AllOn ELSE l

(* leds_proc(): every level is applied, from PHIGH down to PLOW.           *)
LedsProc(l, q) == Apply(Apply(Apply(l, q[0]), q[1]), q[2])

(* Mutant: an indication is consumed when it is shown.                     *)
OneShot(m) == "NA"

(* leds_proc(): an "off" is done once, an "on" is repeated at every check. *)
Consumed(m) == IF m = "OFF" THEN "NA" ELSE m

(* The status check of an iteration that samples no button.                *)
StatusCheck ==
    /\ power' = [b \in Led |-> IF b \in Bays THEN mode[b] ELSE power[b]]
    /\ degraded' = DegradedNow
    /\ last' = (Newly \/ (last /\ Any))
    /\ log' = MdLog
    /\ logSeen' = LogNow
    /\ queue' = [i \in Priorities |-> Consumed(LogQueue[i])]
    /\ led' = IF state # IDLE THEN AllOff ELSE LedsProc(DiskLeds, LogQueue)

CountCheck == powercheck' = (powercheck + 1) % CheckInterval

Released ==
    /\ PollReleased
    /\ CountCheck
    /\ \/ powercheck' = 0 /\ StatusCheck
       \/ /\ powercheck' # 0
          /\ led' = (IF state # IDLE THEN AllOff ELSE led)
          /\ UNCHANGED status
    /\ UNCHANGED outside

(* Mutant: entering REBOOT leaves the right LED blinking.                  *)
HeldLedsBoth(from, to) ==
    IF from = to THEN IF from = IDLE THEN AllOff ELSE led
    ELSE IF to = HALT THEN Blinking("right")
    ELSE IF to = REBOOT THEN [led EXCEPT !["left"] = "fast"]
    ELSE AllOff

(* The LEDs after an iteration that samples the front button: off while    *)
(* IDLE, right blinking in HALT, left in REBOOT, off after an abort.       *)
HeldLeds(from, to) ==
    IF from = to THEN IF from = IDLE THEN AllOff ELSE led
    ELSE IF to = HALT THEN Blinking("right")
    ELSE IF to = REBOOT THEN Blinking("left")
    ELSE AllOff

Held ==
    /\ PollHeld
    /\ CountCheck
    /\ led' = HeldLeds(state, state')
    /\ UNCHANGED <<status, outside>>

(* back_button() blinks both LEDs ...                                      *)
Back ==
    /\ PollBack
    /\ CountCheck
    /\ led' = AllFast
    /\ UNCHANGED <<status, outside>>

(* ... and turns them off when its script is over.                         *)
Returns ==
    /\ ScriptReturns
    /\ led' = (IF job.next = "loop" THEN AllOff ELSE led)
    /\ UNCHANGED <<powercheck, status, outside>>

(* The steps that do not touch the LEDs.                                   *)
Other ==
    /\ \/ \E b \in Buttons : Press(b) \/ Release(b)
       \/ McuButton
       \/ \E s \in Signals : Signal(s)
       \/ ClockStep
       \/ BeginIteration \/ McuPoweroff \/ BackPoll
       \/ ScriptEnds \/ AlarmRings
       \/ QuitHandler \/ InotifyHandler
    /\ UNCHANGED <<led, powercheck, status, outside>>

-----------------------------------------------------------------------------
(* The kernel, mdadm, the disks and the administrator.                     *)
MdChange(a) ==
    /\ pc # "gone"
    /\ \E s \in MdStates \ {md[a]} : md' = [md EXCEPT ![a] = s]
    /\ UNCHANGED <<vars, led, powercheck, status, mode>>

LogChange(s) ==
    /\ pc # "gone"
    /\ log # s /\ log' = s
    /\ UNCHANGED <<vars, led, powercheck, queue, degraded, last, logSeen, power,
                   outside>>

DiskChange(b) ==
    /\ pc # "gone"
    /\ mode' = [mode EXCEPT ![b] = IF @ = "active" THEN "standby" ELSE "active"]
    /\ UNCHANGED <<vars, led, powercheck, status, md>>

PNext ==
    \/ Released \/ Held \/ Back \/ Returns \/ Other
    \/ \E a \in Arrays : MdChange(a)
    \/ \E s \in Logs : LogChange(s)
    \/ \E b \in Bays : DiskChange(b)
    \/ pc = "gone" /\ UNCHANGED pvars

PSpec == PInit /\ [][PNext]_pvars

(* The daemon is always scheduled, and scripts terminate.  A signal cuts   *)
(* sleep(1) short, so that signals delay the next iteration but can not    *)
(* hold it off for ever: hence strong fairness for BeginIteration.         *)
Fairness ==
    /\ SF_pvars(BeginIteration /\ Other)
    /\ WF_pvars(Released \/ Held \/ Back \/ Returns \/ (BackPoll /\ Other)
                \/ (ScriptEnds /\ Other) \/ (McuPoweroff /\ Other))
    /\ WF_pvars(QuitHandler /\ Other) /\ WF_pvars(InotifyHandler /\ Other)

PFairSpec == PSpec /\ Fairness

-----------------------------------------------------------------------------
(* With the front button alone, the LEDs tell a user what a release would  *)
(* do: no status check, queue entry or disk event overwrites them while    *)
(* the button is held.                                                     *)
LedTellsState ==
    /\ state = HALT => led = Blinking("right")
    /\ state = REBOOT => led = Blinking("left")

(* Nothing is promised by a daemon that is gone or behind a stuck finger.  *)
Busy == <>(fate # "running") \/ <>[](held # {})

(* A RAID array that stays degraded is shown again and again, whatever     *)
(* button dialogue or emptied log turned the LEDs off in between.          *)
DegradedShown ==
    \A a \in Arrays : <>[](md[a] = "degraded") => ([]<>(led = AllOn) \/ Busy)

(* A non-empty system error log is shown again and again.                  *)
LogShown == <>[](log = "full") => ([]<>(led = AllOn) \/ Busy)

(* Once every array is there and clean, and the log is empty, nothing      *)
(* keeps the LEDs on.                                                      *)
StatusClears ==
    <>[](log = "empty" /\ \A a \in Arrays : md[a] = "clean")
      => (<>[](led # AllOn) \/ Busy)

(* An indication lasts as long as its cause: it comes back after whatever  *)
(* put it out, and goes when the cause is gone.                            *)
LedsFollowCauses == DegradedShown /\ LogShown /\ StatusClears
=============================================================================
