----------------------------- MODULE FrontPanel -----------------------------
(***************************************************************************)
(* The main loop of sysctrl, the daemon that owns the buttons of the box   *)
(* (sysctrl.c): one iteration a second samples the buttons, drives the     *)
(* front-button state machine, and runs the back-button dialogue and user  *)
(* scripts inline.  All signals are blocked from the top of an iteration   *)
(* to the sleep(1) that ends it.                                           *)
(*                                                                         *)
(* LEDs are added by module PanelLeds, the fan by module FanControl; here  *)
(* fanctl() only matters because it may run a user script inline.          *)
(***************************************************************************)
EXTENDS Integers, FiniteSets

CONSTANTS
    Buttons,      \* the buttons this board has, a subset of AllButtons
    McuBoard,     \* TRUE on boards whose power button is a file (DNS-320L...)
    FanInterval,  \* fan_interval
    TelnetHold,   \* back_button(): "ten seconds"
    ClearHold,    \* back_button(): "twenty seconds"
    Configs,      \* the configurations /etc/sysctrl.conf may hold
    CountCap,     \* saturation of mainloop's count
    Signals,      \* the signals that may be sent, a subset of {"TERM", "IO"}
    MaxPresses,   \* bound on the button presses of one behaviour
    ClockSteps    \* TRUE when the wall clock may be set during a press

AllButtons == {"front", "reset", "usb"}
BackButtons == {"reset", "usb"}

ASSUME ButtonsAssumption == Buttons \subseteq AllButtons
ASSUME BoardAssumption == McuBoard \in BOOLEAN /\ ClockSteps \in BOOLEAN
ASSUME IntervalAssumption == FanInterval \in Nat \ {0}
ASSUME BoundAssumption ==
    /\ TelnetHold \in Nat /\ ClearHold \in Nat /\ TelnetHold < ClearHold
    /\ CountCap \in Nat /\ CountCap > 9
    /\ MaxPresses \in Nat
    /\ Signals \subseteq {"TERM", "IO"}

(* The script options: TRUE when the command is configured.                *)
Args == [recovery : BOOLEAN, back : BOOLEAN, front1 : BOOLEAN, front2 : BOOLEAN]

ASSUME ConfigsAssumption == Configs \subseteq Args

(* Seconds are only compared with ClearHold: counting stops above it.      *)
HoldCap == ClearHold + 1

NO_BT == "none"
IDLE == 0
HALT == 3
REBOOT == 6
ABORT == 9

VARIABLES
    held,      \* the buttons under a finger
    pend,      \* the last input event not yet read from event0
    presses,   \* how many presses the user has made (bounded by MaxPresses)
    mcuOff,    \* /tmp/sys/power_button reads 0: the MCU power button is down
    bt,        \* debounce()'s static bt
    state,     \* mainloop's state
    count,     \* mainloop's count
    fronts,    \* history: samples of the front button in this dialogue
    backs,     \* history: samples of a back button in this dialogue
    fan_count, \* mainloop's fan_count, modulo FanInterval
    pc,        \* where the daemon is
    job,       \* the user script exec_userscript() waits for
    blocked,   \* the signal mask: TRUE between SIG_BLOCK and SIG_UNBLOCK
    elapsed,   \* back_button(): time(NULL) - count, saturated
    args,      \* the part of the configuration the buttons use
    sigs,      \* pending signals
    fate       \* what became of the process

samples == <<fronts, backs>>

vars == <<held, pend, presses, mcuOff, bt, state, count, samples, fan_count,
          pc, job, blocked, elapsed, args, sigs, fate>>

user == <<held, pend, presses, mcuOff>>

NoEvent == [b |-> NO_BT, down |-> FALSE]
Events == {NoEvent} \cup [b : Buttons, down : BOOLEAN]

Scripts == {"recover_f", "recover_t", "back", "eject", "front1", "front2", "temp"}

(* The continuation of exec_userscript(): where its caller goes next.      *)
Conts == {"loop", "reboot", "poweroff", "poll"}

NoJob == [script |-> "none", next |-> "none", alive |-> FALSE, alarm |-> "off"]
Jobs == {NoJob} \cup
        [script : Scripts, next : Conts, alive : BOOLEAN,
         alarm : {"armed", "pending"}]

Fates == {"running", "quit", "reboot", "poweroff"}

TypeOK ==
    /\ held \in SUBSET Buttons
    /\ pend \in Events
    /\ presses \in 0..MaxPresses
    /\ mcuOff \in BOOLEAN
    /\ bt \in Buttons \cup {NO_BT}
    /\ state \in {IDLE, HALT, REBOOT}
    /\ count \in 0..CountCap
    /\ fronts \in 0..REBOOT /\ backs \in 0..REBOOT
    /\ fan_count \in 0..(FanInterval - 1)
    /\ pc \in {"top", "poll", "back", "script", "sleep", "gone"}
    /\ job \in Jobs
    /\ blocked \in BOOLEAN
    /\ elapsed \in 0..HoldCap
    /\ args \in Configs
    /\ sigs \in SUBSET Signals
    /\ fate \in Fates

Init ==
    /\ held = {} /\ pend = NoEvent /\ presses = 0 /\ mcuOff = FALSE
    /\ bt = NO_BT
    /\ state = IDLE
    /\ count = 0 /\ fronts = 0 /\ backs = 0
    /\ fan_count = FanInterval - 1
    /\ pc = "top"
    /\ job = NoJob
    /\ blocked = FALSE
    /\ elapsed = 0
    /\ args \in Configs
    /\ sigs = {}
    /\ fate = "running"

-----------------------------------------------------------------------------
(* The user and the rest of the system.                                    *)

Press(b) ==
    /\ fate = "running"
    /\ b \notin held /\ presses < MaxPresses
    /\ held' = held \cup {b}
    /\ pend' = [b |-> b, down |-> TRUE]
    /\ presses' = presses + 1
    /\ UNCHANGED <<mcuOff, bt, state, count, samples, fan_count, pc, job,
                   blocked, elapsed, args, sigs, fate>>

Release(b) ==
    /\ fate = "running"
    /\ b \in held
    /\ held' = held \ {b}
    /\ pend' = [b |-> b, down |-> FALSE]
    /\ UNCHANGED <<presses, mcuOff, bt, state, count, samples, fan_count, pc,
                   job, blocked, elapsed, args, sigs, fate>>

(* The user presses or lets go of the power button of an MCU board.        *)
(* /tmp/sys/power_button is the level of a gpio line: nothing remembers a  *)
(* press that is over before debounce() reads it.                          *)
McuButton ==
    /\ fate = "running" /\ McuBoard
    /\ mcuOff' = ~mcuOff
    /\ UNCHANGED <<held, pend, presses, bt, state, count, samples, fan_count, pc,
                   job, blocked, elapsed, args, sigs, fate>>

(* A stop request, or a changed configuration file seen by inotify.        *)
Signal(s) ==
    /\ fate = "running" /\ s \notin sigs
    /\ sigs' = sigs \cup {s}
    /\ UNCHANGED <<user, bt, state, count, samples, fan_count, pc, job, blocked,
                   elapsed, args, fate>>

(* ntpd or the administrator sets the clock while back_button() measures.  *)
ClockStep ==
    /\ ClockSteps /\ pc = "back"
    /\ elapsed' \in 0..HoldCap
    /\ UNCHANGED <<user, bt, state, count, samples, fan_count, pc, job, blocked,
                   args, sigs, fate>>

-----------------------------------------------------------------------------
(* Mutant: the PRESSED bit is tested the wrong way round.                  *)
DebounceInverted ==
    IF pend = NoEvent THEN bt ELSE IF pend.down THEN NO_BT ELSE pend.b

(* debounce(): the events queued since the last call are drained and the   *)
(* last one decides; without an event the stored button is returned.       *)
Debounce ==
    IF pend = NoEvent THEN bt ELSE IF pend.down THEN pend.b ELSE NO_BT

(* exec_userscript(script, ...) called by code that continues at next.     *)
ExecUserscript(script, next) ==
    /\ job' = [script |-> script, next |-> next, alive |-> TRUE, alarm |-> "armed"]
    /\ pc' = "script"
    /\ UNCHANGED fate

(* poweroff() and reboot(): the configured script, if any, then execl().   *)
GoDown(how, configured, script) ==
    IF configured
    THEN ExecUserscript(script, how)
    ELSE pc' = "gone" /\ fate' = how /\ UNCHANGED job

(* Mutant: poweroff() without its execl().                                 *)
PoweroffNoExec == ExecUserscript("front2", "loop")

poweroff == GoDown("poweroff", args.front2, "front2")
reboot == GoDown("reboot", args.front1, "front1")

(* debounce() on an MCU board: the line reads 0 just now, poweroff().      *)
McuPoweroff ==
    /\ McuBoard /\ mcuOff
    /\ pc \in {"poll", "back"}
    /\ poweroff
    /\ UNCHANGED <<user, bt, state, count, samples, fan_count, blocked, elapsed,
                   args, sigs>>

BlockSignals == blocked' = TRUE

(* The top of the loop: block signals, run fanctl() every FanInterval      *)
(* iterations; fanctl() may run the warning or critical command.           *)
BeginIteration ==
    /\ pc \in {"top", "sleep"}
    /\ blocked \/ sigs = {}   \* a signal let through is delivered at once
    /\ BlockSignals
    /\ fan_count' = (fan_count + 1) % FanInterval
    /\ \/ pc' = "poll" /\ UNCHANGED <<job, fate>>
       \/ fan_count = 0 /\ ExecUserscript("temp", "poll")
    /\ UNCHANGED <<user, bt, state, count, samples, elapsed, args, sigs>>

(* Mutant: the iteration ends without unblocking signals.                  *)
EndIterationMasked == pc' = "sleep" /\ UNCHANGED <<blocked, job, fate>>

(* The end of an iteration: unblock signals and sleep(1).                  *)
EndIteration == pc' = "sleep" /\ blocked' = FALSE /\ UNCHANGED <<job, fate>>

(* The histories stop at REBOOT, the most that a state stands for.         *)
OneMore(n) == IF n < REBOOT THEN n + 1 ELSE n

Tick == IF count < CountCap THEN count + 1 ELSE CountCap

(* Mutant: HALT is entered one iteration early.                            *)
AdvanceEarly(s, c) ==
    CASE s = IDLE /\ c = HALT - 1 -> <<HALT, c>>
      [] s = HALT /\ c = REBOOT -> <<REBOOT, c>>
      [] s = REBOOT /\ c = ABORT -> <<IDLE, 0>>
      [] OTHER -> <<s, c>>

(* The switch on state, for a front button still pressed: state and count  *)
(* after the iteration.                                                    *)
Advance(s, c) ==
    IF s = IDLE /\ c = HALT THEN <<HALT, c>>
    ELSE IF s = HALT /\ c = REBOOT THEN <<REBOOT, c>>
    ELSE IF s = REBOOT /\ c = ABORT THEN <<IDLE, 0>>
    ELSE <<s, c>>

Poll(sampled) ==
    /\ pc = "poll" /\ ~(McuBoard /\ mcuOff)
    /\ Debounce = sampled
    /\ bt' = sampled /\ pend' = NoEvent
    /\ UNCHANGED <<held, presses, mcuOff, fan_count, args, sigs>>

(* A sampled back button: back_button() is entered, then `continue'.       *)
PollBack ==
    /\ \E b \in BackButtons : Poll(b)
    /\ count' = Tick
    /\ backs' = OneMore(backs)
    /\ pc' = "back" /\ elapsed' = 0
    /\ UNCHANGED <<state, fronts, job, blocked, fate>>

(* The switch, with the front button pressed.  An abort ends the dialogue. *)
PollHeld ==
    /\ Poll("front")
    /\ state' = Advance(state, Tick)[1] /\ count' = Advance(state, Tick)[2]
    /\ IF state' # IDLE \/ state = IDLE
       THEN fronts' = OneMore(fronts) /\ UNCHANGED backs
       ELSE fronts' = 0 /\ backs' = 0
    /\ EndIteration
    /\ UNCHANGED elapsed

(* The switch, with no button pressed.                                     *)
PollReleased ==
    /\ Poll(NO_BT)
    /\ state' = IDLE /\ count' = 0 /\ fronts' = 0 /\ backs' = 0
    /\ \/ state = IDLE /\ EndIteration
       \/ state = HALT /\ poweroff /\ UNCHANGED blocked
       \/ state = REBOOT /\ reboot /\ UNCHANGED blocked
    /\ UNCHANGED elapsed

(* What back_button() runs for a press that measured e seconds.            *)
BackScript(e) ==
    IF args.recovery /\ e > ClearHold THEN "recover_f"
    ELSE IF args.recovery /\ e > TelnetHold THEN "recover_t"
    ELSE IF args.back THEN "back" ELSE "eject"

Later(t, d) == IF t + d < HoldCap THEN t + d ELSE HoldCap

(* One turn of back_button()'s do-while: sample, and leave it when no back *)
(* button is the stored one.  Seconds pass between turns.                  *)
BackPoll ==
    /\ pc = "back" /\ ~(McuBoard /\ mcuOff)
    /\ bt' = Debounce /\ pend' = NoEvent
    /\ \E d \in {0, 1} :
         /\ elapsed' = Later(elapsed, d)
         /\ IF Debounce \in BackButtons
            THEN UNCHANGED <<pc, job, fate>>
            ELSE ExecUserscript(BackScript(Later(elapsed, d)), "loop")
    /\ UNCHANGED <<held, presses, mcuOff, state, count, samples, fan_count,
                   blocked, args, sigs>>

-----------------------------------------------------------------------------
(* The child terminates.                                                   *)
ScriptEnds ==
    /\ pc = "script" /\ job.alive
    /\ job' = [job EXCEPT !.alive = FALSE]
    /\ UNCHANGED <<user, bt, state, count, samples, fan_count, pc, blocked,
                   elapsed, args, sigs, fate>>

(* alarm(timeout) expires.                                                 *)
AlarmRings ==
    /\ pc = "script" /\ job.alarm = "armed"
    /\ job' = [job EXCEPT !.alarm = "pending"]
    /\ UNCHANGED <<user, bt, state, count, samples, fan_count, pc, blocked,
                   elapsed, args, sigs, fate>>

(* waitpid() returns when the child is gone, or interrupted by a SIGALRM   *)
(* that the signal mask lets through.                                      *)
WaitOver == ~job.alive \/ (job.alarm = "pending" /\ ~blocked)

ScriptReturns ==
    /\ pc = "script"
    /\ WaitOver
    /\ job' = NoJob
    /\ elapsed' = 0
    /\ \/ job.next = "loop" /\ pc' = "top" /\ UNCHANGED fate
       \/ job.next = "poll" /\ pc' = "poll" /\ UNCHANGED fate
       \/ job.next \in {"reboot", "poweroff"} /\ pc' = "gone" /\ fate' = job.next
    /\ UNCHANGED <<user, bt, state, count, samples, fan_count, blocked, args,
                   sigs>>

(* Signal handlers, which only run while signals are not blocked.          *)
QuitHandler ==
    /\ pc \in {"top", "sleep"} /\ ~blocked /\ "TERM" \in sigs
    /\ pc' = "gone" /\ fate' = "quit"
    /\ UNCHANGED <<user, bt, state, count, samples, fan_count, job, blocked,
                   elapsed, args, sigs>>

InotifyHandler ==
    /\ pc \in {"top", "sleep"} /\ ~blocked /\ "IO" \in sigs
    /\ args' \in Configs
    /\ sigs' = sigs \ {"IO"}
    /\ UNCHANGED <<user, bt, state, count, samples, fan_count, pc, job, blocked,
                   elapsed, fate>>

Gone == pc = "gone" /\ UNCHANGED vars

Loop == BeginIteration \/ McuPoweroff \/ PollBack \/ PollHeld \/ PollReleased
        \/ BackPoll \/ ScriptReturns \/ QuitHandler \/ InotifyHandler

Next ==
    \/ \E b \in Buttons : Press(b) \/ Release(b)
    \/ McuButton
    \/ \E s \in Signals : Signal(s)
    \/ ClockStep
    \/ Loop
    \/ ScriptEnds \/ AlarmRings
    \/ Gone

Spec == Init /\ [][Next]_vars

-----------------------------------------------------------------------------
(* Properties.                                                             *)

Deciding == state # IDLE /\ state' = IDLE
            /\ (fate' \in {"reboot", "poweroff"} \/ job'.script \in {"front1", "front2"})

(* The decision of the switch in mainloop to reboot or power off is taken  *)
(* with the finger off the front button: no stored button or counter left  *)
(* by an earlier press makes the box go down under a finger.               *)
DownOnRelease == [][Deciding => "front" \notin held]_vars

(* Signals stay blocked in the whole of an iteration, back_button() and    *)
(* exec_userscript() included, so the configuration a dialogue started     *)
(* with is the one it ends with ("block signal delivery (critical          *)
(* section)"), and the timer of a script can not interrupt its waitpid().  *)
CriticalSection ==
    /\ pc \in {"poll", "back", "script"} => blocked
    /\ pc = "sleep" => ~blocked

(* A user takes the box down on purpose: HALT and REBOOT are entered only  *)
(* in a dialogue in which the front button was sampled, and in which the   *)
(* daemon took three or six samples with a button pressed since the last   *)
(* one with none.  With the front button alone these are samples of a      *)
(* press of that length.  A back button counts too: its `continue' keeps   *)
(* count, so that two of its dialogues and one sample of the front button  *)
(* are enough for HALT.                                                    *)
CountCoversState == state # IDLE => fronts > 0 /\ fronts + backs >= state

(* The invariants of the main loop, one depending on the other: a handler  *)
(* that ran inside a dialogue would change what count and state stand for. *)
Safe == TypeOK /\ CriticalSection /\ CountCoversState

(* A stop request is served even when it arrives while a back-button       *)
(* dialogue, a script or the front-button machine is under way.            *)
TermServed == ("TERM" \in sigs) ~> (fate # "running")

(* On MCU boards a power button that stays pressed is served wherever the  *)
(* daemon is: in the main loop, in the back-button dialogue or behind a    *)
(* script.  One that is let go before the next look at it may be missed.   *)
McuButtonServed == mcuOff ~> (~mcuOff \/ fate # "running")
=============================================================================
