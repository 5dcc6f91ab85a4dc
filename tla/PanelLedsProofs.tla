-------------------------- MODULE PanelLedsProofs ---------------------------
(***************************************************************************)
(* First the safety invariants of FrontPanel, for every board,             *)
(* configuration, interval and bound.  PanelLeds adds LEDs to it and takes *)
(* nothing away: every behaviour of PSpec is a behaviour of Spec, so these *)
(* theorems hold of it too.  On top of that, what the LEDs tell.           *)
(***************************************************************************)
EXTENDS PanelLeds, TLAPS

(* exec_userscript() waits for a script it forked; nobody else has one.    *)
JobRunning == pc = "script" <=> job # NoJob

(* mainloop's count never exceeds the samples it stands for.               *)
SamplesCount == fronts + backs >= count \/ fronts = REBOOT \/ backs = REBOOT

IInv == TypeOK /\ CriticalSection /\ CountCoversState /\ SamplesCount /\ JobRunning

USE ButtonsAssumption, BoardAssumption, IntervalAssumption, BoundAssumption,
    ConfigsAssumption
    DEF IDLE, HALT, REBOOT, ABORT

-----------------------------------------------------------------------------
(* Facts about the operators of the model.                                 *)

(* debounce() returns a button of the board, or none.                      *)
LEMMA DebounceType ==
    ASSUME TypeOK PROVE Debounce \in Buttons \cup {NO_BT}
BY DEF TypeOK, Debounce, Events, NoEvent

(* Counting stays within its cap and moves past every state it can reach.  *)
LEMMA TickType ==
    ASSUME TypeOK
    PROVE  Tick \in 0..CountCap /\ Tick >= count
BY DEF TypeOK, Tick

(* The histories of a dialogue stop at REBOOT and never go back.           *)
LEMMA OneMoreType ==
    ASSUME NEW n \in 0..REBOOT
    PROVE  OneMore(n) \in 0..REBOOT /\ OneMore(n) >= n /\ OneMore(n) > 0
           /\ (OneMore(n) = n + 1 \/ OneMore(n) = REBOOT)
BY DEF OneMore

(* The arithmetic of a sample: f and b are the histories after it, t is    *)
(* what count reached, c and n the count and the state that the switch     *)
(* leaves.                                                                 *)
LEMMA SampleCounted ==
    ASSUME NEW f \in 1..6, NEW b \in 0..6, NEW t \in Nat, NEW c \in {t, 0},
           NEW f0 \in 0..6, NEW s \in {0, 3, 6}, NEW n \in {s, t, 0},
           n \in {0, 3, 6}, f >= f0, s # 0 => f0 > 0 /\ f0 + b >= s,
           f + b >= t \/ f = 6 \/ b = 6
    PROVE  /\ f + b >= c \/ f = 6 \/ b = 6
           /\ n # 0 => f > 0 /\ f + b >= n
OBVIOUS

LEMMA LaterType ==
    ASSUME NEW t \in 0..HoldCap, NEW d \in {0, 1}
    PROVE  Later(t, d) \in 0..HoldCap
BY DEF Later, HoldCap

(* back_button() always has something to run.                              *)
LEMMA BackScriptType ==
    ASSUME TypeOK, NEW e \in 0..HoldCap
    PROVE  BackScript(e) \in Scripts
BY DEF TypeOK, BackScript, Scripts, Args, HoldCap

(* exec_userscript() leaves a well-formed job behind.                      *)
LEMMA ExecUserscriptType ==
    ASSUME NEW s \in Scripts, NEW n \in Conts, fate \in Fates, ExecUserscript(s, n)
    PROVE  /\ job' \in Jobs /\ job' # NoJob
           /\ pc' = "script" /\ fate' \in Fates
BY DEF ExecUserscript, Jobs, NoJob, Scripts

LEMMA GoDownType ==
    ASSUME fate \in Fates, poweroff \/ reboot, job \in Jobs
    PROVE  \/ pc' = "script" /\ job' \in Jobs /\ job' # NoJob /\ fate' \in Fates
           \/ pc' = "gone" /\ job' = job /\ fate' \in Fates
<1>1. "front1" \in Scripts /\ "front2" \in Scripts
      /\ "reboot" \in Conts /\ "poweroff" \in Conts
  BY DEF Scripts, Conts
<1>2. CASE poweroff
  BY <1>1, <1>2, ExecUserscriptType DEF poweroff, GoDown, Fates
<1>3. CASE reboot
  BY <1>1, <1>3, ExecUserscriptType DEF reboot, GoDown, Fates
<1> QED BY <1>2, <1>3

-----------------------------------------------------------------------------
LEMMA InitIInv == Init => IInv
<1> SUFFICES ASSUME Init PROVE IInv
  OBVIOUS
<1>1. TypeOK
  <2>1. pend \in Events /\ job \in Jobs /\ fate \in Fates
    BY DEF Init, Events, Jobs, Fates
  <2>2. presses \in 0..MaxPresses /\ count \in 0..CountCap /\ fan_count \in 0..(FanInterval - 1)
    BY DEF Init
  <2>3. elapsed \in 0..HoldCap
    BY DEF Init, HoldCap
  <2>4. args \in Configs /\ blocked \in BOOLEAN /\ mcuOff \in BOOLEAN
    BY DEF Init
  <2> QED BY <2>1, <2>2, <2>3, <2>4 DEF Init, TypeOK
<1>2. CriticalSection /\ CountCoversState /\ SamplesCount /\ JobRunning
  BY DEF Init, CriticalSection, samples, CountCoversState, SamplesCount, JobRunning
<1> QED BY <1>1, <1>2 DEF IInv

LEMMA NextIInv == IInv /\ [Next]_vars => IInv'
<1> SUFFICES ASSUME IInv, [Next]_vars PROVE IInv'
  OBVIOUS
<1> USE DEF IInv, CriticalSection, CountCoversState, SamplesCount, JobRunning, samples
<1>1. ASSUME NEW b \in Buttons, Press(b) PROVE IInv'
  BY <1>1 DEF Press, TypeOK, Events
<1>2. ASSUME NEW b \in Buttons, Release(b) PROVE IInv'
  BY <1>2 DEF Release, TypeOK, Events
<1>3. CASE McuButton
  BY <1>3 DEF McuButton, TypeOK
<1>4. ASSUME NEW s \in Signals, Signal(s) PROVE IInv'
  BY <1>4 DEF Signal, user, TypeOK
<1>5. CASE ClockStep
  BY <1>5 DEF ClockStep, user, TypeOK
<1>6. CASE BeginIteration
  <2>1. fan_count' \in 0..(FanInterval - 1)
    BY <1>6 DEF BeginIteration, TypeOK
  <2>2. "temp" \in Scripts /\ "poll" \in Conts
    BY DEF Scripts, Conts
  <2>3. \/ pc' = "poll" /\ job' = job /\ fate' = fate
        \/ pc' = "script" /\ job' \in Jobs /\ job' # NoJob /\ fate' \in Fates
    BY <1>6, <2>2, ExecUserscriptType DEF BeginIteration, TypeOK
  <2>4. pc # "script"
    BY <1>6 DEF BeginIteration
  <2> QED BY <1>6, <2>1, <2>3, <2>4
          DEF BeginIteration, BlockSignals, user, TypeOK
<1>7. CASE McuPoweroff
  <2>1. poweroff /\ pc # "script" /\ blocked
    BY <1>7 DEF McuPoweroff
  <2>2. \/ pc' = "script" /\ job' \in Jobs /\ job' # NoJob /\ fate' \in Fates
        \/ pc' = "gone" /\ job' = job /\ fate' \in Fates
    BY <2>1, GoDownType DEF TypeOK
  <2> QED BY <1>7, <2>1, <2>2
          DEF McuPoweroff, user, TypeOK
<1>8. CASE PollBack
  <2>1. /\ bt' \in Buttons \cup {NO_BT} /\ pend' \in Events /\ elapsed' \in 0..HoldCap
        /\ count' \in 0..CountCap /\ backs' \in 0..REBOOT
    BY <1>8, DebounceType, TickType, OneMoreType
       DEF PollBack, Poll, TypeOK, Events, HoldCap
  <2>2. CountCoversState'
    BY <1>8, OneMoreType DEF PollBack, Poll, TypeOK
  <2>3. SamplesCount'
    BY <1>8, OneMoreType DEF PollBack, Poll, TypeOK, Tick
  <2>4. blocked' = blocked /\ blocked /\ job' = job /\ job = NoJob /\ pc' = "back"
    BY <1>8 DEF PollBack, Poll
  <2> QED BY <1>8, <2>1, <2>2, <2>3, <2>4 DEF PollBack, Poll, TypeOK
<1>9. CASE PollHeld
  <2>1. /\ state' = Advance(state, Tick)[1] /\ count' = Advance(state, Tick)[2]
        /\ IF state' # IDLE \/ state = IDLE
           THEN fronts' = OneMore(fronts) /\ backs' = backs
           ELSE fronts' = 0 /\ backs' = 0
    BY <1>9 DEF PollHeld
  <2>2. /\ state' \in {IDLE, HALT, REBOOT} /\ count' \in 0..CountCap
        /\ fronts' \in 0..REBOOT /\ backs' \in 0..REBOOT
    BY <2>1, TickType, OneMoreType DEF Advance, TypeOK
  <2>3. fronts + backs + 1 >= Tick \/ fronts = REBOOT \/ backs = REBOOT
    BY DEF TypeOK, Tick
  <2>4. CountCoversState' /\ SamplesCount'
    <3>1. CASE state' # IDLE \/ state = IDLE
      <4>1. /\ fronts' \in 1..REBOOT /\ fronts' >= fronts /\ backs' = backs
            /\ fronts' = fronts + 1 \/ fronts' = REBOOT
        BY <2>1, <3>1, OneMoreType DEF TypeOK
      <4>2. fronts' + backs' >= Tick \/ fronts' = REBOOT \/ backs' = REBOOT
        BY <2>3, <4>1, TickType DEF TypeOK
      <4>3. /\ count' = Tick \/ count' = 0
            /\ state' = state \/ state' = Tick \/ state' = IDLE
        BY <2>1 DEF Advance
      <4>4. /\ state # 0 => fronts > 0 /\ fronts + backs >= state
            /\ Tick \in Nat /\ count' \in {Tick, 0} /\ state' \in {state, Tick, 0}
            /\ state \in {0, 3, 6} /\ state' \in {0, 3, 6}
            /\ fronts' \in 1..6 /\ fronts \in 0..6 /\ backs \in 0..6
            /\ fronts' >= fronts
            /\ fronts' + backs >= Tick \/ fronts' = 6 \/ backs = 6
        BY <2>2, <4>1, <4>2, <4>3, TickType DEF TypeOK
      <4>5. /\ fronts' + backs >= count' \/ fronts' = 6 \/ backs = 6
            /\ state' # 0 => fronts' > 0 /\ fronts' + backs >= state'
        BY <4>4, SampleCounted, ZenonT(60)
      <4> QED BY <4>1, <4>5
    <3>2. CASE ~(state' # IDLE \/ state = IDLE)
      <4>1. count' = 0 /\ fronts' = 0 /\ backs' = 0
        BY <2>1, <3>2 DEF Advance
      <4> QED BY <3>2, <4>1
    <3> QED BY <3>1, <3>2
  <2>5. /\ bt' \in Buttons \cup {NO_BT} /\ pend' \in Events
        /\ pc' = "sleep" /\ blocked' = FALSE /\ job' = job /\ job = NoJob
    BY <1>9, DebounceType DEF PollHeld, Poll, EndIteration, Events
  <2> QED BY <1>9, <2>2, <2>4, <2>5 DEF PollHeld, Poll, EndIteration, TypeOK
<1>17. CASE PollReleased
  <2>1. /\ blocked /\ job = NoJob /\ pc = "poll"
        /\ bt' \in Buttons \cup {NO_BT} /\ pend' \in Events
    BY <1>17 DEF PollReleased, Poll, Events
  <2>2. \/ pc' = "sleep" /\ blocked' = FALSE /\ job' = job /\ fate' = fate
        \/ /\ blocked' = blocked
           /\ \/ pc' = "script" /\ job' \in Jobs /\ job' # NoJob /\ fate' \in Fates
              \/ pc' = "gone" /\ job' = job /\ fate' \in Fates
    BY <1>17, GoDownType DEF PollReleased, EndIteration, TypeOK
  <2>3. TypeOK'
    <3>1. fate' \in Fates /\ job' \in Jobs /\ blocked' \in BOOLEAN
      BY <2>1, <2>2 DEF TypeOK
    <3>2. /\ state' = IDLE /\ count' = 0 /\ fronts' = 0 /\ backs' = 0
          /\ UNCHANGED <<held, presses, mcuOff, fan_count, args, sigs, elapsed>>
      BY <1>17 DEF PollReleased, Poll
    <3>3. pc' \in {"script", "sleep", "gone"}
      BY <2>2
    <3>4. count' \in 0..CountCap /\ fronts' \in 0..REBOOT /\ backs' \in 0..REBOOT
      BY <3>2
    <3> QED BY <2>1, <3>1, <3>2, <3>3, <3>4 DEF TypeOK
  <2>4. CriticalSection' /\ CountCoversState' /\ SamplesCount' /\ JobRunning'
    <3>1. state' = IDLE /\ count' = 0 /\ fronts' = 0 /\ backs' = 0
      BY <1>17 DEF PollReleased
    <3>2. (pc' = "script" <=> job' # NoJob)
          /\ (pc' \in {"poll", "back", "script"} => blocked')
          /\ (pc' = "sleep" => ~blocked')
      BY <2>1, <2>2
    <3> QED BY <3>1, <3>2
  <2> QED BY <2>3, <2>4
<1>10. CASE BackPoll
  <2> PICK d \in {0, 1} :
         /\ elapsed' = Later(elapsed, d)
         /\ IF Debounce \in BackButtons
            THEN UNCHANGED <<pc, job, fate>>
            ELSE ExecUserscript(BackScript(Later(elapsed, d)), "loop")
    BY <1>10 DEF BackPoll
  <2>1. elapsed' \in 0..HoldCap
    BY LaterType DEF TypeOK
  <2>2. BackScript(Later(elapsed, d)) \in Scripts /\ "loop" \in Conts
    BY <2>1, BackScriptType DEF Conts
  <2>3. \/ pc' = pc /\ job' = job /\ fate' = fate
        \/ pc' = "script" /\ job' \in Jobs /\ job' # NoJob /\ fate' \in Fates
    BY <2>2, ExecUserscriptType DEF TypeOK
  <2>4. pc = "back" /\ bt' \in Buttons \cup {NO_BT} /\ pend' \in Events
    BY <1>10, DebounceType DEF BackPoll, Events
  <2> QED BY <1>10, <2>1, <2>3, <2>4
          DEF BackPoll, TypeOK
<1>11. CASE ScriptEnds
  BY <1>11 DEF ScriptEnds, user, TypeOK, Jobs, NoJob, Scripts
<1>12. CASE AlarmRings
  BY <1>12 DEF AlarmRings, user, TypeOK, Jobs, NoJob, Scripts
<1>13. CASE ScriptReturns
  <2>1. job.next \in Conts
    BY <1>13 DEF ScriptReturns, TypeOK, Jobs
  <2>2. pc' \in {"top", "poll", "gone"} /\ fate' \in Fates /\ job' = NoJob
    BY <1>13, <2>1 DEF ScriptReturns, Conts, Fates, TypeOK
  <2>3. blocked /\ blocked' = blocked
    BY <1>13 DEF ScriptReturns
  <2> QED BY <1>13, <2>2, <2>3
          DEF ScriptReturns, user, TypeOK, Jobs, HoldCap
<1>14. CASE QuitHandler
  BY <1>14 DEF QuitHandler, user, TypeOK, Fates
<1>15. CASE InotifyHandler
  BY <1>15 DEF InotifyHandler, user, TypeOK
<1>16. CASE UNCHANGED vars
  BY <1>16 DEF vars, TypeOK
<1> QED
  BY <1>1, <1>2, <1>3, <1>4, <1>5, <1>6, <1>7, <1>8, <1>9, <1>10, <1>11,
     <1>12, <1>13, <1>14, <1>15, <1>16, <1>17 DEF Next, Loop, Gone

-----------------------------------------------------------------------------
(* The main loop keeps its types, never runs a dialogue or waits for a     *)
(* script with signals unblocked, and never is in HALT or REBOOT with      *)
(* fewer iterations counted than the state stands for.                     *)
THEOREM Safety == Spec => []Safe
<1>1. IInv => Safe
  BY DEF IInv, Safe
<1> QED BY <1>1, InitIInv, NextIInv, PTL DEF Spec

(* The stored button, counters, script and mask have the values the code   *)
(* can give them, whatever the buttons, signals and configurations.        *)
THEOREM FrontTypes == Spec => []TypeOK
<1>1. Safe => TypeOK
  BY DEF Safe
<1> QED BY <1>1, Safety, PTL

(* Signals are blocked wherever a handler could disturb an iteration, and  *)
(* nowhere else.                                                           *)
THEOREM SignalsBlocked == Spec => []CriticalSection
<1>1. Safe => CriticalSection
  BY DEF Safe
<1> QED BY <1>1, Safety, PTL

-----------------------------------------------------------------------------
(* With the front button alone, the undrained event, or else the stored    *)
(* button, tells where the finger is; and a process that is still in the   *)
(* loop has neither quit nor gone down.                                    *)
FingerKnown ==
    /\ pend = NoEvent => (bt = "front" <=> "front" \in held)
    /\ pend # NoEvent => (pend.down <=> "front" \in held)
    /\ pc # "gone" => fate = "running"

LEMMA InitFinger == Init => FingerKnown
BY DEF Init, FingerKnown, NO_BT

LEMMA NextFinger ==
    ASSUME Buttons = {"front"}, IInv, FingerKnown, [Next]_vars
    PROVE  FingerKnown'
<1> USE DEF FingerKnown
<1>1. ASSUME NEW b \in Buttons, Press(b) PROVE FingerKnown'
  BY <1>1 DEF Press, NoEvent, NO_BT
<1>2. ASSUME NEW b \in Buttons, Release(b) PROVE FingerKnown'
  BY <1>2 DEF Release, NoEvent, NO_BT
<1>3. CASE McuButton
  BY <1>3 DEF McuButton
<1>4. ASSUME NEW s \in Signals, Signal(s) PROVE FingerKnown'
  BY <1>4 DEF Signal, user
<1>5. CASE ClockStep
  BY <1>5 DEF ClockStep, user
<1>6. CASE BeginIteration
  BY <1>6 DEF BeginIteration, ExecUserscript, user
<1>7. CASE McuPoweroff
  BY <1>7 DEF McuPoweroff, poweroff, GoDown, ExecUserscript, user
<1>8. CASE PollBack
  BY <1>8, DebounceType DEF PollBack, Poll, BackButtons, IInv, NO_BT
<1>9. CASE PollHeld
  BY <1>9 DEF PollHeld, Poll, Debounce, EndIteration, NO_BT, IInv, TypeOK
<1>10. CASE PollReleased
  <2>1. /\ pend' = NoEvent /\ bt' = NO_BT /\ held' = held
        /\ Debounce = NO_BT /\ pc = "poll"
    BY <1>10 DEF PollReleased, Poll
  <2>2. "front" \notin held
    BY <2>1 DEF Debounce, NO_BT, IInv, TypeOK, Events
  <2>3. pc' # "gone" => fate' = fate
    BY <1>10 DEF PollReleased, EndIteration, poweroff, reboot, GoDown, ExecUserscript
  <2> QED BY <2>1, <2>2, <2>3 DEF NO_BT
<1>11. CASE BackPoll
  <2>1. /\ pend' = NoEvent /\ bt' = Debounce /\ held' = held /\ fate' = fate
        /\ pc = "back"
    BY <1>11 DEF BackPoll, ExecUserscript
  <2>2. Debounce = "front" <=> "front" \in held
    BY DEF Debounce, NO_BT, IInv, TypeOK, Events, NoEvent
  <2> QED BY <2>1, <2>2
<1>12. CASE ScriptEnds
  BY <1>12 DEF ScriptEnds, user
<1>13. CASE AlarmRings
  BY <1>13 DEF AlarmRings, user
<1>14. CASE ScriptReturns
  BY <1>14 DEF ScriptReturns, user
<1>15. CASE QuitHandler
  BY <1>15 DEF QuitHandler, user
<1>16. CASE InotifyHandler
  BY <1>16 DEF InotifyHandler, user
<1>17. CASE UNCHANGED vars
  BY <1>17 DEF vars
<1> QED
  BY <1>1, <1>2, <1>3, <1>4, <1>5, <1>6, <1>7, <1>8, <1>9, <1>10, <1>11,
     <1>12, <1>13, <1>14, <1>15, <1>16, <1>17 DEF Next, Loop, Gone

(* Only a sampled release takes the decision, and then no finger is there. *)
LEMMA DecisionReleased ==
    ASSUME Buttons = {"front"}, IInv, FingerKnown, [Next]_vars, Deciding
    PROVE  "front" \notin held
<1>1. state' # state
  BY DEF Deciding
<1>2. PollHeld \/ PollReleased
  BY <1>1 DEF Next, Loop, Gone, vars, user, Press, Release, McuButton, Signal,
       ClockStep, BeginIteration, McuPoweroff, PollBack, BackPoll, ScriptEnds,
       AlarmRings, ScriptReturns, QuitHandler, InotifyHandler
<1>3. CASE PollHeld
  BY <1>3 DEF PollHeld, Poll, EndIteration, Deciding, FingerKnown, IInv,
       JobRunning, NoJob
<1>4. CASE PollReleased
  BY <1>4 DEF PollReleased, Poll, Debounce, NO_BT, FingerKnown, IInv, TypeOK, Events
<1> QED BY <1>2, <1>3, <1>4

(* On a box whose back buttons are left alone, the front-button machine    *)
(* takes the box down only with the finger off the button, whatever the    *)
(* configuration and however presses, signals and scripts interleave.      *)
THEOREM FrontOnly == ASSUME Buttons = {"front"} PROVE Spec => DownOnRelease
<1>1. Init => IInv /\ FingerKnown
  BY InitIInv, InitFinger
<1>2. IInv /\ FingerKnown /\ [Next]_vars => (IInv /\ FingerKnown)'
  BY NextIInv, NextFinger
<1>3. IInv /\ FingerKnown /\ [Next]_vars
        => [Deciding => "front" \notin held]_vars
  BY DecisionReleased
<1> QED BY <1>1, <1>2, <1>3, PTL DEF Spec, DownOnRelease

-----------------------------------------------------------------------------
(* The panel with its LEDs.                                                *)

LEMMA StepRefines == [PNext]_pvars => [Next]_vars
BY DEF PNext, pvars, Next, Loop, Released, Held, Back, Returns, Other,
       MdChange, LogChange, DiskChange

(* The daemon with LEDs implements the daemon without them: no LED state   *)
(* decides what a button, a signal or a script does.                       *)
THEOREM PanelRefines == PSpec => Spec
<1>1. PInit => Init
  BY DEF PInit
<1> QED BY <1>1, StepRefines, PTL DEF PSpec, Spec

(* Every behaviour with LEDs keeps the invariants of the main loop.        *)
THEOREM PanelSafety == PSpec => []Safe
BY PanelRefines, Safety, PTL

-----------------------------------------------------------------------------
LEMMA StatusTypes == PTypeOK /\ StatusCheck /\ powercheck' \in 0..(CheckInterval - 1)
                       /\ UNCHANGED outside => PTypeOK'
<1> SUFFICES ASSUME PTypeOK, StatusCheck, powercheck' \in 0..(CheckInterval - 1),
                    UNCHANGED outside
             PROVE  PTypeOK'
  OBVIOUS
<1> USE DEF PTypeOK, StatusCheck, outside
<1>1. LogQueue \in [Priorities -> QueueModes]
  BY DEF LogQueue, MdQueue, QueueModes, Priorities
<1>2. queue' \in [Priorities -> QueueModes]
  BY <1>1 DEF Consumed, QueueModes
<1>3. led' \in [Led -> {"off", "on", "fast", "slow"}]
  BY DEF LedsProc, Apply, AllOff, AllOn, DiskLeds
<1>4. degraded' \in [Arrays -> BOOLEAN]
  BY DEF DegradedNow
<1>5. last' \in BOOLEAN /\ logSeen' \in BOOLEAN
  BY DEF LogNow
<1>6. log' \in {"absent", "empty", "full"} /\ power' \in [Led -> {"active", "standby"}]
  BY DEF MdLog
<1> QED BY <1>2, <1>3, <1>4, <1>5, <1>6

LEMMA NextPTypes == PTypeOK /\ [PNext]_pvars => PTypeOK'
<1> SUFFICES ASSUME PTypeOK, [PNext]_pvars PROVE PTypeOK'
  OBVIOUS
<1>1. ASSUME CountCheck PROVE powercheck' \in 0..(CheckInterval - 1)
  BY <1>1, PanelAssumption DEF CountCheck, PTypeOK
<1>2. CASE Released
  <2>1. CASE powercheck' = 0 /\ StatusCheck
    BY <1>1, <1>2, <2>1, StatusTypes DEF Released
  <2>2. CASE powercheck' # 0 /\ UNCHANGED status
    BY <1>1, <1>2, <2>2 DEF Released, PTypeOK, status, outside, AllOff
  <2> QED BY <1>2, <2>1, <2>2 DEF Released
<1>3. CASE Held
  <2>1. led' \in [Led -> {"off", "on", "fast", "slow"}]
    BY <1>3 DEF Held, HeldLeds, PTypeOK, AllOff, Blinking
  <2> QED BY <1>1, <1>3, <2>1 DEF Held, PTypeOK, status, outside
<1>4. CASE Back
  BY <1>1, <1>4 DEF Back, PTypeOK, status, outside, AllFast
<1>5. CASE Returns
  BY <1>5 DEF Returns, PTypeOK, status, outside, AllOff
<1>6. CASE Other
  BY <1>6 DEF Other, PTypeOK, status, outside
<1>7. ASSUME NEW a \in Arrays, MdChange(a) PROVE PTypeOK'
  BY <1>7 DEF MdChange, PTypeOK, status
<1>8. ASSUME NEW s \in Logs, LogChange(s) PROVE PTypeOK'
  BY <1>8, PanelAssumption DEF LogChange, PTypeOK, outside
<1>9. ASSUME NEW b \in Bays, DiskChange(b) PROVE PTypeOK'
  BY <1>9 DEF DiskChange, PTypeOK, status
<1>10. CASE UNCHANGED pvars
  BY <1>10 DEF pvars, PTypeOK, status, outside
<1> QED
  BY <1>2, <1>3, <1>4, <1>5, <1>6, <1>7, <1>8, <1>9, <1>10 DEF PNext

(* The queue of indications, the memory of arrays and log and the LEDs     *)
(* keep to their values in every run of the status check.                  *)
THEOREM LedTypes == PSpec => []PTypeOK
<1>1. ASSUME PInit PROVE PTypeOK
  <2>1. powercheck \in 0..(CheckInterval - 1)
    BY <1>1, PanelAssumption DEF PInit
  <2>2. led \in [Led -> {"off", "on", "fast", "slow"}]
    BY <1>1 DEF PInit, AllOff
  <2>3. queue \in [Priorities -> QueueModes]
    BY <1>1 DEF PInit, QueueModes
  <2>4. mode \in [Led -> {"active", "standby"}] /\ power \in [Led -> {"active", "standby"}]
    BY <1>1 DEF PInit
  <2> QED BY <1>1, <2>1, <2>2, <2>3, <2>4 DEF PInit, PTypeOK
<1> QED BY <1>1, NextPTypes, PTL DEF PSpec

-----------------------------------------------------------------------------
(* With the front button alone no dialogue is entered, and no script       *)
(* returns to one.                                                         *)
NoDialogue == pc # "back" /\ job.next # "loop"

LEMMA NextNoDialogue ==
    ASSUME Buttons = {"front"}, IInv, NoDialogue, [Next]_vars
    PROVE  NoDialogue'
<1> USE DEF NoDialogue
<1>1. ASSUME NEW b \in Buttons, Press(b) PROVE NoDialogue'
  BY <1>1 DEF Press
<1>2. ASSUME NEW b \in Buttons, Release(b) PROVE NoDialogue'
  BY <1>2 DEF Release
<1>3. CASE McuButton \/ ClockStep \/ QuitHandler \/ InotifyHandler
  BY <1>3 DEF McuButton, ClockStep, QuitHandler, InotifyHandler
<1>4. ASSUME NEW s \in Signals, Signal(s) PROVE NoDialogue'
  BY <1>4 DEF Signal
<1>5. CASE BeginIteration
  BY <1>5 DEF BeginIteration, ExecUserscript
<1>6. CASE McuPoweroff
  BY <1>6 DEF McuPoweroff, poweroff, GoDown, ExecUserscript
<1>7. CASE PollBack
  BY <1>7, DebounceType DEF PollBack, Poll, BackButtons, IInv, NO_BT
<1>8. CASE PollHeld
  BY <1>8 DEF PollHeld, EndIteration
<1>9. CASE PollReleased
  BY <1>9 DEF PollReleased, EndIteration, poweroff, reboot, GoDown, ExecUserscript
<1>10. CASE BackPoll
  BY <1>10 DEF BackPoll
<1>11. CASE ScriptEnds \/ AlarmRings
  <2>1. job \in Jobs /\ job # NoJob /\ pc = "script" /\ pc' = pc
    BY <1>11 DEF ScriptEnds, AlarmRings, IInv, TypeOK, JobRunning
  <2>2. job'.next = job.next
    BY <1>11, <2>1 DEF ScriptEnds, AlarmRings, Jobs
  <2> QED BY <2>1, <2>2
<1>12. CASE ScriptReturns
  BY <1>12 DEF ScriptReturns, NoJob
<1>13. CASE UNCHANGED vars
  BY <1>13 DEF vars
<1> QED
  BY <1>1, <1>2, <1>3, <1>4, <1>5, <1>6, <1>7, <1>8, <1>9, <1>10, <1>11,
     <1>12, <1>13 DEF Next, Loop, Gone

LedInv == led \in [Led -> {"off", "on", "fast", "slow"}] /\ LedTellsState

LEMMA NextLedInv ==
    ASSUME IInv, NoDialogue, LedInv, [PNext]_pvars, NoDialogue'
    PROVE  LedInv'
<1> USE DEF LedInv, LedTellsState
<1>1. CASE Released
  <2>1. state' = IDLE
    BY <1>1 DEF Released, PollReleased
  <2>2. led' \in [Led -> {"off", "on", "fast", "slow"}]
    BY <1>1 DEF Released, StatusCheck, LedsProc, Apply, AllOff, AllOn, DiskLeds
  <2> QED BY <2>1, <2>2
<1>2. CASE Held
  <2>1. /\ led' = HeldLeds(state, state')
        /\ state' = Advance(state, Tick)[1]
    BY <1>2 DEF Held, PollHeld
  <2>2. CASE state = IDLE
    BY <2>1, <2>2 DEF Advance, HeldLeds, AllOff, Blinking, Led
  <2>3. CASE state = HALT
    BY <2>1, <2>3 DEF Advance, HeldLeds, AllOff, Blinking, Led
  <2>4. CASE state = REBOOT
    BY <2>1, <2>4 DEF Advance, HeldLeds, AllOff, Blinking, Led
  <2> QED BY <2>2, <2>3, <2>4 DEF IInv, TypeOK
<1>3. CASE Back
  BY <1>3 DEF Back, PollBack, NoDialogue
<1>4. CASE Returns
  BY <1>4 DEF Returns, ScriptReturns, NoDialogue
<1>5. CASE Other
  <2>1. state' = state /\ led' = led
    BY <1>5 DEF Other, Press, Release, McuButton, Signal, ClockStep,
       BeginIteration, McuPoweroff, BackPoll, ScriptEnds, AlarmRings,
       QuitHandler, InotifyHandler
  <2> QED BY <2>1
<1>6. ASSUME NEW a \in Arrays, MdChange(a) PROVE LedInv'
  BY <1>6 DEF MdChange, vars
<1>7. ASSUME NEW s \in Logs, LogChange(s) PROVE LedInv'
  BY <1>7 DEF LogChange, vars
<1>8. ASSUME NEW b \in Bays, DiskChange(b) PROVE LedInv'
  BY <1>8 DEF DiskChange, vars
<1>9. CASE UNCHANGED pvars
  BY <1>9 DEF pvars, vars
<1> QED BY <1>1, <1>2, <1>3, <1>4, <1>5, <1>6, <1>7, <1>8, <1>9 DEF PNext

(* While the front button is held the LEDs show what its release will do,  *)
(* for any number of arrays, any error log and any disk going to standby.  *)
THEOREM LedsTruthful ==
    ASSUME Buttons = {"front"} PROVE PSpec => []LedTellsState
<1> DEFINE J == IInv /\ NoDialogue /\ LedInv
<1>1. PInit => J
  <2> SUFFICES ASSUME PInit PROVE J
    OBVIOUS
  <2>1. IInv
    BY InitIInv DEF PInit
  <2>2. NoDialogue
    BY DEF PInit, Init, NoDialogue, NoJob
  <2>3. LedInv
    BY DEF PInit, Init, LedInv, LedTellsState, AllOff, Led
  <2> QED BY <2>1, <2>2, <2>3
<1>2. J /\ [PNext]_pvars => J'
  BY StepRefines, NextIInv, NextNoDialogue, NextLedInv
<1>3. J => LedTellsState
  BY DEF LedInv
<1> QED BY <1>1, <1>2, <1>3, PTL DEF PSpec
=============================================================================
