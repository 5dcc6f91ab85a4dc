----------------------------- MODULE FanControl -----------------------------
(***************************************************************************)
(* The fan of a box with a microcontroller (DNS-320L, DNS-327L).  Two      *)
(* daemons meet in three files of /tmp/sys and nowhere else: sysctrl's     *)
(* fanctl() reads temp1_input and fan1_input and writes pwm1;              *)
(* dns320l-daemon reads pwm1, drives the MCU over a serial line and writes *)
(* the other two.  A file is written by truncating it and then writing it, *)
(* two steps that the other daemon's read may fall between.                *)
(***************************************************************************)
EXTENDS Integers, FiniteSets

CONSTANTS
    Mode,         \* args.fan_mode: "auto", "off", "slow" or "fast"
    fan_off_temp, lo_temp, hist_temp, warn_temp, crit_temp,  \* degrees
    Heats,        \* the temperatures the MCU may measure, degrees
    Mishaps,      \* the kinds of mishap that may happen, once each,
    MaxMishaps    \* and how many of them

Kinds == {"torn", "lost", "client", "term", "kill"}

ASSUME FanAssumption ==
    /\ Mode \in {"auto", "off", "slow", "fast"}
    /\ {fan_off_temp, lo_temp, hist_temp, warn_temp, crit_temp} \subseteq Nat
    /\ Heats \subseteq Nat \ {0}
    /\ Mishaps \subseteq Kinds /\ MaxMishaps \in Nat

VARIABLES
    heat,      \* the temperature of the box
    speed,     \* what the fan really does: 0, 1, 2
    temp1, fan1, pwm1,   \* the files temp1_input (degrees), fan1_input, pwm1
    spc,       \* sysctrl's position in fanctl()
    temp,      \* fanctl()'s static temp, in tenths of a degree
    want,      \* fanctl()'s pwm
    warn, crit,          \* fanctl()'s latches
    dpc,       \* the daemon's position
    val,       \* the temperature it is about to write
    cmd,       \* the fan command it is sending: 0, 1, 2
    old_pwm, fanSpeed,   \* its statics
    socket,    \* the file /var/run/dns320l.socket
    had        \* the mishaps that have happened

sysctrl == <<spc, temp, want, warn, crit>>
daemon == <<dpc, val, cmd, old_pwm, fanSpeed, socket>>
vars == <<heat, speed, temp1, fan1, pwm1, sysctrl, daemon, had>>

Empty == -1     \* a file that is truncated and not yet written
None == -1      \* the daemon's initial values

Pwms == {0, 127, 255}          \* PWM_OFF, PWM_LOW, PWM_FAST
Speeds == 0..2

(* What setfan_cmd() writes to fan1_input.                                 *)
Rpm(s) == 3000 * s

(* How readset_temp() reads pwm1.                                          *)
SpeedOf(pwm) == IF pwm = 0 THEN 0 ELSE IF pwm < 128 THEN 1 ELSE 2

TypeOK ==
    /\ heat \in Heats /\ speed \in Speeds
    /\ temp1 \in Nat \cup {Empty}
    /\ fan1 \in {0, 3000, 6000, Empty}
    /\ pwm1 \in Pwms \cup {Empty}
    /\ spc \in {"first", "read", "fan", "pwm"}
    /\ temp \in Nat
    /\ want \in Pwms
    /\ warn \in {0, 1} /\ crit \in {0, 1}
    /\ dpc \in {"idle", "temp", "pwm", "send", "fan", "down"}
    /\ val \in Nat
    /\ cmd \in Speeds
    /\ old_pwm \in Pwms \cup {None}
    /\ fanSpeed \in Speeds \cup {None}
    /\ socket \in {"none", "bound"}
    /\ had \subseteq Mishaps

(* As rcS leaves the files, with both daemons just started.                *)
Init ==
    /\ heat \in Heats
    /\ speed \in Speeds
    /\ temp1 = 0 /\ fan1 = 0 /\ pwm1 = 127
    /\ spc = "first" /\ temp = 0 /\ want = 0
    /\ warn = 0 /\ crit = 0
    /\ dpc = "idle" /\ val = 0 /\ cmd = 0
    /\ old_pwm = None /\ fanSpeed = None
    /\ socket = "bound"
    /\ had = {}

Happens(k) ==
    /\ k \in Mishaps \ had /\ Cardinality(had) < MaxMishaps
    /\ had' = had \cup {k}

(* A read falls between the two steps of a write only so often.            *)
Reads(file, writing) ==
    IF file = Empty /\ writing THEN Happens("torn") ELSE UNCHANGED had

-----------------------------------------------------------------------------
(* sysctrl: fanctl(), every fifteen iterations of the main loop.           *)

(* read_temp(): a file that can not be read counts as 0.                   *)
Value(file) == IF file = Empty THEN 0 ELSE file

Writing == dpc = "temp"

FirstRead ==
    /\ spc = "first"
    /\ Reads(temp1, Writing)
    /\ temp' = 10 * Value(temp1)
    /\ spc' = "read"
    /\ UNCHANGED <<heat, speed, temp1, fan1, pwm1, want, warn, crit, daemon>>

(* temp = 0.9 * stemp + 0.1 * temp, kept to a tenth of a degree.           *)
Smooth(t, x) == 9 * x + t \div 10

ReadTemp ==
    /\ spc = "read"
    /\ Reads(temp1, Writing)
    /\ temp' = Smooth(temp, Value(temp1))
    /\ spc' = "fan"
    /\ UNCHANGED <<heat, speed, temp1, fan1, pwm1, want, warn, crit, daemon>>

Above(limit) == temp > 10 * limit
Below(limit) == temp < 10 * limit

(* Mutant: a stopped fan is only started above the upper threshold.        *)
AutoPwmLate(rpm) ==
    IF rpm = 0 THEN IF Above(lo_temp + hist_temp) THEN 127 ELSE 0
    ELSE IF rpm = 3000
    THEN IF Below(fan_off_temp - hist_temp) THEN 0
         ELSE IF Above(lo_temp + hist_temp) THEN 255 ELSE 127
    ELSE IF Below(lo_temp - hist_temp) THEN 127 ELSE 255

(* FAN_AUTO: one speed at a time, with hysteresis.                         *)
AutoPwm(rpm) ==
    IF rpm = 0 THEN IF Above(fan_off_temp + hist_temp) THEN 127 ELSE 0
    ELSE IF rpm = 3000
    THEN IF Below(fan_off_temp - hist_temp) THEN 0
         ELSE IF Above(lo_temp + hist_temp) THEN 255 ELSE 127
    ELSE IF Below(lo_temp - hist_temp) THEN 127 ELSE 255

Pwm(rpm) ==
    IF Mode = "auto" THEN AutoPwm(rpm)
    ELSE IF Mode = "off" THEN 0
    ELSE IF Mode = "slow" THEN 127 ELSE 255

(* read_fan(), the decision, and the truncation of pwm1 by write_pwm().    *)
ReadFan ==
    /\ spc = "fan"
    /\ Reads(fan1, dpc = "fan")
    /\ want' = Pwm(Value(fan1))
    /\ pwm1' = Empty
    /\ spc' = "pwm"
    /\ UNCHANGED <<heat, speed, temp1, fan1, temp, warn, crit, daemon>>

(* Mutant: the critical command is latched by the warning.                 *)
CriticalMasked == Above(crit_temp) /\ crit = 0 /\ warn = 0

(* The conditions under which the two commands are run.                    *)
Critical == Above(crit_temp) /\ crit = 0
Warning == Above(warn_temp) /\ Below(crit_temp) /\ warn = 0

WritePwm ==
    /\ spc = "pwm"
    /\ pwm1' = want
    /\ warn' = IF Warning THEN 1 ELSE IF Below(warn_temp) THEN 0 ELSE warn
    /\ crit' = IF Critical THEN 1 ELSE IF Below(crit_temp) THEN 0 ELSE crit
    /\ spc' = IF temp = 0 THEN "first" ELSE "read"
    /\ UNCHANGED <<heat, speed, temp1, fan1, temp, want, daemon, had>>

-----------------------------------------------------------------------------
(* dns320l-daemon: readset_temp(), every fifteen seconds.                  *)

(* gettemperature_cmd(): the answer truncates temp1_input; three lost      *)
(* attempts leave it as it is.                                             *)
GetTemp ==
    /\ dpc = "idle"
    /\ \/ /\ val' = heat /\ temp1' = Empty /\ dpc' = "temp"
          /\ UNCHANGED had
       \/ /\ Happens("lost") /\ dpc' = "pwm"
          /\ UNCHANGED <<val, temp1>>
    /\ UNCHANGED <<heat, speed, fan1, pwm1, sysctrl, cmd, old_pwm, fanSpeed, socket>>

WriteTemp ==
    /\ dpc = "temp"
    /\ temp1' = val
    /\ dpc' = "pwm"
    /\ UNCHANGED <<heat, speed, fan1, pwm1, sysctrl, val, cmd, old_pwm, fanSpeed,
                   socket, had>>

(* Mutant: a failed command is taken as done.                              *)
UnsetForgets(c) == speed' \in {speed, c} /\ fanSpeed' = c

(* Three attempts without an acknowledgement: the fan may have obeyed.     *)
Unset(c) == speed' \in {speed, c} /\ UNCHANGED fanSpeed

(* Mutant: only a larger pwm is noticed.                                   *)
NewPwmRaised == pwm1 > old_pwm

(* pwm != old_pwm                                                          *)
NewPwm == pwm1 # old_pwm

ReadPwm ==
    /\ dpc = "pwm"
    /\ Reads(pwm1, spc = "pwm")
    /\ \/ /\ pwm1 # Empty /\ NewPwm
          /\ old_pwm' = pwm1
          /\ cmd' = SpeedOf(pwm1)
          /\ dpc' = IF fanSpeed # SpeedOf(pwm1) THEN "send" ELSE "idle"
       \/ /\ pwm1 = Empty \/ ~NewPwm
          /\ dpc' = "idle"
          /\ UNCHANGED <<old_pwm, cmd>>
    /\ UNCHANGED <<heat, speed, temp1, fan1, pwm1, sysctrl, val, fanSpeed, socket>>

(* The MCU acknowledged the command.                                       *)
Set(c) == /\ fanSpeed' = c /\ speed' = c

(* setfan_cmd(): after three attempts without an acknowledgement the fan   *)
(* may or may not have obeyed, and the daemon changes nothing.             *)
SetFan ==
    /\ dpc = "send"
    /\ \/ /\ Set(cmd)
          /\ fan1' = Empty
          /\ dpc' = "fan"
          /\ UNCHANGED had
       \/ /\ Happens("lost")
          /\ Unset(cmd)
          /\ dpc' = "idle"
          /\ UNCHANGED fan1
    /\ UNCHANGED <<heat, temp1, pwm1, sysctrl, val, cmd, old_pwm, socket>>

WriteFan ==
    /\ dpc = "fan"
    /\ fan1' = Rpm(cmd)
    /\ dpc' = "idle"
    /\ UNCHANGED <<heat, speed, temp1, pwm1, sysctrl, val, cmd, old_pwm, fanSpeed,
                   socket, had>>

(* poll_wait(): a client's SetFanSpeed command goes the same way.          *)
Client(c) ==
    /\ dpc = "idle"
    /\ Happens("client")
    /\ cmd' = c
    /\ dpc' = "send"
    /\ UNCHANGED <<heat, speed, temp1, fan1, pwm1, sysctrl, val, old_pwm, fanSpeed,
                   socket>>

(* quithandler() removes the socket; a killed daemon leaves it behind.     *)
Stop ==
    /\ dpc # "down"
    /\ dpc' = "down"
    /\ \/ Happens("term") /\ socket' = "none"
       \/ Happens("kill") /\ UNCHANGED socket
    /\ UNCHANGED <<heat, speed, temp1, fan1, pwm1, sysctrl, val, cmd, old_pwm, fanSpeed>>

(* init respawns the daemon; start_listening() exits at once when bind()   *)
(* finds the socket of an earlier one, and init respawns it again.         *)
Respawn ==
    /\ dpc = "down" /\ socket = "none"
    /\ socket' = "bound"
    /\ dpc' = "idle"
    /\ old_pwm' = None /\ fanSpeed' = None
    /\ UNCHANGED <<heat, speed, temp1, fan1, pwm1, sysctrl, val, cmd, had>>

(* The box warms up and cools down.                                        *)
Heat ==
    /\ heat' \in Heats \ {heat}
    /\ UNCHANGED <<speed, temp1, fan1, pwm1, sysctrl, daemon, had>>

Fanctl == FirstRead \/ ReadTemp \/ ReadFan \/ WritePwm
Readset == GetTemp \/ WriteTemp \/ ReadPwm \/ SetFan \/ WriteFan \/ Respawn

Next == Fanctl \/ Readset \/ (\E c \in Speeds : Client(c)) \/ Stop \/ Heat

Spec == Init /\ [][Next]_vars

(* Both daemons loop for ever, and init respawns the second.  Fairness is  *)
(* strong because a read that would be torn once too often is disabled     *)
(* until the writer is done, again and again; the code itself never waits. *)
FairSpec == Spec /\ SF_vars(Fanctl) /\ SF_vars(Readset)

-----------------------------------------------------------------------------
(* dns320l-daemon.c:1138 "update /tmp/sys/fan1_input when the fan speed    *)
(* changes": between two commands the file tells the last acknowledged     *)
(* speed, through losses, clients, signals and kills between any two steps,*)
(* and as long as no command was lost that is the speed of the fan.        *)
FanFileTruthful ==
    dpc = "idle" /\ fanSpeed # None =>
        fan1 = Rpm(fanSpeed) /\ ("lost" \notin had => speed = fanSpeed)

(* The daemon drops a command it could not send, and a client's command    *)
(* goes past pwm1; a killed daemon does not come back.                     *)
Undisturbed == had \cap {"lost", "client", "kill"} = {}

(* dns320l-daemon.c:1137 "read /tmp/sys/pwm1 and set the fan speed": a pwm *)
(* that sysctrl keeps asking for is obeyed, unless a command was lost or   *)
(* overruled.                                                              *)
PwmObeyed ==
    []Undisturbed =>
        \A p \in Pwms : <>[](pwm1 \in {p, Empty}) => <>[](speed = SpeedOf(p))

(* A box that stays hot has its fan running, in auto mode, although reads  *)
(* are torn and the daemon is stopped and started again.                   *)
HotRuns ==
    Mode = "auto" /\ []Undisturbed =>
        (<>[](heat > fan_off_temp + hist_temp) => <>[](speed # 0))

(* A box that stays above the critical temperature runs its critical       *)
(* command, whatever was lost, torn or asked for, and whatever warnings    *)
(* were given before, unless the daemon was killed.                        *)
OverheatActs == []("kill" \notin had) => (<>[](heat > crit_temp) => <>(crit = 1))
=============================================================================
