----------------------------- MODULE McuDaemon -----------------------------
(***************************************************************************)
(* dns320l-daemon and its microcontroller: SendCommand() over a serial     *)
(* line that loses, garbles and delays, and the handlers built on it, the  *)
(* wake-up alarm and the power LED.  The daemon is one thread: a handler   *)
(* runs to its end, command after command, while the line, the MCU and the *)
(* programs that write /tmp/sys/power_led go on.                           *)
(***************************************************************************)
EXTENDS Integers, Sequences

CONSTANTS
    Retries,      \* stDaemonConfig.nRetries
    Fields,       \* the registers of the alarm: 4 (month, date, hour, minute)
    Alarms,       \* alarms a user may set
    ClientLeds,   \* LED commands a client may send: 0 off, 1 on, 2 blink
    Triggers,     \* LED triggers a program may write besides "none"
    MaxMishaps, MaxJobs, MaxWrites   \* bounds

Off == [f \in 1..Fields |-> 0]       \* a disabled alarm
NoAlarm == <<>>

ASSUME McuAssumption ==
    /\ Retries \in Nat /\ Fields \in Nat \ {0}
    /\ Alarms \subseteq [1..Fields -> Nat] /\ Off \in Alarms
    /\ ClientLeds \subseteq 0..2
    /\ "none" \notin Triggers /\ "timer" \in Triggers
    /\ {MaxMishaps, MaxJobs, MaxWrites} \subseteq Nat

VARIABLES
    pc, cmd, try,            \* SendCommand()
    wire,                    \* commands written, not yet seen by the MCU
    out, port,               \* its packets under way, and those arrived
    alarm, armed, lamp,      \* the MCU: alarm registers, enabled, power LED
    job, want, got, told,    \* the handler: alarm to set, alarm read, reply
    trig, bri,               \* the files trigger and brightness
    ctrig, cbri,             \* curr_led_trigger, curr_led_brightness
    blinks,                  \* history: a client's PowerLedBlink was obeyed,
                             \* and no on or off since
    done, sure,              \* history: command carried out; line was quiet
    left, jobs, writes       \* what may still happen

call == <<pc, cmd, try>>
line == <<wire, out, port>>
mcu == <<alarm, armed, lamp>>
handler == <<job, want, got, told>>
files == <<trig, bri>>
curr == <<ctrig, cbri, blinks>>
env == <<left, jobs, writes>>
vars == <<call, line, mcu, handler, files, curr, done, sure, env>>

(* A command names its operation, register and value.                      *)
Command(op, f, v) == [op |-> op, f |-> f, v |-> v]
Commands == [op : {"write", "read"}, f : 1..Fields, v : Nat]
            \cup [op : {"arm", "led"}, f : {0}, v : Nat]
Write(f) == Command("write", f, want'[f])
Read(f) == Command("read", f, 0)
Arm(v) == Command("arm", 0, v)
Led(v) == Command("led", 0, v)
NoCommand == Command("none", 0, 0)

(* A packet of the MCU: a value, the acknowledgement or a garbled one.     *)
Packet(kind, f, v) == [kind |-> kind, f |-> f, v |-> v]
Ack == Packet("ack", 0, 0)
Junk == Packet("junk", 0, 0)
Packets == [kind : {"value", "ack", "junk"}, f : Nat, v : Nat]

Handlers == {"none", "write", "read", "plus", "arm", "led", "poll", "simple"}
Calling == pc \in {"send", "value", "ack"}

CallType ==
    /\ pc \in {"send", "value", "ack", "ok", "err"}
    /\ cmd \in Commands \cup {NoCommand} /\ try \in 1..Retries + 1
    /\ done \in {0, 1} /\ sure \in {0, 1}
    /\ Calling => cmd \in Commands
LineType ==
    wire \in Seq(Commands) /\ out \in Seq(Packets) /\ port \in Seq(Packets)
McuType == alarm \in [1..Fields -> Nat] /\ armed \in Nat /\ lamp \in Nat
HandlerType ==
    /\ job \in Handlers
    /\ want \in [1..Fields -> Nat] \cup {NoAlarm} /\ got \in [1..Fields -> Nat]
    /\ told \in {"none", "OK", "ERR", "set", "disabled"}
    /\ job = "none" => ~Calling
    /\ job \in {"led", "poll"} => cmd.v \in 0..2
    /\ job = "write" => want \in [1..Fields -> Nat]
LedType ==
    /\ trig \in Triggers \cup {"none"} /\ bri \in -1..1
    /\ ctrig \in Triggers \cup {"none"} /\ cbri \in -1..1 /\ blinks \in {0, 1}
EnvType == left \in Nat /\ jobs \in Nat /\ writes \in Nat

TypeOK == CallType /\ LineType /\ McuType /\ HandlerType /\ LedType /\ EnvType

(* Mutant: a blinking LED counts as one that is on.                        *)
Remembered == 1

(* curr_led_brightness = -1: any brightness will be news.                  *)
Forgotten == -1

(* After an acknowledged DeviceReady, with the LED still blinking.         *)
Init ==
    /\ pc = "ok" /\ cmd = NoCommand /\ try = 1
    /\ wire = <<>> /\ out = <<>> /\ port = <<>>
    /\ alarm \in Alarms /\ armed = 0
    /\ job = "none" /\ want = NoAlarm /\ got = Off /\ told = "none"
    /\ trig = "timer" /\ bri = 1 /\ ctrig = "timer" /\ cbri = Forgotten /\ lamp = 2
    /\ blinks = 0
    /\ done = 0 /\ sure = 0
    /\ left = MaxMishaps /\ jobs = MaxJobs /\ writes = MaxWrites

Mishap == left > 0 /\ left' = left - 1 /\ UNCHANGED <<jobs, writes>>
Fine == UNCHANGED env

-----------------------------------------------------------------------------
(* SendCommand().                                                          *)

(* A handler's next command.                                               *)
Call(c) ==
    /\ pc' = "send" /\ cmd' = c /\ try' = 1
    /\ done' = 0
    /\ sure' = IF wire = <<>> /\ out = <<>> /\ (job = "none" \/ sure = 1)
               THEN 1 ELSE 0

(* Mutant: an attempt too few.                                             *)
FailedEarly ==
    IF try < Retries THEN pc' = "send" /\ try' = try + 1
    ELSE pc' = "err" /\ UNCHANGED try

(* The attempt failed: there are nRetries more.                            *)
Failed ==
    IF try <= Retries THEN pc' = "send" /\ try' = try + 1
    ELSE pc' = "err" /\ UNCHANGED try

(* Mutant: what is pending is left in the port.                            *)
ClearNothing == UNCHANGED port

(* ClearSerialPort(): only what has arrived by now.                        *)
ClearSerialPort == port' = <<>>

(* send_pkt(), whose bytes may be lost or refused by the driver.           *)
Send ==
    /\ pc = "send"
    /\ ClearSerialPort
    /\ \/ wire' = Append(wire, cmd) /\ Fine
       \/ UNCHANGED wire /\ Mishap
    /\ pc' = IF cmd.op = "read" THEN "value" ELSE "ack"
    /\ UNCHANGED <<cmd, try, out, mcu, handler, files, curr, done, sure>>

SendError ==
    /\ pc = "send" /\ Mishap
    /\ ClearSerialPort
    /\ Failed
    /\ UNCHANGED <<cmd, wire, out, mcu, handler, files, curr, done, sure>>

(* CheckResponse(): the first five bytes, which name the command but not   *)
(* the attempt; every acknowledgement is the same.                         *)
CheckResponse(p) ==
    IF pc = "value" THEN p.kind = "value" /\ p.f = cmd.f ELSE p.kind = "ack"

(* receive_pkt() found a packet.                                           *)
Receive ==
    /\ pc \in {"value", "ack"} /\ port # <<>>
    /\ port' = Tail(port)
    /\ LET p == Head(port) IN
       \/ /\ CheckResponse(p)
          /\ pc' = IF pc = "value" THEN "ack" ELSE "ok"
          /\ got' = IF pc = "value" THEN [got EXCEPT ![cmd.f] = p.v] ELSE got
          /\ UNCHANGED try
       \/ ~CheckResponse(p) /\ Failed /\ UNCHANGED got
    /\ UNCHANGED <<cmd, wire, out, mcu, job, want, told, files, curr, done, sure, env>>

(* ... or a tenth of a second went by without a byte.  An answer that is   *)
(* still to come makes it a mishap: the MCU is late.                       *)
Timeout ==
    /\ pc \in {"value", "ack"} /\ port = <<>>
    /\ IF wire = <<>> /\ out = <<>> THEN Fine ELSE Mishap
    /\ Failed
    /\ UNCHANGED <<cmd, line, mcu, handler, files, curr, done, sure>>

-----------------------------------------------------------------------------
(* The MCU and the line.                                                   *)

Serve ==
    /\ wire # <<>> /\ wire' = Tail(wire)
    /\ LET c == Head(wire) IN
       /\ alarm' = IF c.op = "write" THEN [alarm EXCEPT ![c.f] = c.v] ELSE alarm
       /\ armed' = IF c.op = "arm" THEN c.v ELSE armed
       /\ lamp' = IF c.op = "led" THEN c.v ELSE lamp
       /\ out' = IF c.op = "read"
                 THEN out \o <<Packet("value", c.f, alarm[c.f]), Ack>>
                 ELSE Append(out, Ack)
       /\ done' = IF Calling /\ c = cmd THEN 1 ELSE done
    /\ UNCHANGED <<call, port, handler, files, curr, sure, env>>

Arrive ==
    /\ out # <<>> /\ out' = Tail(out)
    /\ \/ port' = Append(port, Head(out)) /\ Fine
       \/ port' = Append(port, Junk) /\ Mishap
       \/ UNCHANGED port /\ Mishap
    /\ UNCHANGED <<call, wire, mcu, handler, files, curr, done, sure>>

-----------------------------------------------------------------------------
(* HandleCommand(): a client's command, then the handler's next steps.     *)

(* writeAlarm_cmd(), with the date and time as the MCU wants them.         *)
WriteAlarm == \E a \in Alarms : job' = "write" /\ want' = a /\ Call(Write(1))

(* readAlarm_cmd(), or "WriteAlarm +Nd", which reads before it writes.     *)
ReadAlarm(j) == job' = j /\ want' = NoAlarm /\ Call(Read(1))

(* simple_cmd(); simple_cmd2() and the handlers that ask for one value.    *)
SimpleCmd(v) == job' = "simple" /\ want' = NoAlarm /\ Call(Arm(v))
SimpleCmd2 == job' = "simple" /\ want' = NoAlarm /\ Call(Read(1))

ClientLed(v) == job' = "led" /\ want' = NoAlarm /\ Call(Led(v))

Request ==
    /\ job = "none" /\ jobs > 0 /\ jobs' = jobs - 1
    /\ \/ WriteAlarm \/ ReadAlarm("read") \/ ReadAlarm("plus")
       \/ SimpleCmd(0) \/ SimpleCmd(1) \/ SimpleCmd2
       \/ \E v \in ClientLeds : ClientLed(v)
    /\ told' = "none"
    /\ UNCHANGED <<line, mcu, got, files, curr, left, writes>>

Reply(t) == job' = "none" /\ told' = t /\ UNCHANGED <<call, want, done, sure>>

(* writealarm(), register by register, then readAlarm_cmd().               *)
WriteNext ==
    /\ job = "write" /\ pc = "ok" /\ UNCHANGED want
    /\ IF cmd.f < Fields THEN Call(Write(cmd.f + 1)) /\ UNCHANGED job
       ELSE job' = "read" /\ Call(Read(1))
    /\ UNCHANGED <<line, mcu, got, told, files, curr, env>>

(* Mutant: an alarm that is all zeros is enabled like any other.           *)
ArmAny == Arm(1)

(* readAlarm_cmd() enables what it read, unless it is all zeros.           *)
ArmRead == Arm(IF got = Off THEN 0 ELSE 1)

(* readalarm(), which "+Nd" and "+Nm" use to move the alarm.               *)
ReadNext ==
    /\ job \in {"read", "plus"} /\ pc = "ok" /\ cmd.op = "read"
    /\ IF cmd.f < Fields THEN Call(Read(cmd.f + 1)) /\ UNCHANGED <<job, want>>
       ELSE IF job = "read" THEN job' = "arm" /\ Call(ArmRead) /\ UNCHANGED want
       ELSE /\ job' = "write"
            /\ want' \in Alarms \ {Off}
            /\ Call(Write(1))
    /\ UNCHANGED <<line, mcu, got, told, files, curr, env>>

(* The answer to the last command of readAlarm_cmd() is not looked at.     *)
Armed ==
    /\ job = "arm" /\ pc \in {"ok", "err"}
    /\ Reply(IF got = Off THEN "disabled" ELSE "set")
    /\ UNCHANGED <<line, mcu, got, files, curr, env>>

Simple ==
    /\ job = "simple" /\ pc = "ok" /\ Reply("OK")
    /\ UNCHANGED <<line, mcu, got, files, curr, env>>

GiveUp ==
    /\ job \in {"write", "read", "plus", "simple", "led", "poll"} /\ pc = "err"
    /\ Reply(IF job = "poll" THEN told ELSE "ERR")
    /\ UNCHANGED <<line, mcu, got, files, curr, env>>

(* readset_powerled(), when it finds a difference; the trigger is noted    *)
(* before the MCU is asked.                                                *)
ReadsetPowerLed ==
    /\ job = "none"
    /\ ctrig # trig \/ (trig = "none" /\ cbri # bri)
    /\ ctrig' = trig
    /\ cbri' = IF trig = "none" THEN bri ELSE cbri
    /\ IF trig # "none" THEN job' = "poll" /\ Call(Led(2))
       ELSE IF cbri # bri /\ bri # -1 THEN job' = "poll" /\ Call(Led(bri))
       ELSE UNCHANGED <<call, job, done, sure>>
    /\ UNCHANGED <<line, mcu, want, got, told, files, blinks, env>>

(* setpowerled_cmd() got its answer and writes the files, over whatever    *)
(* they now hold.                                                          *)
SetPowerLed ==
    /\ job \in {"led", "poll"} /\ pc = "ok"
    /\ ctrig' = IF cmd.v = 2 THEN "timer" ELSE "none"
    /\ trig' = ctrig'
    /\ bri' = IF cmd.v = 2 THEN cbri ELSE cmd.v
    /\ cbri' = IF cmd.v = 2 /\ job = "poll" THEN Forgotten ELSE bri'
    /\ blinks' = IF cmd.v # 2 THEN 0 ELSE IF job = "led" THEN 1 ELSE blinks
    /\ Reply(IF job = "poll" THEN told ELSE "OK")
    /\ UNCHANGED <<line, mcu, got, env>>

(* Another program sets the LED: a trigger, or a brightness under "none".  *)
Program ==
    /\ writes > 0 /\ writes' = writes - 1
    /\ \/ trig' \in Triggers \cup {"none"} /\ UNCHANGED bri
       \/ trig = "none" /\ bri' \in {0, 1} /\ UNCHANGED trig
    /\ UNCHANGED <<call, line, mcu, handler, curr, done, sure, left, jobs>>

Exchange == Send \/ SendError \/ Receive \/ Timeout
Handle == WriteNext \/ ReadNext \/ Armed \/ Simple \/ GiveUp
          \/ ReadsetPowerLed \/ SetPowerLed

Next == Exchange \/ Handle \/ Serve \/ Arrive \/ Request \/ Program

Spec == Init /\ [][Next]_vars

(* The daemon's loop and the MCU go on; what arrives late or never is a    *)
(* mishap, of which there are MaxMishaps.                                  *)
FairSpec ==
    Spec /\ WF_vars(Exchange) /\ WF_vars(Handle) /\ WF_vars(Serve) /\ WF_vars(Arrive)

-----------------------------------------------------------------------------
(* SendCommand() keeps its promise: whatever the line does, a call that    *)
(* began on a quiet line reports success only if the MCU obeyed during it. *)
Service == INSTANCE McuService WITH
    call <- IF Calling THEN cmd ELSE NoCommand,
    did <- done,
    quiet <- sure,
    answer <- IF pc = "ok" THEN "OK" ELSE IF pc = "err" THEN "ERR" ELSE "none"
Promise == Service!SSpec

(* What WriteAlarm and ReadAlarm tell the user is what the MCU holds: every*)
(* register, of the alarm asked for, though each command may have been     *)
(* tried several times; and it is armed, if its last command was answered. *)
(* A single value is the right one too.                                    *)
AlarmTold ==
  /\ job = "none" /\ cmd.op = "read" /\ told = "OK" /\ sure = 1 =>
        got[cmd.f] = alarm[cmd.f]
  /\ job = "none" /\ cmd.op = "arm" /\ told \in {"set", "disabled"} /\ sure = 1 =>
        /\ alarm = got
        /\ want # NoAlarm => alarm = want
        /\ told = "disabled" <=> alarm = Off
        /\ pc = "ok" => armed = IF told = "set" THEN 1 ELSE 0

(* nRetries: as many mishaps as there are retries never fail a command that*)
(* only wants an acknowledgement and found the line quiet, be they losses, *)
(* garbled packets, late answers or write errors.                          *)
RetriesMask ==
    pc = "err" /\ sure = 1 /\ cmd.op # "read" => MaxMishaps - left > Retries

(* What the files of the power LED say.                                    *)
Wanted == IF trig = "none" THEN bri ELSE 2

(* A client's PowerLedBlink keeps the brightness: when the blinking is     *)
(* then ended in the files alone, with this brightness, that is no news.   *)
BlinksOn == blinks = 1 /\ lamp = 2 /\ trig = "none" /\ cbri = bri

(* dns320l-daemon.c:1139 "read /tmp/sys/power_led/trigger and set the power*)
(* led accordingly": once the files rest the LED shows what they say,      *)
(* whoever wrote them and when, as long as the retries were enough and no  *)
(* LED command met the remains of an earlier one on the line.  There is    *)
(* one exception: a LED that a client made blink may go on blinking.       *)
LampAgrees ==
    [](/\ MaxMishaps - left <= Retries
       /\ job \in {"led", "poll"} => sure = 1)
    => <>[](lamp = Wanted \/ BlinksOn)
=============================================================================
