-------------------------- MODULE McuDaemonProofs --------------------------
(***************************************************************************)
(* For every number of retries, registers and mishaps: SendCommand() keeps *)
(* the promise of McuService, its retries mask as many mishaps, and what   *)
(* the alarm handlers tell the user is what the MCU holds.                 *)
(***************************************************************************)
EXTENDS McuDaemon, TLAPS, SequenceTheorems

(* Until the MCU has obeyed a call that began on a quiet line there is     *)
(* nothing on the line but that call's own command.                        *)
OwnLine ==
    Calling /\ sure = 1 /\ done = 0 =>
        /\ out = <<>>
        /\ pc # "send" => port = <<>>
        /\ \A i \in 1..Len(wire) : wire[i] = cmd

IInv == TypeOK /\ OwnLine

LEMMA HeadTail ==
    ASSUME NEW S, NEW s \in Seq(S), s # <<>>
    PROVE  /\ Head(s) \in S /\ Tail(s) \in Seq(S)
           /\ Head(s) = s[1] /\ Len(s) > 0
OBVIOUS

LEMMA AppendOwn ==
    ASSUME NEW S, NEW s \in Seq(S), NEW c \in S,
           \A i \in 1..Len(s) : s[i] = c
    PROVE  \A i \in 1..Len(Append(s, c)) : Append(s, c)[i] = c
OBVIOUS

(* Every command a handler may send is one, and not NoCommand.             *)
LEMMA CommandType ==
    /\ \A v \in Nat : Arm(v) \in Commands /\ Led(v) \in Commands /\ Led(v).v = v
    /\ \A f \in 1..Fields : Read(f) \in Commands
    /\ \A f \in 1..Fields : want'[f] \in Nat => Write(f) \in Commands
    /\ NoCommand \notin Commands
BY DEF Arm, Led, Read, Write, Command, NoCommand, Commands

LEMMA ArmReadType == ArmRead \in Commands
BY DEF ArmRead, Arm, Command, Commands

LEMMA PacketType ==
    /\ Ack \in Packets /\ Junk \in Packets
    /\ \A f \in Nat, v \in Nat : Packet("value", f, v) \in Packets
BY DEF Ack, Junk, Packet, Packets

(* What a new call does to the state of SendCommand().                     *)
LEMMA CallInv ==
    ASSUME NEW c \in Commands, Call(c), UNCHANGED line, IInv
    PROVE  CallType' /\ LineType' /\ OwnLine' /\ cmd' = c
<1>1. CallType'
  BY McuAssumption DEF Call, CallType, Calling
<1>2. LineType'
  BY DEF IInv, TypeOK, LineType, line
<1>3. OwnLine'
  BY DEF Call, line, OwnLine
<1> QED
  BY <1>1, <1>2, <1>3 DEF Call

LEMMA FailedType ==
    ASSUME CallType, Failed
    PROVE  pc' \in {"send", "err"} /\ try' \in 1..Retries + 1
BY McuAssumption DEF Failed, CallType

LEMMA MishapType ==
    ASSUME EnvType, Mishap \/ Fine
    PROVE  EnvType'
BY DEF Mishap, Fine, env, EnvType

LEMMA InitIInv == Init => IInv
<1> SUFFICES ASSUME Init PROVE IInv
  OBVIOUS
<1>1. Off \in [1..Fields -> Nat]
  BY DEF Off
<1>2. CallType
  BY McuAssumption DEF Init, CallType, Calling
<1>3. LineType /\ McuType /\ LedType /\ EnvType
  BY McuAssumption DEF Init, Forgotten, LineType, McuType, LedType, EnvType
<1>4. HandlerType
  BY <1>1 DEF Init, HandlerType, Handlers, Calling
<1> QED
  BY <1>2, <1>3, <1>4 DEF Init, IInv, TypeOK, OwnLine, Calling

(* Steps that leave the handler, the LED files and the MCU alone.          *)
LEMMA OthersType ==
    /\ McuType /\ UNCHANGED mcu => McuType'
    /\ LedType /\ UNCHANGED <<files, curr>> => LedType'
    /\ HandlerType /\ UNCHANGED <<handler, cmd>> /\ (Calling' => Calling) => HandlerType'
    /\ LineType /\ UNCHANGED line => LineType'
    /\ EnvType /\ UNCHANGED env => EnvType'
BY DEF McuType, mcu, LedType, files, curr, HandlerType, handler, LineType, line,
       EnvType, env

(* The steps of SendCommand().                                             *)
LEMMA ExchangeIInv == IInv /\ Exchange => IInv'
<1> SUFFICES ASSUME IInv, Exchange PROVE IInv'
  OBVIOUS
<1>0. CallType /\ LineType /\ McuType /\ HandlerType /\ LedType /\ EnvType /\ OwnLine
  BY DEF IInv, TypeOK
<1>1. CASE Send
  <2>0. pc = "send" /\ pc' \in {"value", "ack"} /\ port' = <<>> /\ cmd \in Commands
    BY <1>0, <1>1 DEF Send, ClearSerialPort, CallType, Calling
  <2>1. wire' \in {wire, Append(wire, cmd)} /\ UNCHANGED <<cmd, try, out, done, sure>>
    BY <1>1 DEF Send
  <2>2. CallType'
    BY <1>0, <2>0, <2>1 DEF CallType, Calling
  <2>3. LineType'
    BY <1>0, <2>0, <2>1 DEF LineType
  <2>4. OwnLine'
    <3>1. ASSUME sure = 1, done = 0 PROVE \A i \in 1..Len(wire') : wire'[i] = cmd
      <4>1. \A i \in 1..Len(wire) : wire[i] = cmd
        BY <1>0, <2>0, <3>1 DEF OwnLine, Calling
      <4>2. wire \in Seq(Commands) /\ cmd \in Commands
        BY <1>0, <2>0 DEF LineType
      <4>3. CASE wire' = wire
        BY <4>1, <4>3, <2>1
      <4>4. CASE wire' = Append(wire, cmd)
        <5>1. \A i \in 1..Len(Append(wire, cmd)) : Append(wire, cmd)[i] = cmd
          BY <4>1, <4>2, AppendOwn
        <5> QED
          BY <4>4, <5>1, <2>1
      <4> QED
        BY <4>3, <4>4, <2>1
    <3>2. sure = 1 /\ done = 0 => out = <<>>
      BY <1>0, <2>0 DEF OwnLine, Calling
    <3> QED
      BY <2>0, <2>1, <3>1, <3>2 DEF OwnLine
  <2>5. EnvType'
    BY <1>0, <1>1, MishapType DEF Send
  <2>6. McuType' /\ LedType' /\ HandlerType'
    BY <1>0, <1>1, <2>0, <2>1, OthersType DEF Send, Calling
  <2> QED
    BY <2>2, <2>3, <2>4, <2>5, <2>6 DEF IInv, TypeOK
<1>2. CASE SendError
  <2>0. /\ pc = "send" /\ port' = <<>> /\ Failed /\ Mishap
        /\ UNCHANGED <<cmd, wire, out, mcu, handler, files, curr, done, sure>>
    BY <1>2 DEF SendError, ClearSerialPort
  <2>1. pc' \in {"send", "err"} /\ try' \in 1..Retries + 1
    BY <1>0, <2>0, FailedType
  <2>2. CallType'
    BY <1>0, <2>0, <2>1 DEF CallType, Calling
  <2>3. LineType'
    BY <1>0, <2>0 DEF LineType
  <2>4. OwnLine'
    BY <1>0, <2>0, <2>1 DEF OwnLine, Calling
  <2>5. EnvType' /\ McuType' /\ LedType' /\ HandlerType'
    BY <1>0, <2>0, OthersType, MishapType DEF Calling
  <2> QED
    BY <2>2, <2>3, <2>4, <2>5 DEF IInv, TypeOK
<1>3. CASE Receive
  <2>0. /\ Calling /\ pc # "send" /\ port # <<>> /\ port' = Tail(port)
        /\ UNCHANGED <<cmd, wire, out, mcu, job, want, told, files, curr, done, sure, env>>
    BY <1>3 DEF Receive, Calling
  <2>1. Head(port) \in Packets /\ port' \in Seq(Packets)
    BY <1>0, <2>0, HeadTail DEF LineType
  <2>2. got' \in [1..Fields -> Nat]
    BY <1>0, <1>3, <2>1 DEF Receive, HandlerType, Packets
  <2>3. pc' \in {"send", "ack", "ok", "err"} /\ try' \in 1..Retries + 1
    <3>1. CASE Failed
      BY <1>0, <3>1, FailedType
    <3>2. CASE ~Failed
      BY <1>0, <1>3, <3>2 DEF Receive, CallType
    <3> QED
      BY <3>1, <3>2
  <2>4. CallType'
    BY <1>0, <2>0, <2>3 DEF CallType, Calling
  <2>5. LineType'
    BY <1>0, <2>0, <2>1 DEF LineType
  <2>6. HandlerType'
    BY <1>0, <2>0, <2>2 DEF HandlerType
  <2>7. OwnLine'
    BY <1>0, <2>0 DEF OwnLine
  <2>8. McuType' /\ LedType' /\ EnvType'
    BY <1>0, <2>0, OthersType
  <2> QED
    BY <2>4, <2>5, <2>6, <2>7, <2>8 DEF IInv, TypeOK
<1>4. CASE Timeout
  <2>0. /\ Calling /\ Failed
        /\ UNCHANGED <<cmd, line, mcu, handler, files, curr, done, sure>>
        /\ Fine \/ Mishap
    BY <1>4 DEF Timeout, Calling
  <2>1. pc' \in {"send", "err"} /\ try' \in 1..Retries + 1
    BY <1>0, <2>0, FailedType
  <2>2. CallType'
    BY <1>0, <2>0, <2>1 DEF CallType, Calling
  <2>3. OwnLine'
    BY <1>0, <2>0, <2>1 DEF OwnLine, Calling, line
  <2>4. EnvType' /\ LineType' /\ McuType' /\ LedType' /\ HandlerType'
    BY <1>0, <2>0, OthersType, MishapType
  <2> QED
    BY <2>2, <2>3, <2>4 DEF IInv, TypeOK
<1> QED
  BY <1>1, <1>2, <1>3, <1>4 DEF Exchange

(* The steps of the MCU and of the line.                                   *)
LEMMA LineIInv == IInv /\ (Serve \/ Arrive) => IInv'
<1> SUFFICES ASSUME IInv, Serve \/ Arrive PROVE IInv'
  OBVIOUS
<1>0. CallType /\ LineType /\ McuType /\ HandlerType /\ LedType /\ EnvType /\ OwnLine
  BY DEF IInv, TypeOK
<1>1. CASE Serve
  <2> DEFINE c == Head(wire)
  <2>1. /\ wire # <<>> /\ wire' = Tail(wire)
        /\ UNCHANGED <<call, port, handler, files, curr, sure, env>>
    BY <1>1 DEF Serve
  <2>2. c \in Commands /\ wire' \in Seq(Commands) /\ c = wire[1] /\ Len(wire) > 0
    BY <1>0, <2>1, HeadTail DEF LineType
  <2>3. c.f \in Nat /\ c.v \in Nat
    BY <2>2 DEF Commands
  <2>4. alarm' \in [1..Fields -> Nat] /\ armed' \in Nat /\ lamp' \in Nat
    BY <1>0, <1>1, <2>3 DEF Serve, McuType
  <2>5. out' \in Seq(Packets)
    <3>1. CASE c.op # "read"
      BY <1>0, <1>1, <3>1, PacketType DEF Serve, LineType
    <3>2. CASE c.op = "read"
      <4>1. Packet("value", c.f, alarm[c.f]) \in Packets
        BY <1>0, <2>2, <2>3, <3>2, PacketType DEF Commands, McuType
      <4> QED
        BY <1>0, <1>1, <3>2, <4>1, PacketType DEF Serve, LineType
    <3> QED
      BY <3>1, <3>2
  <2>6. done' \in {0, 1} /\ (Calling /\ c = cmd => done' = 1)
    BY <1>0, <1>1 DEF Serve, CallType
  <2>7. CallType'
    BY <1>0, <2>1, <2>6 DEF CallType, Calling, call
  <2>8. LineType'
    BY <1>0, <2>1, <2>2, <2>5 DEF LineType
  <2>9. Calling /\ sure = 1 => done' = 1
    <3>1. Calling /\ sure = 1 /\ done = 0 => c = cmd
      BY <1>0, <2>2 DEF OwnLine, LineType
    <3> QED
      BY <1>0, <1>1, <2>6, <3>1 DEF Serve, CallType
  <2>10. OwnLine'
    BY <2>1, <2>6, <2>9 DEF OwnLine, Calling, call
  <2>11. McuType' /\ LedType' /\ HandlerType' /\ EnvType'
    BY <1>0, <2>1, <2>4, OthersType DEF McuType, call, Calling
  <2> QED
    BY <2>7, <2>8, <2>10, <2>11 DEF IInv, TypeOK
<1>2. CASE Arrive
  <2>1. /\ out # <<>> /\ out' = Tail(out) /\ (Fine \/ Mishap)
        /\ UNCHANGED <<call, wire, mcu, handler, files, curr, done, sure>>
    BY <1>2 DEF Arrive
  <2>2. Head(out) \in Packets /\ out' \in Seq(Packets)
    BY <1>0, <2>1, HeadTail DEF LineType
  <2>3. port' \in Seq(Packets)
    <3>1. port' \in {port, Append(port, Head(out)), Append(port, Junk)}
      BY <1>2 DEF Arrive
    <3>2. \A p \in Packets : Append(port, p) \in Seq(Packets)
      BY <1>0 DEF LineType
    <3> QED
      BY <1>0, <2>2, <3>1, <3>2, PacketType DEF LineType
  <2>4. LineType'
    BY <1>0, <2>1, <2>2, <2>3 DEF LineType
  <2>5. OwnLine'
    BY <1>0, <2>1 DEF OwnLine, Calling, call
  <2>6. CallType'
    BY <1>0, <2>1 DEF CallType, Calling, call
  <2>7. McuType' /\ LedType' /\ HandlerType' /\ EnvType'
    BY <1>0, <2>1, OthersType, MishapType DEF call, Calling
  <2> QED
    BY <2>4, <2>5, <2>6, <2>7 DEF IInv, TypeOK
<1> QED
  BY <1>1, <1>2

(* A handler that starts its next command.                                 *)
LEMMA CallStep ==
    ASSUME IInv, NEW c \in Commands, Call(c), UNCHANGED <<line, mcu>>,
           HandlerType', LedType', EnvType'
    PROVE  IInv'
<1>1. CallType' /\ LineType' /\ OwnLine'
  BY CallInv
<1>2. McuType'
  BY OthersType DEF IInv, TypeOK
<1> QED
  BY <1>1, <1>2 DEF IInv, TypeOK

(* A handler that replies.                                                 *)
LEMMA ReplyStep ==
    ASSUME IInv, UNCHANGED <<call, line, mcu, done, sure>>,
           HandlerType', LedType', EnvType'
    PROVE  IInv'
<1>1. CallType' /\ LineType' /\ McuType'
  BY OthersType DEF IInv, TypeOK, CallType, call, Calling
<1>2. OwnLine'
  BY DEF IInv, OwnLine, call, line, Calling
<1> QED
  BY <1>1, <1>2 DEF IInv, TypeOK

(* The steps of the handlers, their requests and the LED's other users.    *)
LEMMA HandlerIInv == IInv /\ (Handle \/ Request \/ Program) => IInv'
<1> SUFFICES ASSUME IInv, Handle \/ Request \/ Program PROVE IInv'
  OBVIOUS
<1>0. CallType /\ LineType /\ McuType /\ HandlerType /\ LedType /\ EnvType
  BY DEF IInv, TypeOK
<1>f. 1 \in 1..Fields /\ Off \in [1..Fields -> Nat] /\ Alarms \subseteq [1..Fields -> Nat]
  BY McuAssumption DEF Off
<1>1. CASE Request
  <2>0. /\ job = "none" /\ told' = "none" /\ EnvType'
        /\ UNCHANGED <<line, mcu, got, files, curr>>
    BY <1>0, <1>1 DEF Request, EnvType
  <2>1. LedType'
    BY <1>0, <2>0, OthersType
  <2>2. CASE \E a \in Alarms : job' = "write" /\ want' = a /\ Call(Write(1))
    <3>1. want' \in [1..Fields -> Nat] /\ job' = "write" /\ Call(Write(1))
      BY <1>f, <2>2
    <3>2. Write(1) \in Commands
      BY <1>f, <3>1, CommandType
    <3>3. HandlerType'
      BY <1>0, <2>0, <3>1 DEF HandlerType, Handlers
    <3> QED
      BY <2>0, <2>1, <3>1, <3>2, <3>3, CallStep
  <2>3. ASSUME NEW c \in Commands, Call(c), job' \in {"read", "plus", "simple", "led"},
               job' = "led" => c.v \in 0..2, want' = NoAlarm
        PROVE  IInv'
    <3>1. HandlerType'
      BY <1>0, <2>0, <2>3 DEF HandlerType, Handlers, Call
    <3> QED
      BY <2>0, <2>1, <2>3, <3>1, CallStep
  <2>4. Read(1) \in Commands /\ Arm(0) \in Commands /\ Arm(1) \in Commands
    BY <1>f, CommandType
  <2>5. \A v \in ClientLeds : Led(v) \in Commands /\ Led(v).v \in 0..2
    BY CommandType, McuAssumption
  <2> QED
    BY <1>1, <2>2, <2>3, <2>4, <2>5
       DEF Request, WriteAlarm, ReadAlarm, SimpleCmd, SimpleCmd2, ClientLed
<1>2. CASE WriteNext
  <2>0. job = "write" /\ pc = "ok" /\ UNCHANGED <<want, line, mcu, got, told, files, curr, env>>
    BY <1>2 DEF WriteNext
  <2>1. LedType' /\ EnvType'
    BY <1>0, <2>0, OthersType
  <2>2. want' \in [1..Fields -> Nat]
    BY <1>0, <2>0 DEF HandlerType
  <2>3. CASE cmd.f < Fields
    <3>1. cmd.f + 1 \in 1..Fields
      BY <1>0, <2>3, McuAssumption DEF CallType, Commands, NoCommand, Command
    <3>2. Write(cmd.f + 1) \in Commands /\ Call(Write(cmd.f + 1)) /\ job' = job
      BY <1>2, <2>2, <2>3, <3>1, CommandType DEF WriteNext
    <3>3. HandlerType'
      BY <1>0, <2>0, <2>2, <3>2 DEF HandlerType
    <3> QED
      BY <2>0, <2>1, <3>2, <3>3, CallStep
  <2>4. CASE ~(cmd.f < Fields)
    <3>1. Read(1) \in Commands /\ Call(Read(1)) /\ job' = "read"
      BY <1>f, <1>2, <2>4, CommandType DEF WriteNext
    <3>2. HandlerType'
      BY <1>0, <2>0, <2>2, <3>1 DEF HandlerType, Handlers
    <3> QED
      BY <2>0, <2>1, <3>1, <3>2, CallStep
  <2> QED
    BY <2>3, <2>4
<1>3. CASE ReadNext
  <2>0. /\ job \in {"read", "plus"} /\ cmd.op = "read"
        /\ UNCHANGED <<line, mcu, got, told, files, curr, env>>
    BY <1>3 DEF ReadNext
  <2>1. LedType' /\ EnvType'
    BY <1>0, <2>0, OthersType
  <2>2. CASE cmd.f < Fields
    <3>1. cmd.f + 1 \in 1..Fields
      BY <1>0, <2>2, McuAssumption DEF CallType, Commands, NoCommand, Command
    <3>2. Read(cmd.f + 1) \in Commands /\ Call(Read(cmd.f + 1)) /\ UNCHANGED <<job, want>>
      BY <1>3, <2>2, <3>1, CommandType DEF ReadNext
    <3>3. HandlerType'
      BY <1>0, <2>0, <3>2 DEF HandlerType
    <3> QED
      BY <2>0, <2>1, <3>2, <3>3, CallStep
  <2>3. CASE ~(cmd.f < Fields) /\ job = "read"
    <3>1. ArmRead \in Commands /\ Call(ArmRead) /\ job' = "arm" /\ want' = want
      BY <1>3, <2>3, ArmReadType DEF ReadNext
    <3>2. HandlerType'
      BY <1>0, <2>0, <3>1 DEF HandlerType, Handlers
    <3> QED
      BY <2>0, <2>1, <3>1, <3>2, CallStep
  <2>4. CASE ~(cmd.f < Fields) /\ job # "read"
    <3>1. want' \in [1..Fields -> Nat] /\ job' = "write" /\ Call(Write(1))
      BY <1>f, <1>3, <2>4 DEF ReadNext
    <3>2. Write(1) \in Commands
      BY <1>f, <3>1, CommandType
    <3>3. HandlerType'
      BY <1>0, <2>0, <3>1 DEF HandlerType, Handlers
    <3> QED
      BY <2>0, <2>1, <3>1, <3>2, <3>3, CallStep
  <2> QED
    BY <2>2, <2>3, <2>4
<1>4. CASE Armed \/ Simple \/ GiveUp
  <2>1. /\ job' = "none" /\ told' \in {"OK", "ERR", "set", "disabled", told}
        /\ pc \in {"ok", "err"}
        /\ UNCHANGED <<call, want, done, sure, line, mcu, got, files, curr, env>>
    BY <1>4 DEF Armed, Simple, GiveUp, Reply
  <2>2. HandlerType'
    BY <1>0, <2>1 DEF HandlerType, Handlers, Calling, call
  <2> QED
    BY <1>0, <2>1, <2>2, ReplyStep, OthersType
<1>5. CASE ReadsetPowerLed
  <2>0. job = "none" /\ UNCHANGED <<line, mcu, want, got, told, files, env>>
    BY <1>5 DEF ReadsetPowerLed
  <2>1. LedType'
    BY <1>0, <1>5, <2>0 DEF ReadsetPowerLed, Forgotten, LedType, files
  <2>2. EnvType'
    BY <1>0, <2>0, OthersType
  <2>3. ASSUME NEW c \in Commands, Call(c), job' = "poll", c.v \in 0..2 PROVE IInv'
    <3>1. HandlerType'
      BY <1>0, <2>0, <2>3 DEF HandlerType, Handlers, Call
    <3> QED
      BY <2>0, <2>1, <2>2, <2>3, <3>1, CallStep
  <2>4. CASE UNCHANGED <<call, job, done, sure>>
    <3>1. HandlerType'
      BY <1>0, <2>0, <2>4 DEF HandlerType, call, Calling
    <3> QED
      BY <2>0, <2>1, <2>2, <2>4, <3>1, ReplyStep
  <2>5. Led(2) \in Commands /\ Led(2).v \in 0..2
    BY CommandType
  <2>6. bri # -1 => bri \in 0..1
    BY <1>0 DEF LedType
  <2>7. bri # -1 => Led(bri) \in Commands /\ Led(bri).v \in 0..2
    BY <2>6, CommandType
  <2> QED
    BY <1>5, <2>3, <2>4, <2>5, <2>7 DEF ReadsetPowerLed
<1>6. CASE SetPowerLed
  <2>0. /\ job \in {"led", "poll"} /\ pc = "ok" /\ job' = "none" /\ told' \in {told, "OK"}
        /\ UNCHANGED <<call, want, done, sure, line, mcu, got, env>>
    BY <1>6 DEF SetPowerLed, Reply
  <2>1. cmd.v \in 0..2
    BY <1>0, <2>0 DEF HandlerType
  <2>2. ctrig' \in Triggers \cup {"none"} /\ trig' = ctrig'
    BY <1>6, McuAssumption DEF SetPowerLed
  <2>3. bri' \in -1..1
    BY <1>0, <1>6, <2>1 DEF SetPowerLed, LedType
  <2>4. cbri' \in -1..1
    BY <1>6, <2>3 DEF SetPowerLed, Forgotten
  <2>5. HandlerType'
    BY <1>0, <2>0 DEF HandlerType, Handlers, Calling, call
  <2>6. blinks' \in {0, 1}
    BY <1>0, <1>6 DEF SetPowerLed, LedType
  <2>7. LedType' /\ EnvType'
    BY <1>0, <2>0, <2>2, <2>3, <2>4, <2>6, OthersType DEF LedType
  <2> QED
    BY <2>0, <2>5, <2>7, ReplyStep
<1>7. CASE Program
  <2>0. UNCHANGED <<call, line, mcu, handler, curr, done, sure>> /\ EnvType'
    BY <1>0, <1>7 DEF Program, EnvType
  <2>1. LedType'
    BY <1>0, <1>7 DEF Program, LedType, curr
  <2>2. HandlerType'
    BY <1>0, <2>0, OthersType DEF call, Calling
  <2> QED
    BY <2>0, <2>1, <2>2, ReplyStep
<1> QED
  BY <1>1, <1>2, <1>3, <1>4, <1>5, <1>6, <1>7 DEF Handle

LEMMA NextIInv == IInv /\ [Next]_vars => IInv'
<1> SUFFICES ASSUME IInv, [Next]_vars PROVE IInv'
  OBVIOUS
<1>1. CASE UNCHANGED vars
  <2>1. HandlerType' /\ LedType' /\ EnvType'
    BY <1>1, OthersType DEF IInv, TypeOK, vars, call, Calling
  <2> QED
    BY <1>1, <2>1, ReplyStep DEF vars
<1> QED
  BY <1>1, ExchangeIInv, LineIInv, HandlerIInv DEF Next

THEOREM Invariance == Spec => []IInv
<1> QED
  BY InitIInv, NextIInv, PTL DEF Spec

(* The daemon, the line and the microcontroller stay within their types,   *)
(* whatever was lost, garbled or late.                                     *)
THEOREM McuTypes == Spec => []TypeOK
<1>1. IInv => TypeOK
  BY DEF IInv
<1> QED
  BY <1>1, Invariance, PTL

-----------------------------------------------------------------------------
(* The refinement: a call of SendCommand() is a call of the service.       *)

(* A step that neither begins, ends nor obeys a call stutters.             *)
LEMMA StutterStep ==
    ASSUME UNCHANGED <<pc, cmd, done, sure>> PROVE UNCHANGED Service!svars
BY DEF Service!svars, Calling, NoCommand

LEMMA AskStep ==
    ASSUME ~Calling, NEW c \in Commands, Call(c) PROVE Service!Ask
<1>1. /\ pc' = "send" /\ cmd' = c /\ done' = 0 /\ sure' \in {0, 1}
  BY DEF Call
<1>2. Calling'
  BY <1>1 DEF Calling
<1> QED
  BY <1>1, <1>2 DEF Service!Ask

(* An attempt that fails is retried, or ends the call in an error.         *)
LEMMA FailStep ==
    ASSUME CallType, Calling, Failed, UNCHANGED <<cmd, done, sure>>
    PROVE  UNCHANGED Service!svars \/ Service!Answer
<1>1. CASE pc' = "send"
  <2>1. Calling' /\ pc # "ok" /\ pc # "err"
    BY <1>1 DEF Calling
  <2> QED
    BY <1>1, <2>1 DEF Service!svars
<1>2. CASE pc' = "err"
  <2>1. ~Calling' /\ cmd # NoCommand
    BY <1>2, CommandType DEF Calling, CallType
  <2> QED
    BY <1>2, <2>1 DEF Service!Answer
<1> QED
  BY <1>1, <1>2, FailedType

(* A step of a handler, a request or another program either leaves         *)
(* SendCommand() alone or calls it.                                        *)
LEMMA HandlerCalls ==
    ASSUME IInv, Handle \/ Request \/ Program
    PROVE  /\ UNCHANGED <<line, mcu, left>>
           /\ UNCHANGED <<call, done, sure>> \/ \E c \in Commands : Call(c)
<1>0. CallType /\ HandlerType /\ LedType
  BY DEF IInv, TypeOK
<1>f. 1 \in 1..Fields /\ Alarms \subseteq [1..Fields -> Nat]
  BY McuAssumption
<1>n. cmd.op # "none" /\ cmd.f < Fields => cmd.f + 1 \in 1..Fields
  BY <1>0, McuAssumption DEF CallType, Commands, NoCommand, Command
<1>1. CASE Armed \/ Simple \/ GiveUp \/ SetPowerLed
  BY <1>1 DEF Armed, Simple, GiveUp, SetPowerLed, Reply, env
<1>2. CASE Program
  BY <1>2 DEF Program
<1>3. CASE Request
  <2>1. \A a \in Alarms : want' = a => Write(1) \in Commands
    BY <1>f, CommandType
  <2>2. /\ Read(1) \in Commands /\ Arm(0) \in Commands /\ Arm(1) \in Commands
        /\ \A v \in ClientLeds : Led(v) \in Commands
    BY <1>f, CommandType, McuAssumption
  <2> QED
    BY <1>3, <2>1, <2>2
       DEF Request, WriteAlarm, ReadAlarm, SimpleCmd, SimpleCmd2, ClientLed
<1>4. CASE WriteNext
  <2>1. want' \in [1..Fields -> Nat]
    BY <1>0, <1>4 DEF WriteNext, HandlerType
  <2>2. cmd.f < Fields => cmd.f + 1 \in 1..Fields
    BY <1>0, McuAssumption DEF CallType, Commands, NoCommand, Command
  <2>3. cmd.f < Fields => Write(cmd.f + 1) \in Commands
    BY <2>1, <2>2, CommandType
  <2> QED
    BY <1>f, <1>4, <2>3, CommandType DEF WriteNext, env
<1>5. CASE ReadNext
  <2>1. cmd.f < Fields => Read(cmd.f + 1) \in Commands
    BY <1>5, <1>n, CommandType DEF ReadNext
  <2>2. want' \in Alarms => Write(1) \in Commands
    BY <1>f, CommandType
  <2> QED
    BY <1>f, <1>5, <2>1, <2>2, CommandType, ArmReadType DEF ReadNext, env
<1>6. CASE ReadsetPowerLed
  <2>1. bri # -1 => bri \in Nat
    BY <1>0 DEF LedType
  <2>2. Led(2) \in Commands /\ (bri # -1 => Led(bri) \in Commands)
    BY <2>1, CommandType
  <2> QED
    BY <1>6, <2>2 DEF ReadsetPowerLed, call, env
<1> QED
  BY <1>1, <1>2, <1>3, <1>4, <1>5, <1>6 DEF Handle

LEMMA ServiceStep ==
    ASSUME IInv, [Next]_vars
    PROVE  Service!Ask \/ Service!CarryOut \/ Service!Answer \/ UNCHANGED Service!svars
<1>0. CallType /\ HandlerType /\ OwnLine
  BY DEF IInv, TypeOK
<1>1. CASE Send
  <2>1. /\ pc = "send" /\ pc' \in {"value", "ack"} /\ UNCHANGED <<cmd, done, sure>>
    BY <1>1 DEF Send
  <2> QED
    BY <2>1 DEF Service!svars, Calling
<1>2. CASE SendError \/ Timeout
  <2>1. Calling /\ Failed /\ UNCHANGED <<cmd, done, sure>>
    BY <1>2 DEF SendError, Timeout, Calling
  <2> QED
    BY <1>0, <2>1, FailStep
<1>3. CASE Receive
  <2>0. Calling /\ pc # "send" /\ port # <<>> /\ UNCHANGED <<cmd, done, sure>>
    BY <1>3 DEF Receive, Calling
  <2>1. CASE Failed
    BY <1>0, <2>0, <2>1, FailStep
  <2>2. CASE ~Failed /\ pc = "value"
    <3>1. pc' = "ack"
      BY <1>3, <2>2 DEF Receive
    <3> QED
      BY <2>0, <2>2, <3>1 DEF Service!svars, Calling
  <2>3. CASE ~Failed /\ pc # "value"
    <3>1. pc' = "ok" /\ ~Calling' /\ cmd # NoCommand
      BY <1>0, <1>3, <2>0, <2>3, CommandType DEF Receive, Calling, CallType
    <3>2. sure = 1 => done = 1
      BY <1>0, <2>0 DEF OwnLine, CallType
    <3> QED
      BY <2>0, <3>1, <3>2 DEF Service!Answer
  <2> QED
    BY <2>1, <2>2, <2>3
<1>4. CASE Serve
  <2>1. UNCHANGED <<pc, cmd, sure>> /\ (done' = done \/ (Calling /\ done' = 1))
    BY <1>4 DEF Serve, call
  <2>2. CASE done' = done
    BY <2>1, <2>2, StutterStep
  <2>3. CASE Calling /\ done' = 1
    <3>1. cmd # NoCommand
      BY <1>0, <2>3, CommandType DEF CallType
    <3> QED
      BY <2>1, <2>3, <3>1 DEF Service!CarryOut, Calling
  <2> QED
    BY <2>1, <2>2, <2>3
<1>5. CASE Arrive \/ Program
  <2>1. UNCHANGED <<pc, cmd, done, sure>>
    BY <1>5 DEF Arrive, Program, call
  <2> QED
    BY <2>1, StutterStep
<1>6. CASE Handle \/ Request
  <2>1. ~Calling
    BY <1>0, <1>6 DEF Handle, WriteNext, ReadNext, Armed, Simple, GiveUp,
          ReadsetPowerLed, SetPowerLed, Request, HandlerType, Calling
  <2>2. UNCHANGED <<call, done, sure>> \/ \E c \in Commands : Call(c)
    BY <1>6, HandlerCalls
  <2> QED
    BY <2>1, <2>2, AskStep, StutterStep DEF call
<1>7. CASE UNCHANGED vars
  BY <1>7, StutterStep DEF vars, call
<1> QED
  BY <1>1, <1>2, <1>3, <1>4, <1>5, <1>6, <1>7 DEF Next, Exchange

(* Whatever the line does, a call that began on a quiet line reports       *)
(* success only if the MCU obeyed during it: SendCommand() implements      *)
(* McuService.                                                             *)
THEOREM McuPromise == Spec => Promise
<1>1. Init => Service!SInit
  BY DEF Init, Service!SInit, Calling
<1> QED
  BY <1>1, ServiceStep, Invariance, PTL DEF Spec, Promise, Service!SSpec

-----------------------------------------------------------------------------
(* What the handlers may rely on, as long as all their commands found the  *)
(* line quiet.                                                             *)

(* Until the next call nothing is on its way but the command, perhaps      *)
(* several times, and its answers.                                         *)
Replies ==
    IF cmd.op = "read" THEN {Ack, Packet("value", cmd.f, alarm[cmd.f])} ELSE {Ack}
OwnAnswers ==
    sure = 1 =>
        /\ wire \in Seq({cmd}) /\ out \in Seq(Replies)
        /\ pc \in {"value", "ack"} => port \in Seq(Replies \cup {Junk})

(* Success is an obeyed command, and its effect stays.                     *)
Obeyed ==
    sure = 1 =>
        /\ pc = "ok" => done = 1
        /\ done = 1 /\ cmd.op = "write" => alarm[cmd.f] = cmd.v
        /\ done = 1 /\ cmd.op = "arm" => armed = cmd.v

(* Each attempt that failed cost a mishap; so did the present one when     *)
(* nothing is under way any more, or a packet came that is no answer.      *)
Mishaps == MaxMishaps - left
Paid ==
    /\ left <= MaxMishaps
    /\ pc = "value" => cmd.op = "read"
    /\ sure = 1 /\ cmd.op # "read" =>
          /\ Calling => Mishaps >= try - 1
          /\ pc = "ack" /\ wire = <<>> /\ out = <<>> /\ port = <<>> => Mishaps >= try
          /\ pc = "ack" /\ port \notin Seq({Ack}) => Mishaps >= try
          /\ pc = "err" => Mishaps > Retries

(* The commands of each handler.                                           *)
Script ==
    /\ job = "write" => cmd.op = "write" /\ cmd.v = want[cmd.f]
    /\ job \in {"read", "plus"} => cmd.op = "read"
    /\ job = "arm" => cmd.op = "arm" /\ cmd.v = IF got = Off THEN 0 ELSE 1
    /\ job \in {"led", "poll"} => cmd.op = "led"
    /\ job = "none" /\ cmd.op = "arm" /\ told \in {"set", "disabled"} =>
          cmd.v = IF told = "set" THEN 1 ELSE 0

(* How far it got, register by register.                                   *)
Progress ==
    sure = 1 =>
        /\ job = "write" => \A f \in 1..Fields : f < cmd.f => alarm[f] = want[f]
        /\ job \in {"read", "plus"} => \A f \in 1..Fields : f < cmd.f => got[f] = alarm[f]
        /\ job \in {"read", "plus", "simple"} /\ cmd.op = "read" /\ pc \in {"ack", "ok"}
              => got[cmd.f] = alarm[cmd.f]
        /\ job = "arm" => got = alarm
        /\ job \in {"read", "arm"} /\ want # NoAlarm => alarm = want

Told == OwnAnswers /\ Obeyed /\ Paid /\ Script /\ Progress /\ AlarmTold

LEMMA SeqSteps ==
    ASSUME NEW S, NEW s \in Seq(S), NEW e \in S
    PROVE  /\ Append(s, e) \in Seq(S) /\ Append(s, e) # <<>>
           /\ \A d \in S : s \o <<d, e>> \in Seq(S) /\ s \o <<d, e>> # <<>>
<1>1. Append(s, e) \in Seq(S) /\ Len(Append(s, e)) = Len(s) + 1
  OBVIOUS
<1>2. ASSUME NEW d \in S PROVE s \o <<d, e>> \in Seq(S) /\ Len(s \o <<d, e>>) = Len(s) + 2
  <2>1. <<d, e>> \in Seq(S) /\ Len(<<d, e>>) = 2
    OBVIOUS
  <2> QED
    BY <2>1, ConcatProperties
<1>3. Len(s) \in Nat /\ Len(<<>>) = 0
  OBVIOUS
<1> QED
  BY <1>1, <1>2, <1>3

LEMMA NonEmpty ==
    \A S : \A s \in Seq(S) : \A d, e : s \o <<d, e>> # <<>>
OBVIOUS

LEMMA NothingYet == \A S : <<>> \in Seq(S)
OBVIOUS

LEMMA PacketsDiffer ==
    /\ Ack.kind = "ack" /\ Junk.kind = "junk" /\ Junk # Ack
    /\ \A f, v : /\ Packet("value", f, v).kind = "value"
                 /\ Packet("value", f, v).f = f /\ Packet("value", f, v).v = v
BY DEF Ack, Junk, Packet

LEMMA AnswersStep == IInv /\ OwnAnswers /\ [Next]_vars => OwnAnswers'
<1> SUFFICES ASSUME IInv, OwnAnswers, [Next]_vars, sure' = 1
             PROVE  /\ wire' \in Seq({cmd'}) /\ out' \in Seq(Replies')
                    /\ pc' \in {"value", "ack"} => port' \in Seq(Replies' \cup {Junk})
  BY DEF OwnAnswers
<1>0. CallType /\ LineType
  BY DEF IInv, TypeOK
<1>1. CASE Send
  <2>1. /\ wire' \in {wire, Append(wire, cmd)} /\ port' = <<>>
        /\ UNCHANGED <<cmd, out, alarm, sure>>
    BY <1>1 DEF Send, ClearSerialPort, mcu
  <2>2. wire \in Seq({cmd})
    BY <2>1 DEF OwnAnswers
  <2> QED
    BY <2>1, <2>2, SeqSteps DEF OwnAnswers, Replies
<1>2. CASE SendError
  <2>1. UNCHANGED <<cmd, wire, out, alarm, sure>> /\ pc' \in {"send", "err"}
    BY <1>0, <1>2, FailedType DEF SendError, mcu
  <2> QED
    BY <2>1 DEF OwnAnswers, Replies
<1>3. CASE Receive
  <2>1. /\ UNCHANGED <<cmd, wire, out, alarm, sure>> /\ port # <<>> /\ port' = Tail(port)
        /\ pc \in {"value", "ack"}
    BY <1>3 DEF Receive, mcu
  <2>2. Tail(port) \in Seq(Replies \cup {Junk})
    BY <2>1, HeadTail DEF OwnAnswers
  <2> QED
    BY <2>1, <2>2 DEF OwnAnswers, Replies
<1>4. CASE Timeout
  <2>1. UNCHANGED <<cmd, line, alarm, sure>> /\ pc' \in {"send", "err"}
    BY <1>0, <1>4, FailedType DEF Timeout, mcu
  <2> QED
    BY <2>1 DEF OwnAnswers, Replies, line
<1>5. CASE Serve
  <2>1. /\ wire # <<>> /\ wire' = Tail(wire) /\ wire \in Seq({cmd})
        /\ UNCHANGED <<pc, cmd, port, sure>>
    BY <1>5 DEF Serve, call, OwnAnswers
  <2>2. Head(wire) = cmd /\ wire' \in Seq({cmd})
    BY <2>1, HeadTail
  <2>3. CASE cmd.op = "read"
    <3>1. alarm' = alarm /\ out' = out \o <<Packet("value", cmd.f, alarm[cmd.f]), Ack>>
      BY <1>5, <2>2, <2>3 DEF Serve
    <3> QED
      BY <2>1, <2>2, <2>3, <3>1, SeqSteps DEF OwnAnswers, Replies
  <2>4. CASE cmd.op # "read"
    <3>1. out' = Append(out, Ack)
      BY <1>5, <2>2, <2>4 DEF Serve
    <3> QED
      BY <2>1, <2>2, <2>4, <3>1, SeqSteps DEF OwnAnswers, Replies
  <2> QED
    BY <2>3, <2>4
<1>6. CASE Arrive
  <2>1. /\ out # <<>> /\ out' = Tail(out)
        /\ port' \in {port, Append(port, Head(out)), Append(port, Junk)}
        /\ UNCHANGED <<pc, cmd, wire, alarm, sure>>
    BY <1>6 DEF Arrive, call, mcu
  <2>2. Head(out) \in Replies /\ out' \in Seq(Replies)
    BY <2>1, HeadTail DEF OwnAnswers
  <2>3. pc' \in {"value", "ack"} => port' \in Seq(Replies \cup {Junk})
    BY <2>1, <2>2, SeqSteps DEF OwnAnswers
  <2> QED
    BY <2>1, <2>2, <2>3 DEF OwnAnswers, Replies
<1>7. CASE Handle \/ Request \/ Program
  <2>1. CASE UNCHANGED <<call, done, sure>>
    BY <1>7, <2>1, HandlerCalls DEF OwnAnswers, Replies, call, line, mcu
  <2>2. CASE \E c \in Commands : Call(c)
    <3>1. wire = <<>> /\ out = <<>> /\ pc' = "send"
      BY <2>2 DEF Call
    <3> QED
      BY <1>7, <3>1, HandlerCalls, NothingYet DEF line
  <2> QED
    BY <1>7, <2>1, <2>2, HandlerCalls
<1>8. CASE UNCHANGED vars
  BY <1>8 DEF vars, call, line, mcu, OwnAnswers, Replies
<1> QED
  BY <1>1, <1>2, <1>3, <1>4, <1>5, <1>6, <1>7, <1>8 DEF Next, Exchange

LEMMA ObeyedStep == IInv /\ OwnAnswers /\ Obeyed /\ [Next]_vars => Obeyed'
<1> SUFFICES ASSUME IInv, OwnAnswers, Obeyed, [Next]_vars, sure' = 1
             PROVE  /\ pc' = "ok" => done' = 1
                    /\ done' = 1 /\ cmd'.op = "write" => alarm'[cmd'.f] = cmd'.v
                    /\ done' = 1 /\ cmd'.op = "arm" => armed' = cmd'.v
  BY DEF Obeyed
<1>0. CallType /\ LineType /\ McuType /\ OwnLine
  BY DEF IInv, TypeOK
<1>1. CASE Send
  BY <1>1 DEF Send, mcu, Obeyed
<1>2. CASE SendError \/ Timeout
  <2>1. Failed /\ UNCHANGED <<cmd, mcu, done, sure>>
    BY <1>2 DEF SendError, Timeout
  <2> QED
    BY <1>0, <2>1, FailedType DEF mcu, Obeyed
<1>3. CASE Receive
  <2>1. Calling /\ pc # "send" /\ port # <<>> /\ UNCHANGED <<cmd, mcu, done, sure>>
    BY <1>3 DEF Receive, Calling
  <2>2. done = 1
    BY <1>0, <2>1 DEF OwnLine, CallType
  <2> QED
    BY <2>1, <2>2 DEF mcu, Obeyed
<1>4. CASE Serve
  <2>1. /\ wire # <<>> /\ wire \in Seq({cmd}) /\ UNCHANGED <<call, sure>>
        /\ done' \in {1, done}
    BY <1>4 DEF Serve, call, OwnAnswers
  <2>2. Head(wire) = cmd /\ cmd \in Commands
    BY <1>0, <2>1, HeadTail DEF LineType
  <2>3. /\ alarm' = IF cmd.op = "write" THEN [alarm EXCEPT ![cmd.f] = cmd.v] ELSE alarm
        /\ armed' = IF cmd.op = "arm" THEN cmd.v ELSE armed
    BY <1>4, <2>2 DEF Serve
  <2>4. cmd.op = "write" => cmd.f \in 1..Fields
    BY <2>2 DEF Commands
  <2> QED
    BY <1>0, <2>1, <2>3, <2>4 DEF McuType, call, Obeyed
<1>5. CASE Arrive
  BY <1>5 DEF Arrive, call, mcu, Obeyed
<1>6. CASE Handle \/ Request \/ Program
  <2>1. CASE UNCHANGED <<call, done, sure>>
    BY <1>6, <2>1, HandlerCalls DEF Obeyed, call, mcu
  <2>2. CASE \E c \in Commands : Call(c)
    BY <2>2 DEF Call
  <2> QED
    BY <1>6, <2>1, <2>2, HandlerCalls
<1>7. CASE UNCHANGED vars
  BY <1>7 DEF vars, call, mcu, Obeyed
<1> QED
  BY <1>1, <1>2, <1>3, <1>4, <1>5, <1>6, <1>7 DEF Next, Exchange

(* A failed attempt that was paid for leaves the rest as it was.           *)
LEMMA FailedPaid ==
    ASSUME CallType, EnvType, left' \in Nat, left' <= left, left <= MaxMishaps, Failed,
           Mishaps' >= try
    PROVE  /\ pc' # "ack" /\ pc' # "value" /\ left' <= MaxMishaps
           /\ pc' = "send" => Mishaps' >= try' - 1
           /\ pc' = "err" => Mishaps' > Retries
BY McuAssumption DEF CallType, EnvType, Failed, Mishaps

LEMMA Spending ==
    ASSUME NEW n \in Nat, NEW a \in Nat, NEW b \in Nat, a <= n, b <= a
    PROVE  n - a \in Nat /\ n - b \in Nat /\ n - b >= n - a
OBVIOUS

LEMMA PaidStep == IInv /\ OwnAnswers /\ Paid /\ [Next]_vars => Paid'
<1> SUFFICES ASSUME IInv, OwnAnswers, Paid, [Next]_vars PROVE Paid'
  OBVIOUS
<1>0. CallType /\ LineType /\ EnvType /\ left' \in Nat /\ MaxMishaps \in Nat
      /\ Retries \in Nat /\ try \in Nat
  <2>1. EnvType'
    BY NextIInv DEF IInv, TypeOK
  <2> QED
    BY <2>1, McuAssumption DEF IInv, TypeOK, EnvType, CallType
<1>m. left' <= left /\ left' <= MaxMishaps /\ (Mishap => left' = left - 1)
  <2>1. CASE Handle \/ Request \/ Program
    BY <1>0, <2>1, HandlerCalls DEF Paid, EnvType, Mishap
  <2> QED
    BY <1>0, <2>1 DEF Next, Exchange, Send, SendError, Receive, Timeout, Serve, Arrive,
          vars, env, Mishap, Fine, Paid, EnvType
<1>k. /\ Mishaps \in Nat /\ Mishaps' \in Nat /\ Mishaps' >= Mishaps
      /\ Mishap => Mishaps' = Mishaps + 1
      /\ Fine => Mishaps' = Mishaps
  <2>1. left \in Nat /\ left <= MaxMishaps
    BY <1>0 DEF Paid, EnvType
  <2>2. Fine => left' = left
    BY DEF Fine, env
  <2>3. Mishaps = MaxMishaps - left /\ Mishaps' = MaxMishaps - left'
    BY DEF Mishaps
  <2>4. Mishaps \in Nat /\ Mishaps' \in Nat /\ Mishaps' >= Mishaps
    BY <1>0, <1>m, <2>1, <2>3, Spending
  <2>5. Mishap => Mishaps' = Mishaps + 1
    BY <1>0, <1>m, <2>1, <2>3
  <2> QED
    BY <2>2, <2>3, <2>4, <2>5
<1>1. CASE Send
  <2>1. /\ pc = "send" /\ port' = <<>> /\ UNCHANGED <<cmd, try, out, sure>>
        /\ pc' = IF cmd.op = "read" THEN "value" ELSE "ack"
        /\ wire' = Append(wire, cmd) \/ Mishap
    BY <1>1 DEF Send, ClearSerialPort
  <2>2. wire' = Append(wire, cmd) => wire' # <<>>
    BY <1>0, <2>1, SeqSteps DEF CallType, LineType, Calling
  <2>3. port' \in Seq({Ack})
    BY <2>1, NothingYet
  <2> QED
    BY <1>0, <1>k, <1>m, <2>1, <2>2, <2>3 DEF Paid, Calling
<1>2. CASE SendError
  <2>1. pc = "send" /\ Mishap /\ Failed /\ UNCHANGED <<cmd, sure>>
    BY <1>2 DEF SendError
  <2>2. ASSUME sure = 1, cmd.op # "read" PROVE Mishaps' >= try
    BY <1>0, <1>k, <2>1, <2>2 DEF Paid, Calling
  <2>3. pc' \in {"send", "err"}
    BY <1>0, <2>1, FailedType
  <2>4. ASSUME sure = 1, cmd.op # "read"
        PROVE (pc' = "send" => Mishaps' >= try' - 1) /\ (pc' = "err" => Mishaps' > Retries)
    BY <1>0, <1>m, <2>1, <2>2, <2>4, FailedPaid DEF Paid
  <2> QED
    BY <1>m, <2>1, <2>3, <2>4 DEF Paid, Calling
<1>3. CASE Timeout
  <2>1. /\ pc \in {"value", "ack"} /\ port = <<>> /\ Failed /\ UNCHANGED <<cmd, sure>>
        /\ IF wire = <<>> /\ out = <<>> THEN Fine ELSE Mishap
    BY <1>3 DEF Timeout
  <2>2. ASSUME sure = 1, cmd.op # "read" PROVE Mishaps' >= try
    <3>1. pc = "ack" /\ Calling
      BY <2>1, <2>2 DEF Paid, Calling
    <3>2. CASE Mishap
      BY <1>0, <1>k, <2>2, <3>1, <3>2 DEF Paid
    <3>3. CASE wire = <<>> /\ out = <<>>
      BY <1>0, <1>k, <2>1, <2>2, <3>1, <3>3 DEF Paid
    <3> QED
      BY <2>1, <3>2, <3>3
  <2>3. pc' \in {"send", "err"}
    BY <1>0, <2>1, FailedType
  <2>4. ASSUME sure = 1, cmd.op # "read"
        PROVE (pc' = "send" => Mishaps' >= try' - 1) /\ (pc' = "err" => Mishaps' > Retries)
    BY <1>0, <1>m, <2>1, <2>2, <2>4, FailedPaid DEF Paid
  <2> QED
    BY <1>m, <2>1, <2>3, <2>4 DEF Paid, Calling
<1>4. CASE Receive
  <2>1. /\ pc \in {"value", "ack"} /\ port # <<>> /\ UNCHANGED <<cmd, sure, env>>
        /\ \/ /\ CheckResponse(Head(port)) /\ UNCHANGED try
              /\ pc' = IF pc = "value" THEN "ack" ELSE "ok"
           \/ ~CheckResponse(Head(port)) /\ Failed
    BY <1>4 DEF Receive
  <2>2. CASE cmd.op = "read"
    BY <1>0, <1>m, <2>1, <2>2, FailedType DEF Paid
  <2>3. CASE cmd.op # "read" /\ CheckResponse(Head(port))
    <3>1. pc' = "ok"
      BY <2>1, <2>3, FailedType, <1>0 DEF Paid
    <3> QED
      BY <1>m, <3>1 DEF Paid, Calling
  <2>4. CASE cmd.op # "read" /\ ~CheckResponse(Head(port))
    <3>1. pc = "ack" /\ Failed
      BY <2>1, <2>4 DEF Paid
    <3>2. port \notin Seq({Ack})
      <4>1. Head(port) # Ack
        BY <2>4, <3>1, PacketsDiffer DEF CheckResponse
      <4> QED
        BY <2>1, <4>1, HeadTail
    <3>3. ASSUME sure = 1 PROVE Mishaps' >= try
      BY <1>0, <1>k, <2>1, <2>4, <3>1, <3>2, <3>3 DEF Paid
    <3>4. pc' \in {"send", "err"}
      BY <1>0, <3>1, FailedType
    <3>5. ASSUME sure = 1
          PROVE (pc' = "send" => Mishaps' >= try' - 1) /\ (pc' = "err" => Mishaps' > Retries)
      BY <1>0, <1>m, <3>1, <3>3, <3>5, FailedPaid DEF Paid
    <3> QED
      BY <1>m, <2>1, <2>4, <3>4, <3>5 DEF Paid, Calling
  <2> QED
    BY <2>2, <2>3, <2>4
<1>5. CASE Serve
  <2>1. UNCHANGED <<pc, cmd, try, port, sure, left>>
    BY <1>5 DEF Serve, call, env
  <2>2. out' # <<>>
    <3>1. wire # <<>> /\ Head(wire) \in Commands
      BY <1>0, <1>5, HeadTail DEF Serve, LineType
    <3>2. out' = Append(out, Ack) \/ \E e : out' = out \o <<e, Ack>>
      BY <1>5 DEF Serve
    <3> QED
      BY <1>0, <3>2, SeqSteps, NonEmpty, PacketType DEF LineType
  <2> QED
    BY <2>1, <2>2 DEF Paid, Calling, Mishaps
<1>6. CASE Arrive
  <2>1. /\ out # <<>> /\ UNCHANGED <<pc, cmd, try, wire, sure>>
        /\ \/ port' = Append(port, Head(out)) /\ Fine
           \/ port' \in {port, Append(port, Junk)} /\ Mishap
    BY <1>6 DEF Arrive, call
  <2>2. CASE Mishap
    BY <1>0, <1>k, <1>m, <2>1, <2>2 DEF Paid, Calling
  <2>3. CASE Fine /\ port' = Append(port, Head(out))
    <3>1. Head(out) \in Packets /\ port' # <<>> /\ left' = left
      BY <1>0, <2>1, <2>3, HeadTail, SeqSteps DEF LineType, Fine, env
    <3>2. sure = 1 /\ cmd.op # "read" => Head(out) = Ack
      BY <2>1, HeadTail DEF OwnAnswers, Replies
    <3>3. sure = 1 /\ cmd.op # "read" /\ port \in Seq({Ack}) => port' \in Seq({Ack})
      BY <2>3, <3>2, SeqSteps
    <3> QED
      BY <2>1, <3>1, <3>3 DEF Paid, Calling, Mishaps
  <2> QED
    BY <2>1, <2>2, <2>3
<1>7. CASE Handle \/ Request \/ Program
  <2>1. CASE UNCHANGED <<call, done, sure>>
    BY <1>7, <2>1, HandlerCalls DEF Paid, Calling, Mishaps, call, line
  <2>2. CASE \E c \in Commands : Call(c)
    <3>1. pc' = "send" /\ try' = 1
      BY <2>2 DEF Call
    <3> QED
      BY <1>k, <1>m, <3>1 DEF Paid
  <2> QED
    BY <1>7, <2>1, <2>2, HandlerCalls
<1>8. CASE UNCHANGED vars
  BY <1>8 DEF vars, call, line, env, Paid, Calling, Mishaps
<1> QED
  BY <1>1, <1>2, <1>3, <1>4, <1>5, <1>6, <1>7, <1>8 DEF Next, Exchange

(* nRetries: as many mishaps as there are retries never fail a command     *)
(* that only wants an acknowledgement and found the line quiet.            *)
THEOREM RetriesSuffice == Spec => []RetriesMask
<1> DEFINE RInv == IInv /\ OwnAnswers /\ Paid
<1>1. Init => RInv
  BY InitIInv, McuAssumption DEF Init, OwnAnswers, Paid, Calling
<1>2. RInv /\ [Next]_vars => RInv'
  BY NextIInv, AnswersStep, PaidStep
<1>3. RInv => RetriesMask
  BY DEF Paid, Mishaps, RetriesMask
<1> QED
  BY <1>1, <1>2, <1>3, PTL DEF Spec

(* What a call is, for the handlers.                                       *)
LEMMA Called ==
    ASSUME NEW c, Call(c)
    PROVE  /\ cmd' = c /\ pc' = "send" /\ done' = 0
           /\ sure' = 1 => job = "none" \/ sure = 1
BY DEF Call

LEMMA CommandParts ==
    /\ \A f : Write(f).op = "write" /\ Write(f).f = f /\ Write(f).v = want'[f]
    /\ \A f : Read(f).op = "read" /\ Read(f).f = f
    /\ \A v : Arm(v).op = "arm" /\ Arm(v).v = v /\ Led(v).op = "led"
BY DEF Write, Read, Arm, Led, Command

LEMMA ScriptStep == IInv /\ Paid /\ Script /\ [Next]_vars => Script'
<1> SUFFICES ASSUME IInv, Paid, Script, [Next]_vars PROVE Script'
  OBVIOUS
<1> USE DEF Script
<1>1. CASE Send \/ SendError \/ Timeout \/ Serve \/ Arrive \/ Program \/ UNCHANGED vars
  <2>1. UNCHANGED <<cmd, handler>>
    BY <1>1 DEF Send, SendError, Timeout, Serve, Arrive, Program, vars, call
  <2> QED
    BY <2>1 DEF handler
<1>2. CASE Receive
  <2>1. UNCHANGED <<cmd, job, want, told>> /\ (pc = "value" \/ got' = got)
    BY <1>2 DEF Receive
  <2> QED
    BY <2>1 DEF Paid
<1>3. CASE Request
  BY <1>3, Called, CommandParts
     DEF Request, WriteAlarm, ReadAlarm, SimpleCmd, SimpleCmd2, ClientLed
<1>4. CASE WriteNext
  BY <1>4, Called, CommandParts DEF WriteNext
<1>5. CASE ReadNext
  BY <1>5, Called, CommandParts DEF ReadNext, ArmRead
<1>6. CASE Armed \/ Simple
  BY <1>6 DEF Armed, Simple, Reply, call
<1>7. CASE GiveUp \/ SetPowerLed
  BY <1>7 DEF GiveUp, SetPowerLed, Reply, call
<1>8. CASE ReadsetPowerLed
  BY <1>8, Called, CommandParts DEF ReadsetPowerLed, call
<1> QED
  BY <1>1, <1>2, <1>3, <1>4, <1>5, <1>6, <1>7, <1>8 DEF Next, Exchange, Handle

(* Two alarms that agree in every register are the same.                   *)
LEMMA SameAlarm ==
    ASSUME NEW a \in [1..Fields -> Nat], NEW b \in [1..Fields -> Nat],
           \A f \in 1..Fields : a[f] = b[f]
    PROVE  a = b
<1>1. a = [f \in 1..Fields |-> a[f]] /\ b = [f \in 1..Fields |-> b[f]]
  OBVIOUS
<1> QED
  BY <1>1, Zenon

LEMMA LineProgress ==
    Told /\ IInv /\ (Exchange \/ Serve \/ Arrive \/ Program \/ UNCHANGED vars)
        => Progress' /\ AlarmTold'
<1> SUFFICES ASSUME Told, IInv, Exchange \/ Serve \/ Arrive \/ Program \/ UNCHANGED vars
             PROVE  Progress' /\ AlarmTold'
  OBVIOUS
<1>0. /\ CallType /\ LineType /\ McuType /\ HandlerType
      /\ OwnAnswers /\ Obeyed /\ Paid /\ Script /\ Progress /\ AlarmTold
  BY DEF IInv, TypeOK, Told
<1>1. CASE Send \/ SendError \/ Timeout
  <2>1. Calling /\ UNCHANGED <<cmd, mcu, handler, sure>>
    BY <1>1 DEF Send, SendError, Timeout, Calling
  <2>2. cmd.op = "read" => pc' \notin {"ack", "ok"}
    <3>1. CASE Send
      BY <3>1 DEF Send
    <3>2. CASE SendError \/ Timeout
      BY <1>0, <3>2, FailedType DEF SendError, Timeout
    <3> QED
      BY <1>1, <3>1, <3>2
  <2> QED
    BY <1>0, <2>1, <2>2 DEF HandlerType, handler, mcu, Progress, AlarmTold
<1>2. CASE Arrive \/ Program \/ UNCHANGED vars
  <2>1. UNCHANGED <<call, mcu, handler, sure>>
    BY <1>2 DEF Arrive, Program, vars
  <2> QED
    BY <1>0, <2>1 DEF call, handler, mcu, Progress, AlarmTold
<1>3. CASE Receive
  <2>1. /\ Calling /\ job # "none" /\ UNCHANGED <<cmd, mcu, job, want, told, sure>>
    BY <1>0, <1>3 DEF Receive, Calling, HandlerType
  <2>2. CASE pc = "value" /\ pc' = "ack"
    <3>1. /\ port # <<>> /\ CheckResponse(Head(port)) /\ cmd.op = "read"
          /\ got' = [got EXCEPT ![cmd.f] = Head(port).v]
      BY <1>0, <1>3, <2>2, FailedType DEF Receive, Paid
    <3>2. cmd.f \in 1..Fields
      BY <1>0, <2>1, <3>1 DEF CallType, Commands
    <3>3. sure = 1 => Head(port).v = alarm[cmd.f]
      <4>1. sure = 1 => Head(port) \in Replies \cup {Junk}
        BY <1>0, <2>2, <3>1, HeadTail DEF OwnAnswers
      <4> QED
        BY <2>2, <3>1, <4>1, PacketsDiffer DEF Replies, CheckResponse
    <3>4. sure = 1 => got'[cmd.f] = alarm[cmd.f]
      BY <1>0, <3>1, <3>2, <3>3 DEF HandlerType
    <3>5. \A f \in 1..Fields : f < cmd.f => got'[f] = got[f]
      BY <1>0, <3>1, <3>2 DEF HandlerType
    <3>6. job \notin {"write", "arm"}
      BY <1>0, <3>1 DEF Script
    <3>7. AlarmTold'
      BY <2>1 DEF AlarmTold
    <3> QED
      BY <1>0, <2>1, <2>2, <3>1, <3>4, <3>5, <3>6, <3>7 DEF mcu, Progress
  <2>3. CASE pc = "ack" /\ pc' = "ok"
    <3>1. got' = got
      BY <1>0, <1>3, <2>3 DEF Receive
    <3> QED
      BY <1>0, <2>1, <2>3, <3>1 DEF mcu, Progress, AlarmTold
  <2>4. CASE ~(pc = "value" /\ pc' = "ack") /\ ~(pc = "ack" /\ pc' = "ok")
    <3>1. Failed /\ got' = got
      BY <1>3, <2>4 DEF Receive
    <3>2. pc' \in {"send", "err"}
      BY <1>0, <3>1, FailedType
    <3> QED
      BY <1>0, <2>1, <3>1, <3>2 DEF mcu, Progress, AlarmTold
  <2> QED
    BY <2>2, <2>3, <2>4
<1>4. CASE Serve
  <2> SUFFICES ASSUME sure' = 1 PROVE Progress' /\ AlarmTold'
    BY DEF Progress, AlarmTold
  <2>1. /\ wire # <<>> /\ wire \in Seq({cmd}) /\ UNCHANGED <<call, handler, sure>>
    BY <1>0, <1>4 DEF Serve, OwnAnswers
  <2>2. Head(wire) = cmd /\ cmd \in Commands
    BY <1>0, <2>1, HeadTail DEF LineType
  <2>3. /\ alarm' = IF cmd.op = "write" THEN [alarm EXCEPT ![cmd.f] = cmd.v] ELSE alarm
        /\ armed' = IF cmd.op = "arm" THEN cmd.v ELSE armed
    BY <1>4, <2>2 DEF Serve
  <2>4. CASE cmd.op = "write"
    <3>1. cmd.f \in 1..Fields /\ \A f \in 1..Fields : f < cmd.f => alarm'[f] = alarm[f]
      BY <1>0, <2>2, <2>3, <2>4 DEF Commands, McuType
    <3>2. job \notin {"read", "plus", "arm"}
      BY <1>0, <2>4 DEF Script
    <3> QED
      BY <1>0, <2>1, <2>4, <3>1, <3>2 DEF call, handler, Progress, AlarmTold
  <2>5. CASE cmd.op # "write"
    <3>1. alarm' = alarm /\ (cmd.op = "arm" => armed' = cmd.v)
      BY <2>3, <2>5
    <3> QED
      BY <1>0, <2>1, <3>1 DEF call, handler, Progress, AlarmTold, Script
  <2> QED
    BY <2>4, <2>5
<1> QED
  BY <1>1, <1>2, <1>3, <1>4 DEF Exchange

LEMMA HandlerProgress ==
    Told /\ IInv /\ (Handle \/ Request) => Progress' /\ AlarmTold'
<1> SUFFICES ASSUME Told, IInv, Handle \/ Request, sure' = 1 PROVE Progress' /\ AlarmTold'
  BY DEF Progress, AlarmTold
<1>0. /\ CallType /\ McuType /\ HandlerType
      /\ Obeyed /\ Script /\ Progress /\ AlarmTold
  BY DEF IInv, TypeOK, Told
<1>f. cmd.op \in {"read", "write"} => cmd.f \in 1..Fields
  BY <1>0 DEF CallType, Commands, NoCommand, Command
<1>n. Fields \in Nat \ {0}
  BY McuAssumption
<1>1. CASE Request
  <2>1. /\ job' \in {"write", "read", "plus", "simple", "led"} /\ pc' = "send"
        /\ job' \in {"write", "read", "plus"} => cmd'.f = 1
        /\ job' # "write" => want' = NoAlarm
    BY <1>1, Called, CommandParts
       DEF Request, WriteAlarm, ReadAlarm, SimpleCmd, SimpleCmd2, ClientLed
  <2> QED
    BY <2>1 DEF Progress, AlarmTold
<1>2. CASE WriteNext
  <2>1. /\ job = "write" /\ pc = "ok" /\ UNCHANGED <<want, mcu>>
        /\ IF cmd.f < Fields THEN Call(Write(cmd.f + 1)) /\ job' = job
           ELSE job' = "read" /\ Call(Read(1))
    BY <1>2 DEF WriteNext
  <2>2. sure = 1 /\ pc' = "send"
    BY <2>1, Called
  <2>3. \A f \in 1..Fields : f <= cmd.f => alarm[f] = want[f]
    BY <1>0, <1>f, <2>1, <2>2 DEF Obeyed, Script, Progress
  <2>4. CASE cmd.f < Fields
    <3>1. job' = "write" /\ cmd'.f = cmd.f + 1
      BY <2>1, <2>4, Called, CommandParts
    <3> QED
      BY <1>0, <1>f, <2>1, <2>2, <2>3, <3>1 DEF mcu, Progress, AlarmTold, Script
  <2>5. CASE ~(cmd.f < Fields)
    <3>1. job' = "read" /\ cmd'.f = 1
      BY <2>1, <2>5, Called, CommandParts
    <3>2. alarm = want
      BY <1>0, <1>f, <1>n, <2>1, <2>3, <2>5, SameAlarm DEF McuType, HandlerType, Script
    <3> QED
      BY <2>1, <2>2, <3>1, <3>2 DEF mcu, Progress, AlarmTold
  <2> QED
    BY <2>4, <2>5
<1>3. CASE ReadNext
  <2>1. /\ job \in {"read", "plus"} /\ pc = "ok" /\ cmd.op = "read" /\ UNCHANGED <<got, mcu>>
        /\ IF cmd.f < Fields THEN Call(Read(cmd.f + 1)) /\ UNCHANGED <<job, want>>
           ELSE IF job = "read" THEN job' = "arm" /\ Call(ArmRead) /\ UNCHANGED want
           ELSE job' = "write" /\ Call(Write(1))
    BY <1>3 DEF ReadNext
  <2>2. sure = 1 /\ pc' = "send"
    BY <2>1, Called
  <2>3. \A f \in 1..Fields : f <= cmd.f => got[f] = alarm[f]
    BY <1>0, <1>f, <2>1, <2>2 DEF Progress
  <2>4. CASE cmd.f < Fields
    <3>1. cmd'.f = cmd.f + 1 /\ job' = job /\ want' = want
      BY <2>1, <2>4, Called, CommandParts
    <3> QED
      BY <1>0, <1>f, <2>1, <2>2, <2>3, <3>1 DEF mcu, Progress, AlarmTold
  <2>5. CASE ~(cmd.f < Fields) /\ job = "read"
    <3>1. job' = "arm" /\ want' = want
      BY <2>1, <2>5
    <3>2. got = alarm
      BY <1>0, <1>f, <1>n, <2>1, <2>3, <2>5, SameAlarm DEF McuType, HandlerType
    <3> QED
      BY <1>0, <2>1, <2>2, <2>5, <3>1, <3>2 DEF mcu, Progress, AlarmTold
  <2>6. CASE ~(cmd.f < Fields) /\ job # "read"
    <3>1. job' = "write" /\ cmd'.f = 1
      BY <2>1, <2>6, Called, CommandParts
    <3> QED
      BY <2>2, <3>1 DEF Progress, AlarmTold
  <2> QED
    BY <2>4, <2>5, <2>6
<1>4. CASE Armed
  <2>1. /\ job = "arm" /\ job' = "none" /\ told' = (IF got = Off THEN "disabled" ELSE "set")
        /\ UNCHANGED <<call, want, got, mcu, done, sure>>
    BY <1>4 DEF Armed, Reply
  <2>2. cmd.op = "arm" /\ cmd.v = (IF got = Off THEN 0 ELSE 1) /\ got = alarm
    BY <1>0, <2>1 DEF Script, Progress
  <2>3. pc = "ok" => armed = cmd.v
    BY <1>0, <2>1, <2>2 DEF Obeyed
  <2> QED
    BY <1>0, <2>1, <2>2, <2>3 DEF call, mcu, Progress, AlarmTold
<1>5. CASE Simple
  <2>1. /\ job = "simple" /\ pc = "ok" /\ job' = "none" /\ told' = "OK"
        /\ UNCHANGED <<call, got, mcu, sure>>
    BY <1>5 DEF Simple, Reply
  <2> QED
    BY <1>0, <2>1 DEF call, mcu, Progress, AlarmTold
<1>6. CASE GiveUp \/ SetPowerLed
  <2>1. job' = "none" /\ UNCHANGED cmd /\ (told' = "ERR" \/ cmd.op = "led")
    BY <1>0, <1>6 DEF GiveUp, SetPowerLed, Reply, call, Script
  <2> QED
    BY <2>1 DEF Progress, AlarmTold
<1>7. CASE ReadsetPowerLed
  <2>1. UNCHANGED <<mcu, want, got, told>>
    BY <1>7 DEF ReadsetPowerLed
  <2>2. CASE UNCHANGED <<call, job, done, sure>>
    BY <1>0, <2>1, <2>2 DEF call, mcu, Progress, AlarmTold
  <2>3. CASE job' = "poll"
    BY <2>3 DEF Progress, AlarmTold
  <2> QED
    BY <1>7, <2>2, <2>3 DEF ReadsetPowerLed
<1> QED
  BY <1>1, <1>2, <1>3, <1>4, <1>5, <1>6, <1>7 DEF Handle

(* What WriteAlarm and ReadAlarm tell the user is what the MCU holds, of   *)
(* the alarm asked for, and it is armed if its last command was answered.  *)
THEOREM AlarmKnown == Spec => []AlarmTold
<1>1. Init => IInv /\ Told
  BY InitIInv, McuAssumption
     DEF Init, Told, OwnAnswers, Obeyed, Paid, Script, Progress, AlarmTold, Calling,
         NoCommand, Command
<1>2. IInv /\ Told /\ [Next]_vars => IInv' /\ Told'
  <2> SUFFICES ASSUME IInv, Told, [Next]_vars PROVE IInv' /\ Told'
    OBVIOUS
  <2>1. IInv' /\ OwnAnswers' /\ Obeyed' /\ Paid' /\ Script'
    BY NextIInv, AnswersStep, ObeyedStep, PaidStep, ScriptStep DEF Told
  <2>2. Progress' /\ AlarmTold'
    BY LineProgress, HandlerProgress DEF Next
  <2> QED
    BY <2>1, <2>2 DEF Told
<1>3. Told => AlarmTold
  BY DEF Told
<1> QED
  BY <1>1, <1>2, <1>3, PTL DEF Spec
=============================================================================
