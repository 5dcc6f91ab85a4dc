----------------------------- MODULE McuService -----------------------------
(***************************************************************************)
(* What SendCommand() of dns320l-daemon.c promises its callers, whatever   *)
(* the serial line does: a call that finds the line quiet reports success  *)
(* only after the microcontroller has carried its command out.             *)
(***************************************************************************)
EXTENDS Integers

CONSTANTS Commands, NoCommand


VARIABLES
    call,    \* the command asked for, NoCommand between two calls
    did,     \* 1 once the MCU has carried it out during this call
    quiet,   \* 1 if nothing of an earlier call was under way when it began
    answer   \* how the last call ended, "none" during one

svars == <<call, did, quiet, answer>>

SInit == call = NoCommand /\ did = 0 /\ quiet = 0 /\ answer \in {"OK", "ERR"}

Ask ==
    /\ call = NoCommand
    /\ call' \in Commands
    /\ did' = 0
    /\ quiet' \in {0, 1}
    /\ answer' = "none"

CarryOut == call # NoCommand /\ did' = 1 /\ UNCHANGED <<call, quiet, answer>>

Answer ==
    /\ call # NoCommand
    /\ call' = NoCommand
    /\ answer' \in {"OK", "ERR"}
    /\ answer' = "OK" /\ quiet = 1 => did = 1
    /\ UNCHANGED <<did, quiet>>

SSpec == SInit /\ [][Ask \/ CarryOut \/ Answer]_svars
=============================================================================
