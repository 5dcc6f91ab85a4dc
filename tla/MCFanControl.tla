---------------------------- MODULE MCFanControl ----------------------------
(* The instance of FanControl: every kind of mishap.                        *)
EXTENDS FanControl

All == Kinds
=============================================================================
