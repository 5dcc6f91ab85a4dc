---------------------------- MODULE MCMcuDaemon ----------------------------
(* Instances of McuDaemon: two alarm registers, two alarms.              *)
EXTENDS McuDaemon

SomeAlarms == {Off, <<1, 2>>}
=============================================================================
