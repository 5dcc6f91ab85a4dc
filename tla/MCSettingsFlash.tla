-------------------------- MODULE MCSettingsFlash --------------------------
EXTENDS SettingsFlash

(* Settings that grow with time, to as much as the flash holds.            *)
Growing == [v \in 0..3 |-> IF v = 3 THEN 4 ELSE 1]
=============================================================================
