---------------------------- MODULE MCPanelLeds -----------------------------
(* Instances of PanelLeds: the configurations of the button options, and a  *)
(* user who lets go of every button and goes away.                          *)
EXTENDS PanelLeds

NoneSet == [recovery |-> FALSE, back |-> FALSE, front1 |-> FALSE, front2 |-> FALSE]
AllSet == [recovery |-> TRUE, back |-> TRUE, front1 |-> TRUE, front2 |-> TRUE]
Factory == [NoneSet EXCEPT !.recovery = TRUE]

NoCommands == {NoneSet}
TwoConfigs == {AllSet, Factory}

QuietSpec == PFairSpec /\ \A b \in Buttons : WF_pvars(Release(b) /\ Other)
=============================================================================
