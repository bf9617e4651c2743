---------------------------- MODULE MCDashboard ----------------------------
(***************************************************************************)
(* Small instances of WebSession and Workday for TLC.  The two have no     *)
(* variable in common, so their properties do not depend on how their      *)
(* steps interleave: one run checks both, each while the other rests in    *)
(* its initial state.                                                      *)
(***************************************************************************)
EXTENDS WebSession, Workday, TLC

Symmetry == Permutations(Tab)

SessionStep == WorkdayInit /\ Next /\ UNCHANGED workdayVars

PanelStep == Init /\ WorkdayNext /\ UNCHANGED vars

DashboardInit == Init /\ WorkdayInit

DashboardSpec == DashboardInit /\ [][SessionStep \/ PanelStep]_<<vars, workdayVars>>
=============================================================================
