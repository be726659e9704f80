------------------------------ MODULE DashboardMC ------------------------------
(* A run of two stages, the first with two gates.                               *)
EXTENDS Dashboard

MCSteps == 1..3
MCStages == 1..2
MCStageOf == <<1, 1, 2>>
==============================================================================
