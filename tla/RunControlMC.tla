----------------------------- MODULE RunControlMC -----------------------------
(* Runner processes over the life of one run.                                *)
EXTENDS RunControl, TLC

CONSTANTS r1, r2, r3

MCThree == {r1, r2, r3}
MCTwo == {r1, r2}

MCOrderly == {}
MCRough == {"race", "suspend", "latebeat", "delete"}
==============================================================================
