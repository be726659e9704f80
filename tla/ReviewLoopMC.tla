----------------------------- MODULE ReviewLoopMC -----------------------------
(* Two things to find fault with, one of them blocking.                       *)
EXTENDS ReviewLoop, TLC

CONSTANTS gap, wording

MCPoints == {gap, wording}
MCBlocking == {gap}
MCFilings == {<<>>, <<wording>>, <<gap>>}
==============================================================================
