-------------------------------- MODULE GateMC --------------------------------
(* A gate for a person that asks twice, a gate left to code, two tabs of the page. *)
EXTENDS Gate, TLC

CONSTANTS ledger, tolerances, left, right

MCGates == {ledger, tolerances}
MCQuestions == [g \in MCGates |-> IF g = ledger THEN 2 ELSE 1]
MCHuman == {ledger}
MCTabs == {left, right}
==============================================================================
