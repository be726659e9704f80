------------------------------- MODULE GatewayMC -------------------------------
(* Two pages, or a page and a shell, that start runs of one task.               *)
EXTENDS Gateway, TLC

CONSTANTS page, shell

MCStarters == {page, shell}
MCSymmetry == Permutations(MCStarters)
==============================================================================
