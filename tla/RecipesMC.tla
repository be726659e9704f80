------------------------------- MODULE RecipesMC -------------------------------
(* A specification with two properties: one can fail at first, both after the first fix, and what comes
   to the last verification leaves it with a failure. *)
EXTENDS Recipes, TLC

CONSTANTS sorted, stable

MCProps == {sorted, stable}
MCMayFail == <<{{}, {sorted}}, {{}, MCProps}, {{sorted}}>>
==============================================================================
