-------------------------------- MODULE Debate --------------------------------
(***************************************************************************)
(* The program of the debate (recipes/debate/recipe.py): hypotheses under  *)
(* review, a rubric a person confirms, a case for and a case against       *)
(* written side by side, a rebuttal, a judge, and a person's ruling when   *)
(* the judge could not decide.                                             *)
(***************************************************************************)
EXTENDS Recipe

HypothesesLine ==
  <<<<"store", "brief">>, <<"store", "hypotheses">>, <<"loop", "hypotheses">>, <<"gate", "rubric", 1>>>>

CaseSteps == {[key |-> <<"case", s>>, after |-> {<<"gate", "rubric", 1>>}] : s \in Sides}

JudgmentLine == <<<<"judge">>, <<"gate", "verdict", 1>>, <<"report">>>>

RebuttalStep == [key |-> <<"store", "rebuttal">>, after |-> {<<"case", s>> : s \in Sides}]

JudgmentSteps ==
  {[s EXCEPT !.after = IF s.key = <<"judge">> THEN {<<"store", "rebuttal">>} ELSE @] :
     s \in LineSteps(JudgmentLine)}

DebateSteps ==
  LineSteps(HypothesesLine)
    \union If(Through(HypothesesLine), CaseSteps
         \union If(\A s \in Sides : case[s] > 0, {RebuttalStep}
              \union If(version["rebuttal"], JudgmentSteps)))
==============================================================================
