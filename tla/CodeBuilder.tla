------------------------------ MODULE CodeBuilder ------------------------------
(***************************************************************************)
(* The program of the code builder (recipes/code_builder/recipe.py): which *)
(* steps the files of a run call for.  A design line up to the tasks, the  *)
(* tests and the source written side by side, a verification, and cycles   *)
(* of triage: each failing property is ruled on by the side that did not   *)
(* write the failing thing, what the rulings name is fixed, and the        *)
(* verification runs again, FixRounds times at most.                       *)
(*                                                                         *)
(* A definition marked (mutant) is used by no specification: it is a       *)
(* plausible mistake in the definition below it, which a property must     *)
(* refuse.                                                                 *)
(***************************************************************************)
EXTENDS Recipe

\* The gate on the blocks: sent back, the contract is revised and the gate asks again.
SentBack == {r \in 1..MaxRevise : Answer(<<"blocks", r>>) = "revise"}

BlocksLine ==
  [i \in 1..(2 * Cardinality(SentBack) + 1) |->
     IF i % 2 = 1 THEN <<"gate", "blocks", (i + 1) \div 2>> ELSE <<"revise", i \div 2>>]

OpeningLine ==
  <<<<"store", "brief">>, <<"store", "ledger">>, <<"gate", "ledger", 1>>, <<"store", "plan">>,
    <<"loop", "plan">>, <<"store", "contract">>, <<"loop", "contract">>, <<"loop", "audit">>>>

\* While a tolerance is open a person sets it and code fills it in; when none is, neither step
\* is part of the program (any more).
FreezeLine ==
  IF undecided THEN <<<<"freeze">>, <<"gate", "tolerances", 1>>, <<"fill">>>> ELSE <<<<"freeze">>>>

VSpecLine ==
  <<<<"store", "vspec">>, <<"loop", "vspec">>, <<"coverage">>, <<"gate", "verification", 1>>,
    <<"store", "tasks">>>>

DesignLine == OpeningLine \o BlocksLine \o FreezeLine \o VSpecLine

\* The tests without the source, the source without the tests.
BuildSteps ==
  {[key |-> <<"write", f>>, after |-> {<<"store", "tasks">>}] : f \in BuildFiles}

Built == written = BuildFiles

------------------------------------------------------------------------------
(* Triage, cycle by cycle. *)

\* (mutant) Every cycle looks at the latest results.
FailingNow(c) == results[Len(results)].failing

Failing(c) == results[c].failing

\* A cycle asks for fixes as long as something fails and the rounds are not used up.
Triaged(c) == Failing(c) # {} /\ c <= FixRounds

RulingSteps(c) ==
  {[key |-> <<"ruling", p, 1, c>>, after |-> {<<"verify", c>>}] : p \in Failing(c)}
    \union {[key |-> <<"ruling", p, 2, c>>, after |-> {<<"ruling", p, 1, c>>}] :
              p \in {x \in Failing(c) : Ruling(x, 1, c) = "test_stands"}}

\* (mutant) Both questions have to be answered for every failure.
RulingsBothIn(c) == \A p \in Failing(c) : Ruling(p, 1, c) # None /\ Ruling(p, 2, c) # None

RulingsIn(c) ==
  \A p \in Failing(c) :
    /\ Ruling(p, 1, c) # None
    /\ Ruling(p, 1, c) = "test_stands" => Ruling(p, 2, c) # None

LastRuling(p, c) == <<"ruling", p, IF Ruling(p, 1, c) = "test_bug" THEN 1 ELSE 2, c>>

\* What the rulings name; a contract_ambiguity is carried, nothing is fixed for it.
ToFix(c) ==
  {f \in BuildFiles : \E p \in Failing(c) :
     IF f = "tests" THEN Ruling(p, 1, c) = "test_bug"
     ELSE Ruling(p, 1, c) = "test_stands" /\ Ruling(p, 2, c) \in {"implementation_bug", "algorithm_defect"}}

FixSteps(c) ==
  {[key |-> <<"fix", f, c>>, after |-> {LastRuling(p, c) : p \in Failing(c)}] : f \in ToFix(c)}

Fixed(c) == ToFix(c) # {} /\ \A f \in ToFix(c) : <<"fix", f, c>> \in marks

\* The cycles the program walks through, and the verification each begins with.
Reached(c) ==
  \A b \in 1..(c - 1) : Len(results) >= b /\ Triaged(b) /\ RulingsIn(b) /\ Fixed(b)

Cycles == {c \in 1..(FixRounds + 1) : Built /\ Reached(c)}

VerifyStep(c) ==
  [key |-> <<"verify", c>>,
   after |-> IF c = 1 THEN {<<"write", f>> : f \in BuildFiles}
             ELSE {<<"fix", f, c - 1>> : f \in ToFix(c - 1)}]

Open == {c \in Cycles : Len(results) >= c}

TriageSteps ==
  {VerifyStep(c) : c \in Cycles}
    \union UNION {RulingSteps(c) \union If(RulingsIn(c), FixSteps(c)) :
                    c \in {b \in Open : Triaged(b)}}

\* (mutant) As long as no ruling asks for a fix the report is due.
ReportStepEarly ==
  {[key |-> <<"report">>, after |-> {<<"verify", c>>}] : c \in {b \in Open : Triaged(b) => ToFix(b) = {}}}

\* The report waits for the verification of the cycle that asks for no fix.
ReportStep ==
  {[key |-> <<"report">>, after |-> {<<"verify", c>>}] :
     c \in {b \in Open : Triaged(b) => RulingsIn(b) /\ ToFix(b) = {}}}

CodeBuilderSteps ==
  LineSteps(DesignLine)
    \union If(Through(DesignLine), BuildSteps \union TriageSteps \union ReportStep)
==============================================================================
