-------------------------------- MODULE Recipe --------------------------------
(***************************************************************************)
(* What the programs of the recipes have in common (driver/steps.py,       *)
(* artifacts/store.py, recipes/base.py): the files of a run they derive    *)
(* their steps from, and the steps a line of the program shows.  A step is *)
(* known by its key: the kind of work it is, then what it is about.        *)
(*                                                                         *)
(* The text of an artifact is left out: a version is its number, and of    *)
(* what it says only what the program branches on is kept.  A review loop  *)
(* (module ReviewLoop) is one step here: it may store newer versions of    *)
(* its artifact, and it ends.                                              *)
(***************************************************************************)
EXTENDS Integers, Sequences, FiniteSets, SequencesExt, FiniteSetsExt

CONSTANTS Props,      \* the properties of the verification specification
          FixRounds,  \* how many times the code builder fixes and verifies again
          MayFail,    \* bound: verification -> what may fail in it, as sets of properties
          MaxRevise,  \* bound: how often a person sends the blocks back
          None        \* a file that does not exist

ASSUME RecipeAssumption ==
  /\ FixRounds \in Nat /\ MaxRevise \in Nat /\ MayFail \in [1..(FixRounds + 1) -> SUBSET SUBSET Props]
  /\ None \notin Nat
  /\ None \notin {"proceed", "revise", "set", "blank", "supported", "refuted", "undecided",
                  "test_bug", "test_stands", "implementation_bug", "contract_ambiguity"}

VARIABLES
  version,    \* artifact -> a version of it is in the store
  decision,   \* the gates decided, with the answer
  marks,      \* the marker files of the run folder
  undecided,  \* the latest contract has a tolerance nobody set
  frozen,     \* freeze.json hashes the latest contract
  written,    \* the build files that exist
  results,    \* the versions of the verification results: what failed, and whether the build
              \* files still are the ones that were verified
  rulings,    \* the rulings in triage/
  case,       \* the sides of the debate -> the id their latest arguments carry
  verdict,    \* what the latest ruling of the judge says
  report      \* what the report on file was written from: a version of the results, a verdict

files == <<version, decision, marks, undecided, frozen, written, results, rulings, case,
           verdict, report>>

Artifacts == {"brief", "ledger", "plan", "contract", "vspec", "tasks", "hypotheses", "rebuttal"}
Loops == {"plan", "contract", "audit", "vspec", "hypotheses"}
Sides == {"support", "challenge"}
BuildFiles == {"tests", "src"}

\* The artifact a loop reviews; the audit is a second loop over the contract.
Reviewed(l) == IF l = "audit" THEN "contract" ELSE l

Answer(g) == LET d == {x \in decision : x.gate = g} IN IF d = {} THEN None ELSE (CHOOSE x \in d : TRUE).answer

Ruling(p, q, c) ==
  LET r == {x \in rulings : x.property = p /\ x.question = q /\ x.cycle = c}
  IN IF r = {} THEN None ELSE (CHOOSE x \in r : TRUE).verdict

FilesInit ==
  /\ version = [a \in Artifacts |-> FALSE] /\ decision = {} /\ marks = {}
  /\ undecided = FALSE /\ frozen = FALSE
  /\ written = {} /\ results = <<>> /\ rulings = {}
  /\ case = [s \in Sides |-> 0] /\ verdict = None /\ report = None

\* The file the program looks for before it lists what comes behind a step.
Exists(k) ==
  CASE k[1] = "store" -> version[k[2]]
    [] k[1] = "gate" -> Answer(<<k[2], k[3]>>) # None
    [] k[1] = "write" -> k[2] \in written
    [] k[1] = "verify" -> Len(results) >= k[2]
    [] k[1] = "case" -> case[k[2]] > 0
    [] k[1] = "judge" -> verdict # None
    [] k[1] = "report" -> report # None
    [] OTHER -> k \in marks

\* A stretch of the program in which every step waits for the one before it, and is listed when
\* that one's file is there.
LineSteps(line) ==
  {[key |-> line[i], after |-> IF i = 1 THEN {} ELSE {line[i - 1]}] :
     i \in {j \in DOMAIN line : \A h \in 1..(j - 1) : Exists(line[h])}}

Through(line) == \A i \in DOMAIN line : Exists(line[i])

\* Steps shown when what they come behind is there.
If(cond, steps) == IF cond THEN steps ELSE {}
==============================================================================
