-------------------------------- MODULE Recipes --------------------------------
(***************************************************************************)
(* The two recipes at work: the rounds in which the runner takes the ready *)
(* steps of the program (driver/driver.py `next`, driver/runner.py         *)
(* `_execute_ready`), and what each step leaves behind, file by file       *)
(* (`land`, the code steps, the checks and the gates of the recipes).  The *)
(* process may die between any two files; a step that was not marked done  *)
(* is then done again, over the files it left.                             *)
(*                                                                         *)
(* A definition marked (mutant) is used by no specification: it is a       *)
(* plausible mistake in the definition below it, which a property must     *)
(* refuse.                                                                 *)
(***************************************************************************)
EXTENDS CodeBuilder, Debate

CONSTANT MaxFaults  \* bound: deaths and refused steps together

ASSUME FaultsAssumption == MaxFaults \in Nat

VARIABLES
  recipe,   \* the recipe the run was started with
  pool,     \* several steps run at once
  done,     \* the steps marked done
  hand,     \* the steps of this round that are not done: where they stand, what they read
  cut,      \* (history) of fill, verify and ruling: what a death met with something written
  faults    \* (bound) deaths and refused steps

vars == <<files, recipe, pool, done, hand, cut, faults>>
driveVars == <<recipe, pool, done, cut, faults>>

Init ==
  /\ FilesInit
  /\ recipe \in {"code_builder", "debate"} /\ pool \in BOOLEAN
  /\ done = {} /\ hand = {} /\ cut = {} /\ faults = 0

Listed == IF recipe = "debate" THEN DebateSteps ELSE CodeBuilderSteps

Ready == {s.key : s \in {x \in Listed : x.key \notin done /\ x.after \subseteq done}}

Complete == hand = {} /\ {s.key : s \in Listed} \subseteq done

\* The ready steps are taken together; nothing is listed again before all of them are over.
Round ==
  /\ hand = {}
  /\ hand' = {[key |-> k, pc |-> "call", seen |-> 0] : k \in Ready} /\ hand' # {}
  /\ UNCHANGED <<files, driveVars>>

\* A step at work; one at a time unless there is a pool.
At(h, pc) == h \in hand /\ h.pc = pc /\ (pool \/ \A g \in hand \ {h} : g.pc = "call")

Goto(h, pc) == hand' = (hand \ {h}) \union {[h EXCEPT !.pc = pc]}
Saw(h, pc, n) == hand' = (hand \ {h}) \union {[h EXCEPT !.pc = pc, !.seen = n]}

Put(a) == version' = [version EXCEPT ![a] = TRUE]

\* A new version of the contract is not the one that was hashed.
PutContract == Put("contract") /\ undecided' \in BOOLEAN /\ frozen' = FALSE
Marked(k) == marks' = marks \union {k}

------------------------------------------------------------------------------
(* Steps with one file. *)

\* An answer, or what code derived, becomes the next version of its artifact.
Store(h) ==
  /\ At(h, "call") /\ h.key[1] = "store"
  /\ IF h.key[2] = "contract" THEN PutContract
     ELSE Put(h.key[2]) /\ UNCHANGED <<undecided, frozen>>
  /\ Goto(h, "landed")
  /\ UNCHANGED <<decision, marks, written, results, rulings, case, verdict, report, driveVars>>

\* A loop ends; its author may have stored another version (module ReviewLoop).
Review(h) ==
  /\ At(h, "call") /\ h.key[1] = "loop"
  /\ \/ UNCHANGED <<version, undecided, frozen>>
     \/ Reviewed(h.key[2]) = "contract" /\ PutContract
  /\ Marked(h.key) /\ Goto(h, "landed")
  /\ UNCHANGED <<decision, written, results, rulings, case, verdict, report, driveVars>>

GateAnswers(g) ==
  CASE g[1] = "blocks" -> IF g[2] <= MaxRevise THEN {"proceed", "revise"} ELSE {"proceed"}
    [] g[1] = "tolerances" -> {"set", "blank"}
    [] g[1] = "verdict" -> IF verdict = "undecided" THEN {"supported", "undecided"} ELSE {"proceed"}
    [] OTHER -> {"proceed"}

\* A gate takes the decision that is on file, or waits for one (module Gate).
Gate(h) ==
  /\ At(h, "call") /\ h.key[1] = "gate"
  /\ LET g == <<h.key[2], h.key[3]>>
     IN IF Answer(g) # None THEN UNCHANGED decision
        ELSE \E a \in GateAnswers(g) : decision' = decision \union {[gate |-> g, answer |-> a]}
  /\ Goto(h, "landed")
  /\ UNCHANGED <<version, marks, undecided, frozen, written, results, rulings, case, verdict, report, driveVars>>

Freeze(h) ==
  /\ At(h, "call") /\ h.key = <<"freeze">>
  /\ frozen' = TRUE /\ Marked(<<"freeze">>)
  /\ Goto(h, "landed")
  /\ UNCHANGED <<version, decision, undecided, written, results, rulings, case, verdict, report, driveVars>>

\* Code checks that every clause is cited; what is not is carried, nothing is refused.
Coverage(h) ==
  /\ At(h, "call") /\ h.key = <<"coverage">>
  /\ Marked(<<"coverage">>) /\ Goto(h, "landed")
  /\ UNCHANGED <<version, decision, undecided, frozen, written, results, rulings, case, verdict, report, driveVars>>

\* Every property against the source as it lies there; the results are the next version.
Verify(h) ==
  /\ At(h, "call") /\ h.key[1] = "verify"
  /\ \E bad \in MayFail[Min({Len(results), FixRounds}) + 1] : results' = Append(results, [failing |-> bad, current |-> TRUE])
  /\ Goto(h, "landed")
  /\ UNCHANGED <<version, decision, marks, undecided, frozen, written, rulings, case, verdict, report, driveVars>>

Judge(h) ==
  /\ At(h, "call") /\ h.key = <<"judge">>
  /\ verdict' \in {"supported", "refuted", "undecided"}
  /\ Goto(h, "landed")
  /\ UNCHANGED <<version, decision, marks, undecided, frozen, written, results, rulings, case, report, driveVars>>

\* The code builder reports the last results; the debate the judge's verdict, or the person's
\* where there was one.
Report(h) ==
  /\ At(h, "call") /\ h.key = <<"report">>
  /\ report' = IF recipe = "code_builder" THEN Len(results)
               ELSE IF Answer(<<"verdict", 1>>) = "proceed" THEN verdict ELSE Answer(<<"verdict", 1>>)
  /\ Goto(h, "landed")
  /\ UNCHANGED <<version, decision, marks, undecided, frozen, written, results, rulings, case, verdict, driveVars>>

------------------------------------------------------------------------------
(* Steps that leave several files, or read before they write. *)

\* A revised contract: the version, then the marker the program looks for.
Revise(h) ==
  /\ At(h, "call") /\ h.key[1] = "revise"
  /\ PutContract
  /\ Goto(h, "mark")
  /\ UNCHANGED <<decision, marks, written, results, rulings, case, verdict, report, driveVars>>

\* The answers of the gate go into the contract, which is stored ...
Fill(h) ==
  /\ At(h, "call") /\ h.key = <<"fill">>
  /\ Put("contract") /\ undecided' = (Answer(<<"tolerances", 1>>) = "blank") /\ frozen' = FALSE
  /\ Goto(h, "freeze")
  /\ UNCHANGED <<decision, marks, written, results, rulings, case, verdict, report, driveVars>>

\* (mutant) The filled contract is not hashed again.
FillOnly(h) ==
  /\ At(h, "freeze")
  /\ Goto(h, "mark")
  /\ UNCHANGED <<files, driveVars>>

\* ... hashed again, and marked filled.
FreezeAgain(h) ==
  /\ At(h, "freeze")
  /\ frozen' = TRUE
  /\ Goto(h, "mark")
  /\ UNCHANGED <<version, decision, marks, undecided, written, results, rulings, case, verdict, report, driveVars>>

\* A file of the build, written or fixed; a fix leaves a marker behind.
WriteFile(h) ==
  /\ At(h, "call") /\ h.key[1] \in {"write", "fix"}
  /\ written' = written \union {h.key[2]}
  /\ results' = [i \in DOMAIN results |-> [results[i] EXCEPT !.current = FALSE]]
  /\ Goto(h, IF h.key[1] = "fix" THEN "mark" ELSE "landed")
  /\ UNCHANGED <<version, decision, marks, undecided, frozen, rulings, case, verdict, report, driveVars>>

Mark(h) ==
  /\ At(h, "mark")
  /\ Marked(h.key) /\ Goto(h, "landed")
  /\ UNCHANGED <<version, decision, undecided, frozen, written, results, rulings, case, verdict, report, driveVars>>

\* (mutant) The ids taken are those of the same cycle.
RulingReadCycle(h) ==
  /\ At(h, "call") /\ h.key[1] = "ruling"
  /\ Saw(h, "write", Max({r.id : r \in {x \in rulings : x.cycle = h.key[4]}} \union {0}) + 1)
  /\ UNCHANGED <<files, driveVars>>

\* A ruling's id: the largest in the folder plus one, read with no lock ...
RulingRead(h) ==
  /\ At(h, "call") /\ h.key[1] = "ruling"
  /\ Saw(h, "write", Max({r.id : r \in rulings} \union {0}) + 1)
  /\ UNCHANGED <<files, driveVars>>

\* An implementation bug stands for an algorithm defect too: every reader takes the two alike.
Verdicts(q) == IF q = 1 THEN {"test_bug", "test_stands"} ELSE {"implementation_bug", "contract_ambiguity"}

Same(r, k) == r.property = k[2] /\ r.question = k[3] /\ r.cycle = k[4]

\* ... and written with the ruling, over the one that lies there.
RulingWrite(h) ==
  /\ At(h, "write") /\ h.key[1] = "ruling"
  /\ \E v \in Verdicts(h.key[3]) :
       rulings' = {r \in rulings : ~Same(r, h.key)} \union
         {[property |-> h.key[2], question |-> h.key[3], cycle |-> h.key[4], verdict |-> v,
           id |-> h.seen, fresh |-> results[h.key[4]].current]}
  /\ Goto(h, "landed")
  /\ UNCHANGED <<version, decision, marks, undecided, frozen, written, results, case, verdict, report, driveVars>>

\* A case's arguments are numbered after those of both sides, read with no lock ...
CaseRead(h) ==
  /\ At(h, "call") /\ h.key[1] = "case"
  /\ Saw(h, "write", Max({case[s] : s \in Sides}) + 1)
  /\ UNCHANGED <<files, driveVars>>

\* ... and stored.
CaseWrite(h) ==
  /\ At(h, "write") /\ h.key[1] = "case"
  /\ case' = [case EXCEPT ![h.key[2]] = h.seen]
  /\ Goto(h, "landed")
  /\ UNCHANGED <<version, decision, marks, undecided, frozen, written, results, rulings, verdict, report, driveVars>>

------------------------------------------------------------------------------
(* The driver. *)

MarkDone(h) ==
  /\ At(h, "landed")
  /\ done' = done \union {h.key} /\ hand' = hand \ {h}
  /\ UNCHANGED <<files, recipe, pool, cut, faults>>

\* A step's answer is refused or denied: it halts; one at a time, the round is over with it.
Refuse(h) ==
  /\ At(h, "call") /\ faults < MaxFaults
  /\ faults' = faults + 1
  /\ hand' = IF pool THEN hand \ {h} ELSE {}
  /\ UNCHANGED <<files, recipe, pool, done, cut>>

\* The process dies; what its steps wrote stays.
Die ==
  /\ hand # {} /\ faults < MaxFaults
  /\ faults' = faults + 1 /\ hand' = {}
  /\ cut' = cut \union {h.key[1] : h \in {g \in hand : g.key[1] \in {"fill", "verify", "ruling"} /\ g.pc \notin {"call", "write"}}}
  /\ UNCHANGED <<files, recipe, pool, done>>

Work == Round \/ \E h \in hand :
  \/ Store(h) \/ Review(h) \/ Gate(h) \/ Freeze(h) \/ Coverage(h) \/ Verify(h) \/ Judge(h)
  \/ Report(h) \/ Revise(h) \/ Fill(h) \/ FreezeAgain(h) \/ WriteFile(h) \/ Mark(h)
  \/ RulingRead(h) \/ RulingWrite(h) \/ CaseRead(h) \/ CaseWrite(h) \/ MarkDone(h)

\* The guard of Work.
Busy == hand # {} \/ Ready # {}

Next == Work \/ Die \/ \E h \in hand : Refuse(h)

Spec == Init /\ [][Next]_vars

\* A run that stopped is resumed; a live process goes on; people answer their gates.  This is
\* the weak fairness of Work, with its guard written out.
FairSpec == Spec /\ ([]<>~Busy \/ []<><<Work>>_vars)

------------------------------------------------------------------------------
(* Properties. *)

\* What is verified and built is what was hashed: from the verification specification on,
\* freeze.json names the latest contract, unless a death cut the fill of the tolerances short
\* (recipes/code_builder/recipe.py `_c_freeze`, `_c_fill_tolerances`).
FrozenIsBuilt ==
  version["vspec"] /\ "fill" \notin cut => frozen

\* A failure is ruled on by what the tests and the source said when they were last written,
\* unless a verification was cut off and made twice (recipes/code_builder/recipe.py `_steps`:
\* cycle c reads version c of the results).
TriageIsFresh ==
  "verify" \notin cut => \A r \in rulings : r.fresh

\* An id is given once: two rulings, or two sides of the debate, share one only where a pool
\* landed them together (ids.py `next_id`; the landings read the ids taken with no lock).
IdsNeverShared ==
  ~pool => /\ \A r, s \in rulings : r.id = s.id => r = s
           /\ case["support"] = case["challenge"] => case["support"] = 0

\* The report of a run that is complete speaks of the files that were delivered.
ReportIsOfTheEnd ==
  Complete =>
    IF recipe = "code_builder" THEN report = Len(results) /\ results[report].current
    ELSE report = IF verdict = "undecided" THEN Answer(<<"verdict", 1>>) ELSE verdict

\* The same unless a death met a ruling after its file was written: the report is listed by
\* then, and the ruling that is made again may ask for a fix (recipes/code_builder/recipe.py
\* `_steps`, `_c_report`; recipes/debate/recipe.py `_c_report`).
ReportIsFinal ==
  "ruling" \notin cut => ReportIsOfTheEnd

\* The unresolved is carried into the report: a property that fails in the last results of a
\* complete run is one the report speaks of.
NothingHidden ==
  Complete /\ recipe = "code_builder" => results[Len(results)].failing \subseteq results[report].failing

\* A run comes to its report, through deaths and refused answers (driver/runner.py `drive`).
RunCompletes == <>(Complete /\ report # None)
==============================================================================
