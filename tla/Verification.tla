------------------------------ MODULE Verification ------------------------------
(***************************************************************************)
(* What the code builder promises, tests and tells: the properties that    *)
(* cite the clauses of the contract (artifacts/vspec.py), the two rows of  *)
(* the build ledger and the files written for them (artifacts/tasks.py,    *)
(* artifacts/files.py), the runs of the tests against the source and       *)
(* against a null implementation (checks/runtests.py), the results         *)
(* (artifacts/results.py) and what the report carries (artifacts/report.py)*)
(***************************************************************************)
EXTENDS Integers, FiniteSets

CONSTANTS Ids,    \* of the contract's clauses and steps
          Names,  \* of properties
          Paths   \* of files in the build folder

------------------------------------------------------------------------------
(* What is promised. *)

Clauses == [id : Ids, section : {"units", "invariants", "negative", "failure", "other"}]
Properties == [id : Names, cites : SUBSET Ids \ {{}}, tolerance : SUBSET Ids, over : {"input", "output"}]
Gaps == [cites : SUBSET Ids]
VSpecs == [properties : SUBSET Properties \ {{}}, gaps : SUBSET Gaps]

\* `VerificationSpec.semantic_problems` finds none; a gap may cite anything.
VSpecSound(v, known) ==
  /\ \A p \in v.properties : p.cites \union p.tolerance \subseteq known
  /\ \E p \in v.properties : p.over = "input"

Checkable(clauses) == {c.id : c \in {x \in clauses : x.section # "other"}}

Cited(v) == UNION ({p.cites : p \in v.properties} \union {g.cites : g \in v.gaps})

\* The coverage check carries these; it stops nothing.
Uncovered(clauses, v) == Checkable(clauses) \ Cited(v)

------------------------------------------------------------------------------
(* What is written. *)

\* Code derives one row to build and one to test, each with the one file it may write.
TaskRows(clauses, v, src, tests) ==
  {[kind |-> "B", owner |-> "author", writes |-> src,
    covers |-> {c.id : c \in {x \in clauses : x.section = "units"}}],
   [kind |-> "T", owner |-> "checker", writes |-> tests, covers |-> {p.id : p \in v.properties}]}

\* A file as a model gives it: where it goes, the tests in it by property, the steps it reports
\* and those it names in a comment, whether it says it is blocked, and why.
FileAnswers ==
  [path : Paths, tests : SUBSET Names, reports : SUBSET Ids, comments : SUBSET Ids,
   blocked : BOOLEAN, notes : BOOLEAN]

FileSound(f, row) == f.path = row.writes /\ (f.blocked => f.notes)

\* `set_difference` both ways, and every step in a comment.
NamesItsSteps(f, steps) == f.reports = steps /\ steps \subseteq f.comments

\* The manifest: the properties that some `def test_P_nnnn` is named after.
Manifest(f) == f.tests

------------------------------------------------------------------------------
(* What is observed. *)

Statuses == {"pass", "fail", "error"}

\* A test over its cases (a skipped case counts as an error).
Outcome(cases) ==
  IF cases = {} THEN "missing"
  ELSE IF cases = {"pass"} THEN "pass"
  ELSE IF "fail" \in cases THEN "fail" ELSE "error"

\* A test over the repeated runs.
Seen(runs) == {Outcome(runs[i]) : i \in DOMAIN runs}
Real(runs) ==
  IF Seen(runs) = {"missing"} THEN "missing"
  ELSE IF Seen(runs) = {"pass"} THEN "pass"
  ELSE IF "pass" \in Seen(runs) THEN "nondeterministic"
  ELSE IF "fail" \in Seen(runs) THEN "fail" ELSE "error"

\* The cases each test of the manifest had, in each of the runs and against the null.
Observations(manifest, repeats) ==
  [real : [manifest -> [1..repeats -> SUBSET Statuses]], null : [manifest -> SUBSET Statuses]]

Results(o) ==
  [p \in DOMAIN o.real |-> [real |-> Real(o.real[p]), null |-> Outcome(o.null[p])]]

\* A test file is refused for a test that passes against the null, or errs there; a property
\* without a test is not looked for.
NullRunAccepts(f, o) ==
  /\ Manifest(f) # {}
  /\ \A p \in Manifest(f) : Results(o)[p].null \notin {"pass", "error"}

------------------------------------------------------------------------------
(* What is told. *)

ReportOf(clauses, v, o, findings, ambiguities) ==
  [findings |-> findings, ambiguities |-> ambiguities,
   properties |-> {p \in DOMAIN o.real : Results(o)[p].real # "pass"},
   gaps |-> Uncovered(clauses, v)]

\* Every case of the property's test passed in every run.
Held(p, o) == \A i \in DOMAIN o.real[p] : o.real[p][i] = {"pass"}

\* Where a checkable clause ends up: in the report as a gap; in a gap of the verification spec,
\* which a person saw at the gate; or with a property that cites it, and that held, is in the
\* report, or has no test.
Accounted(x, v, o, report) ==
  \/ x \in report.gaps
  \/ \E g \in v.gaps : x \in g.cites
  \/ \E p \in v.properties :
       /\ x \in p.cites
       /\ p.id \in DOMAIN o.real => Held(p.id, o) \/ p.id \in report.properties
=================================================================================
