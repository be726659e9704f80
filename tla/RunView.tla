-------------------------------- MODULE RunView --------------------------------
(***************************************************************************)
(* What the dashboard makes of a run's files (dashboard/model.py,          *)
(* dashboard/home.py, dashboard/timeline.py): operators over a reading d,  *)
(*   d.status, d.steps    state.json: the run's status and each step's     *)
(*   d.log                events.jsonl: <<kind, step>>, oldest first       *)
(*   d.halt               halt.json: "none", "resumable" or "final"        *)
(*   d.asks, d.decided    gates/: steps whose ask, whose decision is there *)
(*   d.stale              running on record, with no live runner           *)
(*   d.stop               a STOP file is there                             *)
(* A gate is named by its step.  Clocks, tokens and wording are left out.  *)
(***************************************************************************)
EXTENDS Naturals, Sequences, FiniteSets, SequencesExt

CONSTANTS Steps, Stages, \* 1..n each, in the order of the run and of the rail
          StageOf        \* the stage of each step

ASSUME RunViewAssumption ==
  /\ Cardinality(Steps) \in Nat /\ Steps = 1..Cardinality(Steps)
  /\ Cardinality(Stages) \in Nat \ {0} /\ Stages = 1..Cardinality(Stages)
  /\ StageOf \in [Steps -> Stages]

NoGate == 0

------------------------------------------------------------------------------
(* The events, folded: a step's last word wins. *)

NoFacts == [status |-> [k \in Steps |-> "pending"], issued |-> {}, begun |-> {}, asked |-> {}, ended |-> {},
            halts |-> 0, last |-> "none"]

Told(f, e) ==
  LET k == e[2] IN
  CASE e[1] = "issued"  -> [f EXCEPT !.issued = @ \union {k}]
    [] e[1] = "started" -> [f EXCEPT !.status[k] = "now", !.begun = @ \union {k}, !.last = "started"]
    [] e[1] = "asked"   -> [f EXCEPT !.asked = @ \union {k}, !.last = "asked"]
    [] e[1] = "done"    -> [f EXCEPT !.status[k] = "done", !.ended = @ \union {k}, !.last = "done"]
    [] e[1] = "halt"    -> [f EXCEPT !.halts = @ + 1,
                              !.status = [j \in Steps |-> IF j = k THEN "halted" ELSE @[j]]]

Facts(log) == FoldLeft(Told, NoFacts, log)

\* The timeline's bars: a step once done keeps its end, also while it runs again.
Bars(f) == [k \in f.begun |-> k \in f.ended]

------------------------------------------------------------------------------
(* The rail. *)

Keys(f, s) == {k \in f.issued : StageOf[k] = s}

StageState(f, d, running, s) ==
  LET keys == Keys(f, s)
      done == \A k \in keys : f.status[k] = "done"
      later == \E k \in f.issued : StageOf[k] > s
  IN IF keys = {} THEN "pending"
     ELSE IF \E k \in keys : f.status[k] = "halted" THEN "halted"
     ELSE IF done /\ (d.status = "COMPLETED" \/ later \/ ~running) THEN "done"
     ELSE "now"

\* The last of the stage's steps whose question is open.
StageGate(f, d, s) ==
  LET open == {k \in Keys(f, s) \intersect f.asked :
                 f.status[k] # "done" /\ k \in d.asks \ d.decided}
  IN IF open = {} THEN NoGate ELSE CHOOSE k \in open : \A j \in open : j <= k

Current(rail) ==
  LET first(S) == CHOOSE s \in S : \A t \in S : s <= t
      busy == {s \in Stages : rail[s] \in {"now", "halted"}}
      done == {s \in Stages : rail[s] = "done"}
  IN IF busy # {} THEN first(busy)
     ELSE IF done # {} THEN CHOOSE s \in done : \A t \in done : t <= s
     ELSE first(Stages)

\* Percent of a stage: never the whole of one that is not done.
Fraction(f, d, rail, s) ==
  LET keys == Keys(f, s)
      part == (100 * Cardinality({k \in keys : f.status[k] = "done"})) \div (Cardinality(keys) + 1)
  IN IF rail[s] = "done" \/ d.status = "COMPLETED" THEN 100 ELSE IF part > 95 THEN 95 ELSE part

------------------------------------------------------------------------------
(* The words for the whole run: the first that fits. *)

Process(d, running) ==
  IF d.stale THEN "stale"
  ELSE IF d.status = "COMPLETED" THEN "completed"
  ELSE IF d.status = "PAUSED" THEN "halted honestly"
  ELSE IF d.status = "FAILED" THEN "broke"
  ELSE IF running THEN "running"
  ELSE "waiting"

NowWord(f, d, gated) ==
  IF d.stale THEN "STALE"
  ELSE IF d.status = "COMPLETED" THEN "COMPLETE"
  ELSE IF d.halt # "none" THEN "HALT"
  ELSE IF gated THEN "GATE"
  ELSE IF f.last = "none" THEN "QUEUED"
  ELSE "RUNNING"

\* The bottom bar's button: what it shows, and the one thing a click does.
Control(d, gated) ==
  IF d.status = "COMPLETED" THEN [shows |-> "done", verb |-> "report"]
  ELSE IF d.status = "FAILED" \/ d.halt = "final" THEN [shows |-> "broke", verb |-> "none"]
  ELSE IF d.stale THEN [shows |-> "stale", verb |-> "resume"]
  ELSE IF d.status = "PAUSED" \/ d.halt # "none" THEN [shows |-> "halted", verb |-> "resume"]
  ELSE IF d.status = "RUNNING" /\ d.stop THEN [shows |-> "stopping", verb |-> "none"]
  ELSE IF d.status = "RUNNING" /\ gated THEN [shows |-> "gate", verb |-> "answer"]
  ELSE IF d.status = "RUNNING" THEN [shows |-> "running", verb |-> "stop"]
  ELSE [shows |-> "queued", verb |-> "start"]

Dot(d, gated) ==
  IF d.stale \/ d.status \in {"PAUSED", "FAILED"} \/ d.halt # "none" THEN "halted"
  ELSE IF d.status = "COMPLETED" THEN "done"
  ELSE IF gated THEN "waiting"
  ELSE IF d.status = "RUNNING" THEN "running"
  ELSE "queued"

\* `build_view`.
View(d) ==
  LET f == Facts(d.log)
      running == d.status = "RUNNING" /\ ~d.stale
      rail == [s \in Stages |-> StageState(f, d, running, s)]
      gates == [s \in Stages |-> StageGate(f, d, s)]
      gated == \E s \in Stages : gates[s] # NoGate
  IN [rail |-> rail, gates |-> gates, current |-> Current(rail),
      part |-> [s \in Stages |-> Fraction(f, d, rail, s)],
      process |-> Process(d, running), now |-> NowWord(f, d, gated),
      control |-> Control(d, gated), dot |-> Dot(d, gated),
      steps |-> d.steps, bars |-> Bars(f), halts |-> f.halts]

------------------------------------------------------------------------------
(* The home page's row. *)

Bucket(d) ==
  IF d.stale THEN "stale"
  ELSE IF d.status = "RUNNING" THEN "running"
  ELSE IF d.status = "COMPLETED" THEN "completed"
  ELSE IF d.status = "PAUSED" THEN "halted"
  ELSE IF d.status = "FAILED" THEN "failed"
  ELSE "queued"

\* The strip's dot reads no events: any ask without its decision waits.
HomeDot(d) ==
  IF d.status \in {"PAUSED", "FAILED"} \/ d.halt # "none" \/ d.stale THEN "halted"
  ELSE IF d.status = "COMPLETED" THEN "done"
  ELSE IF d.asks \ d.decided # {} THEN "waiting"
  ELSE IF d.status = "RUNNING" THEN "running"
  ELSE "queued"

Row(d) ==
  [bucket |-> Bucket(d), dot |-> HomeDot(d), halt |-> d.halt,
   done |-> Cardinality({k \in Steps : d.steps[k] = "done"})]

Buttons(row) ==
  [stop |-> row.bucket = "running", resume |-> row.bucket \in {"halted", "stale"}]
==============================================================================
