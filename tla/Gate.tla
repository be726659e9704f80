--------------------------------- MODULE Gate ---------------------------------
(***************************************************************************)
(* The gates of one run (gates/gate.py, driver/runner.py `_gate`,          *)
(* dashboard/dashboard.py `decide`).  A gate is three files: the ask, the  *)
(* decision, and a marker that the decision was folded into                *)
(* decisions.json, the one list of every answer of the run.  A step's      *)
(* thread polls: it writes the ask once, answers by itself what the mode   *)
(* leaves to code, waits for a person otherwise, and folds what it finds.  *)
(* Several gates may wait in the pool; several tabs of the page may show   *)
(* the same form.  The process may die anywhere; a person may remove a     *)
(* decision file, or undo a gate, which opens the step again.              *)
(*                                                                         *)
(* A row's id is the largest id taken plus one: its place in the list.     *)
(*                                                                         *)
(* A definition marked (mutant) is used by no specification: it is a       *)
(* plausible mistake in the definition below it, which a property must     *)
(* refuse.                                                                 *)
(***************************************************************************)
EXTENDS Integers, Sequences, FiniteSets

CONSTANTS Gates,
          Questions,   \* how many questions each of them asks
          Human,       \* the gates the mode gives to a person
          Tabs,        \* the open pages
          NoGate,      \* a tab with no form, a lock nobody holds
          MaxAnswers,  \* bound: the forms submitted
          MaxFaults    \* bound: deaths, removals and undos together

ASSUME QuestionsAssumption == Questions \in [Gates -> Nat]
ASSUME HumanAssumption == Human \subseteq Gates
ASSUME NoGateAssumption == NoGate \notin Gates
ASSUME BoundsAssumption == MaxAnswers \in Nat /\ MaxFaults \in Nat

\* What a decision file says: nothing (no file), what code answered, or a person's n-th form.
NoAnswer == -1
ByCode == 0
Answers == {NoAnswer, ByCode} \union 1..MaxAnswers

VARIABLES
  up,        \* a runner process drives the run
  pc,        \* where the thread of each gate stands
  asked,     \* the gates whose ask file exists
  decision,  \* the decision file of each gate
  folded,    \* the gates with a .folded marker
  rows,      \* decisions.json
  lock,      \* the thread that holds its lock
  held,      \* the decision each thread has read or made
  marks,     \* the threads that leave a marker after they fold
  copy,      \* the rows each thread has read
  done,      \* the gates whose step is done on record
  form,      \* the gate whose form each tab shows
  answers,   \* (bound) the forms submitted
  changed,   \* (history) the gates whose decision file was replaced or taken away
  faults     \* (bound) the deaths, removals and undos

vars == <<up, pc, asked, decision, folded, rows, lock, held, marks, copy, done, form,
          answers, changed, faults>>
threadVars == <<held, marks, copy>>
foldVars == <<folded, rows, lock>>
personVars == <<form, answers, changed, faults>>

Row == [gate : Gates, question : Nat, answer : Answers]
Labels == {"off", "call", "look", "auto", "fold", "write", "mark", "pass"}

Goto(g, label) == pc' = [pc EXCEPT ![g] = label]
Fault == faults < MaxFaults /\ faults' = faults + 1

NoneHeld == [g \in Gates |-> NoAnswer]
NoneRead == [g \in Gates |-> <<>>]

\* What the threads of a process had in memory dies with it.
Forget == held' = NoneHeld /\ marks' = {} /\ copy' = NoneRead

Init ==
  /\ up = FALSE /\ pc = [g \in Gates |-> "off"]
  /\ asked = {} /\ decision = [g \in Gates |-> NoAnswer]
  /\ folded = {} /\ rows = <<>> /\ lock = NoGate
  /\ held = NoneHeld /\ marks = {} /\ copy = NoneRead
  /\ done = {}
  /\ form = [t \in Tabs |-> NoGate]
  /\ answers = 0 /\ changed = {} /\ faults = 0

------------------------------------------------------------------------------
(* The waiter. *)

Start ==
  /\ ~up /\ up' = TRUE
  /\ UNCHANGED <<pc, asked, decision, foldVars, threadVars, done, personVars>>

\* `Driver.next` issues a gate that is not done, or whose decision file is missing.
Issue(g) ==
  /\ up /\ pc[g] = "off" /\ (g \notin done \/ decision[g] = NoAnswer)
  /\ done' = done \ {g}
  /\ Goto(g, "call")
  /\ UNCHANGED <<up, asked, decision, foldVars, threadVars, personVars>>

\* The ask is written once, whoever comes first.
WriteAsk(g) ==
  /\ pc[g] = "call"
  /\ asked' = asked \union {g}
  /\ Goto(g, "look")
  /\ UNCHANGED <<up, decision, foldVars, threadVars, done, personVars>>

\* (mutant) Only the session that wrote the ask waits for a person.
LookOnce(g) ==
  /\ pc[g] = "look"
  /\ IF decision[g] = NoAnswer
       THEN (g \notin Human \/ faults > 0) /\ Goto(g, "auto") /\ UNCHANGED <<held, marks>>
       ELSE IF g \in folded
         THEN Goto(g, "pass") /\ UNCHANGED <<held, marks>>
         ELSE /\ held' = [held EXCEPT ![g] = decision[g]] /\ marks' = marks \union {g}
              /\ Goto(g, "fold")
  /\ UNCHANGED <<up, asked, decision, foldVars, copy, done, personVars>>

\* The decision is read.  None: a gate the mode leaves to code is answered, a person is waited
\* for (the poll changes nothing).  One that is folded lets the step pass.
Look(g) ==
  /\ pc[g] = "look"
  /\ IF decision[g] = NoAnswer
       THEN g \notin Human /\ Goto(g, "auto") /\ UNCHANGED <<held, marks>>
       ELSE IF g \in folded
         THEN Goto(g, "pass") /\ UNCHANGED <<held, marks>>
         ELSE /\ held' = [held EXCEPT ![g] = decision[g]] /\ marks' = marks \union {g}
              /\ Goto(g, "fold")
  /\ UNCHANGED <<up, asked, decision, foldVars, copy, done, personVars>>

\* The wait for a person times out: an honest halt.
TimeOut(g) ==
  /\ pc[g] = "look" /\ decision[g] = NoAnswer /\ g \in Human
  /\ Goto(g, "off")
  /\ UNCHANGED <<up, asked, decision, foldVars, threadVars, done, personVars>>

\* (mutant) A person's decision that came in between is kept, and the defaults are folded.
AutoDecideIfNone(g) ==
  /\ pc[g] = "auto"
  /\ decision' = [decision EXCEPT ![g] = IF @ = NoAnswer THEN ByCode ELSE @]
  /\ held' = [held EXCEPT ![g] = ByCode] /\ marks' = marks \ {g}
  /\ Goto(g, "fold")
  /\ UNCHANGED <<up, asked, foldVars, copy, done, personVars>>

\* `auto_decision`: every question takes its default; this path leaves no marker.
AutoDecide(g) ==
  /\ pc[g] = "auto"
  /\ decision' = [decision EXCEPT ![g] = ByCode]
  /\ changed' = IF decision[g] # NoAnswer THEN changed \union {g} ELSE changed
  /\ held' = [held EXCEPT ![g] = ByCode] /\ marks' = marks \ {g}
  /\ Goto(g, "fold")
  /\ UNCHANGED <<up, asked, foldVars, copy, done, form, answers, faults>>

\* (mutant) The list is read before the lock is taken.
FoldReadUnlocked(g) ==
  /\ pc[g] = "fold"
  /\ copy' = [copy EXCEPT ![g] = rows]
  /\ Goto(g, "write")
  /\ UNCHANGED <<up, asked, decision, foldVars, held, marks, done, personVars>>

\* `fold`: the list is read under the lock ...
FoldRead(g) ==
  /\ pc[g] = "fold" /\ lock = NoGate
  /\ lock' = g
  /\ copy' = [copy EXCEPT ![g] = rows]
  /\ Goto(g, "write")
  /\ UNCHANGED <<up, asked, decision, folded, rows, held, marks, done, personVars>>

\* One row per question, and none for a gate that only shows something.
NewRows(g) == [q \in 1..Questions[g] |-> [gate |-> g, question |-> q, answer |-> held[g]]]

\* ... and written with the decision's rows behind it.
FoldWrite(g) ==
  /\ pc[g] = "write"
  /\ rows' = copy[g] \o NewRows(g)
  /\ lock' = NoGate
  /\ held' = [held EXCEPT ![g] = NoAnswer] /\ copy' = [copy EXCEPT ![g] = <<>>]
  /\ Goto(g, IF g \in marks THEN "mark" ELSE "pass")
  /\ UNCHANGED <<up, asked, decision, folded, marks, done, personVars>>

Mark(g) ==
  /\ pc[g] = "mark"
  /\ folded' = folded \union {g} /\ marks' = marks \ {g}
  /\ Goto(g, "pass")
  /\ UNCHANGED <<up, asked, decision, rows, lock, held, copy, done, personVars>>

\* `Driver.done`: the decision file is the step's deliverable; without it the step halts.
Pass(g) ==
  /\ pc[g] = "pass"
  /\ done' = IF decision[g] # NoAnswer THEN done \union {g} ELSE done
  /\ Goto(g, "off")
  /\ UNCHANGED <<up, asked, decision, foldVars, threadVars, personVars>>

------------------------------------------------------------------------------
(* People and machines. *)

\* A tab shows the form of a gate that is asked and has no decision yet ...
OpenForm(t, g) ==
  /\ form[t] = NoGate /\ g \in asked \ done /\ decision[g] = NoAnswer
  /\ form' = [form EXCEPT ![t] = g]
  /\ UNCHANGED <<up, pc, asked, decision, foldVars, threadVars, done, answers, changed, faults>>

\* ... and writes the decision when it is submitted, whatever lies there by then.
Submit(t) ==
  /\ form[t] # NoGate /\ answers < MaxAnswers
  /\ answers' = answers + 1
  /\ decision' = [decision EXCEPT ![form[t]] = answers']
  /\ changed' = IF decision[form[t]] # NoAnswer THEN changed \union {form[t]} ELSE changed
  /\ form' = [form EXCEPT ![t] = NoGate]
  /\ UNCHANGED <<up, pc, asked, foldVars, threadVars, done, faults>>

\* The page is read again, or left.
Leave(t) ==
  /\ form[t] # NoGate
  /\ form' = [form EXCEPT ![t] = NoGate]
  /\ UNCHANGED <<up, pc, asked, decision, foldVars, threadVars, done, answers, changed, faults>>

\* A decision file is removed by hand.
Remove(g) ==
  /\ decision[g] # NoAnswer /\ Fault
  /\ decision' = [decision EXCEPT ![g] = NoAnswer]
  /\ changed' = changed \union {g}
  /\ UNCHANGED <<up, pc, asked, foldVars, threadVars, done, form, answers>>

\* `Driver.undo` of a gate: its record goes and its deliverable, the decision, moves aside; the
\* ask and the marker stay.
UndoGate(g) ==
  /\ ~up /\ g \in done /\ Fault
  /\ done' = done \ {g}
  /\ decision' = [decision EXCEPT ![g] = NoAnswer]
  /\ changed' = changed \union {g}
  /\ UNCHANGED <<up, pc, asked, foldVars, threadVars, form, answers>>

\* (mutant) The lock outlives its holder.
DieHoldingLock ==
  /\ up /\ Fault
  /\ up' = FALSE
  /\ pc' = [g \in Gates |-> "off"] /\ Forget
  /\ UNCHANGED <<asked, decision, foldVars, done, form, answers, changed>>

\* The process dies: its threads are gone and the kernel drops the lock.
Die ==
  /\ up /\ Fault
  /\ up' = FALSE
  /\ pc' = [g \in Gates |-> "off"] /\ lock' = NoGate /\ Forget
  /\ UNCHANGED <<asked, decision, folded, rows, done, form, answers, changed>>

Wait(g) == \/ Issue(g) \/ WriteAsk(g) \/ Look(g) \/ AutoDecide(g)
           \/ FoldRead(g) \/ FoldWrite(g) \/ Mark(g) \/ Pass(g)

Page(t) == (\E g \in Gates : OpenForm(t, g)) \/ Submit(t) \/ Leave(t)

Next ==
  \/ Start \/ Die
  \/ \E g \in Gates : Wait(g) \/ TimeOut(g) \/ Remove(g) \/ UndoGate(g)
  \/ \E t \in Tabs : Page(t)

Spec == Init /\ [][Next]_vars

\* A run that stopped is resumed, and a thread of a live process keeps running.
FairSpec == Spec /\ WF_vars(Start) /\ \A g \in Gates : WF_vars(Wait(g))

------------------------------------------------------------------------------
(* Properties. *)

\* Every variable holds a value of its kind.
TypeOK ==
  /\ up \in BOOLEAN /\ pc \in [Gates -> Labels]
  /\ asked \subseteq Gates /\ decision \in [Gates -> Answers]
  /\ folded \subseteq Gates /\ rows \in Seq(Row) /\ lock \in Gates \union {NoGate}
  /\ held \in [Gates -> Answers] /\ marks \subseteq Gates /\ copy \in [Gates -> Seq(Row)]
  /\ done \subseteq Gates /\ form \in [Tabs -> Gates \union {NoGate}]
  /\ answers \in 0..MaxAnswers /\ changed \subseteq Gates /\ faults \in 0..MaxFaults

RowsOf(g, q) == {i \in DOMAIN rows : rows[i].gate = g /\ rows[i].question = q}

\* A gate that let the run pass has a row for each question in decisions.json, whatever died
\* between the decision, the fold and the marker; and where the decision file was neither
\* replaced nor taken away, the row says what the file says, which is what the program reads
\* later (gates/gate.py `make_waiter`, `fold`, recipes `read_decision`).
RecordedAsDecided ==
  \A g \in done : \A q \in 1..Questions[g] :
    /\ RowsOf(g, q) # {}
    /\ g \notin changed => \E i \in RowsOf(g, q) : rows[i].answer = decision[g]

\* What the mode gives to a person is never answered by code, through deaths, timeouts and
\* opened gates (gates/gate.py `make_waiter`, spec/decisions.py `needs_human`).
OnlyAPersonAnswers ==
  /\ \A g \in Human : decision[g] # ByCode
  /\ \A i \in DOMAIN rows : rows[i].gate \in Human => rows[i].answer # ByCode

\* No fold loses a row another gate's thread wrote: decisions.json only grows
\* (gates/gate.py `fold`, under the lock).
RowsOnlyGrow ==
  [][Len(rows) <= Len(rows') /\ \A i \in DOMAIN rows : rows'[i] = rows[i]]_vars

\* A gate with a decision lets the run pass, however often the process dies
\* (driver/runner.py `_gate`, resume from disk).
AnsweredGatePasses == \A g \in Gates : decision[g] # NoAnswer ~> (g \in done \/ decision[g] = NoAnswer)
==============================================================================
