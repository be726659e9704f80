------------------------------ MODULE GateProofs ------------------------------
(* Proofs about Gate, for any gates, tabs, mode and bounds.  One inductive    *)
(* invariant: whoever writes the list read it under the lock; a gate past its *)
(* fold has a row; a gate whose file nobody replaced has a row that agrees    *)
(* with the file, or a thread that is about to write it; and nothing on the   *)
(* way of a person's gate holds an answer of code.                            *)
EXTENDS Gate, TLAPS

\* A list has a row for each question of g, and rows that say a.
Has(s, g) == \A q \in 1..Questions[g] : \E i \in DOMAIN s : s[i].gate = g /\ s[i].question = q
Says(s, g, a) ==
  \A q \in 1..Questions[g] : \E i \in DOMAIN s : s[i].gate = g /\ s[i].question = q /\ s[i].answer = a
PeopleOnly(s) == \A i \in DOMAIN s : s[i].gate \in Human => s[i].answer # ByCode

FreshCopy == \A g \in Gates : pc[g] = "write" => lock = g /\ copy[g] = rows

PastFold == \A g \in Gates :
  pc[g] \in {"mark", "pass"} \/ g \in folded \union done => Has(rows, g)

HeldAgrees == \A g \in Gates \ changed :
  pc[g] \in {"fold", "write"} => decision[g] # NoAnswer /\ held[g] = decision[g]

RowAgrees == \A g \in Gates \ changed :
  pc[g] \in {"mark", "pass"} \/ g \in folded \union done =>
    decision[g] # NoAnswer /\ Says(rows, g, decision[g])

NoCodeForPeople ==
  /\ \A g \in Human : decision[g] # ByCode /\ held[g] # ByCode /\ pc[g] # "auto"
  /\ PeopleOnly(rows)

Agreement == FreshCopy /\ PastFold /\ HeldAgrees /\ RowAgrees /\ NoCodeForPeople
IInv == TypeOK /\ Agreement

------------------------------------------------------------------------------
\* A list with more rows keeps its own, and the others follow.
LEMMA MoreRows ==
  ASSUME NEW s \in Seq(Row), NEW t \in Seq(Row)
  PROVE  /\ s \o t \in Seq(Row)
         /\ Len(s) \in Nat /\ Len(t) \in Nat /\ Len(s \o t) = Len(s) + Len(t)
         /\ DOMAIN (s \o t) = 1..(Len(s) + Len(t)) /\ DOMAIN s = 1..Len(s) /\ DOMAIN t = 1..Len(t)
         /\ \A i \in 1..Len(s) : (s \o t)[i] = s[i]
         /\ \A i \in 1..Len(t) : (s \o t)[Len(s) + i] = t[i]
  OBVIOUS

\* The rows a decision is folded into: one per question, each with what the thread holds.
LEMMA OneRowEach ==
  ASSUME NEW g \in Gates, held[g] \in Answers
  PROVE  /\ NewRows(g) \in Seq(Row) /\ Len(NewRows(g)) = Questions[g]
         /\ \A q \in 1..Questions[g] :
              NewRows(g)[q].gate = g /\ NewRows(g)[q].question = q /\ NewRows(g)[q].answer = held[g]
<1>1. Questions[g] \in Nat
  BY QuestionsAssumption
<1>2. \A q \in 1..Questions[g] : [gate |-> g, question |-> q, answer |-> held[g]] \in Row
  BY <1>1 DEF Row
<1> QED
  BY <1>1, <1>2 DEF NewRows

\* A list with the rows of a decision behind it keeps what it says and says what they say.
LEMMA RowsAreKept ==
  ASSUME NEW s \in Seq(Row), NEW t, NEW f \in Gates, held[f] \in Answers, t = s \o NewRows(f)
  PROVE  /\ \A g : Has(s, g) => Has(t, g)
         /\ \A g, a : Says(s, g, a) => Says(t, g, a)
         /\ Has(t, f) /\ Says(t, f, held[f])
<1> DEFINE n == NewRows(f)
<1>1. /\ n \in Seq(Row) /\ Len(n) = Questions[f]
      /\ \A q \in 1..Questions[f] : n[q].gate = f /\ n[q].question = q /\ n[q].answer = held[f]
  BY OneRowEach
<1>0. t = s \o n
  OBVIOUS
<1> HIDE DEF n
<1>2. /\ DOMAIN t = 1..(Len(s) + Len(n)) /\ DOMAIN s = 1..Len(s) /\ Len(s) \in Nat /\ Len(n) \in Nat
      /\ \A i \in 1..Len(s) : t[i] = s[i]
      /\ \A i \in 1..Len(n) : t[Len(s) + i] = n[i]
  BY <1>0, <1>1, MoreRows
<1>3. DOMAIN s \subseteq DOMAIN t /\ \A i \in 1..Len(n) : Len(s) + i \in DOMAIN t
  BY <1>2
<1>4. \A g : Has(s, g) => Has(t, g)
  BY <1>2, <1>3 DEF Has
<1>5. \A g, a : Says(s, g, a) => Says(t, g, a)
  BY <1>2, <1>3 DEF Says
<1>6. \A q \in 1..Questions[f] : \E i \in DOMAIN t :
        t[i].gate = f /\ t[i].question = q /\ t[i].answer = held[f]
  <2> SUFFICES ASSUME NEW q \in 1..Questions[f]
               PROVE  \E i \in DOMAIN t : t[i].gate = f /\ t[i].question = q /\ t[i].answer = held[f]
    OBVIOUS
  <2>1. Len(s) + q \in DOMAIN t /\ t[Len(s) + q] = n[q]
    BY <1>1, <1>2, <1>3
  <2> QED BY <1>1, <2>1
<1>7. Has(t, f) /\ Says(t, f, held[f])
  BY <1>6 DEF Has, Says
<1> QED BY <1>4, <1>5, <1>7

------------------------------------------------------------------------------
LEMMA NothingInMemory == NoneHeld \in [Gates -> Answers] /\ NoneRead \in [Gates -> Seq(Row)]
<1>1. NoAnswer \in Answers BY DEF Answers
<1>2. <<>> \in Seq(Row) OBVIOUS
<1>3. NoneHeld \in [Gates -> Answers] BY <1>1 DEF NoneHeld
<1>4. NoneRead \in [Gates -> Seq(Row)] BY <1>2 DEF NoneRead
<1> QED BY <1>3, <1>4

LEMMA TypeInit == Init => TypeOK
<1> SUFFICES ASSUME Init PROVE TypeOK
  OBVIOUS
<1>1. decision \in [Gates -> Answers] /\ rows \in Seq(Row)
  BY DEF Init, Answers
<1>2. held \in [Gates -> Answers] /\ copy \in [Gates -> Seq(Row)]
  BY NothingInMemory DEF Init
<1>3. up \in BOOLEAN /\ pc \in [Gates -> Labels] /\ form \in [Tabs -> Gates \union {NoGate}]
  BY DEF Init, Labels
<1>4. /\ asked \subseteq Gates /\ folded \subseteq Gates /\ marks \subseteq Gates
      /\ done \subseteq Gates /\ changed \subseteq Gates /\ lock \in Gates \union {NoGate}
  BY DEF Init
<1>5. answers \in 0..MaxAnswers /\ faults \in 0..MaxFaults
  BY BoundsAssumption DEF Init
<1> QED BY <1>1, <1>2, <1>3, <1>4, <1>5 DEF TypeOK

LEMMA TypeStep == TypeOK /\ [Next]_vars => TypeOK'
<1> SUFFICES ASSUME TypeOK, [Next]_vars PROVE TypeOK'
  OBVIOUS
<1> USE BoundsAssumption, NoGateAssumption DEF TypeOK, Labels, Goto, threadVars, foldVars, personVars
<1>1. CASE Start BY <1>1 DEF Start
<1>2. CASE Die
  <2>1. held' \in [Gates -> Answers] /\ copy' \in [Gates -> Seq(Row)] /\ marks' = {}
    BY <1>2, NothingInMemory DEF Die, Forget
  <2>2. up' = FALSE /\ pc' \in [Gates -> Labels] /\ lock' = NoGate /\ faults' \in 0..MaxFaults
    BY <1>2 DEF Die, Fault
  <2>3. UNCHANGED <<asked, decision, folded, rows, done, form, answers, changed>>
    BY <1>2 DEF Die
  <2> QED BY <2>1, <2>2, <2>3
<1>3. ASSUME NEW g \in Gates, Issue(g) PROVE TypeOK' BY <1>3 DEF Issue
<1>4. ASSUME NEW g \in Gates, WriteAsk(g) PROVE TypeOK' BY <1>4 DEF WriteAsk
<1>5. ASSUME NEW g \in Gates, Look(g) PROVE TypeOK' BY <1>5 DEF Look
<1>6. ASSUME NEW g \in Gates, AutoDecide(g) PROVE TypeOK' BY <1>6 DEF AutoDecide, Answers
<1>7. ASSUME NEW g \in Gates, FoldRead(g) PROVE TypeOK' BY <1>7 DEF FoldRead
<1>8. ASSUME NEW g \in Gates, FoldWrite(g) PROVE TypeOK'
  <2>1. NewRows(g) \in Seq(Row) /\ copy[g] \in Seq(Row)
    BY OneRowEach
  <2>2. rows' \in Seq(Row)
    BY <1>8, <2>1, MoreRows DEF FoldWrite
  <2> QED BY <1>8, <2>2 DEF FoldWrite, Answers
<1>9. ASSUME NEW g \in Gates, Mark(g) PROVE TypeOK' BY <1>9 DEF Mark
<1>10. ASSUME NEW g \in Gates, Pass(g) PROVE TypeOK' BY <1>10 DEF Pass
<1>11. ASSUME NEW g \in Gates, TimeOut(g) PROVE TypeOK' BY <1>11 DEF TimeOut
<1>12. ASSUME NEW g \in Gates, Remove(g) PROVE TypeOK' BY <1>12 DEF Remove, Fault, Answers
<1>13. ASSUME NEW g \in Gates, UndoGate(g) PROVE TypeOK' BY <1>13 DEF UndoGate, Fault, Answers
<1>14. ASSUME NEW t \in Tabs, NEW g \in Gates, OpenForm(t, g) PROVE TypeOK' BY <1>14 DEF OpenForm
<1>15. ASSUME NEW t \in Tabs, Submit(t) PROVE TypeOK' BY <1>15 DEF Submit, Answers
<1>16. ASSUME NEW t \in Tabs, Leave(t) PROVE TypeOK' BY <1>16 DEF Leave
<1>17. CASE UNCHANGED vars BY <1>17 DEF vars
<1> QED BY <1>1, <1>2, <1>3, <1>4, <1>5, <1>6, <1>7, <1>8, <1>9, <1>10, <1>11, <1>12, <1>13,
           <1>14, <1>15, <1>16, <1>17 DEF Next, Wait, Page

LEMMA AgreementInit == Init => Agreement
<1> SUFFICES ASSUME Init PROVE Agreement
  OBVIOUS
<1> USE HumanAssumption DEF Init, NoneHeld, NoneRead
<1>1. FreshCopy /\ PastFold BY DEF FreshCopy, PastFold
<1>2. HeldAgrees /\ RowAgrees BY DEF HeldAgrees, RowAgrees
<1>3. \A g \in Human : decision[g] # ByCode /\ held[g] # ByCode /\ pc[g] # "auto"
  BY DEF ByCode, NoAnswer
<1>4. DOMAIN rows = {} OBVIOUS
<1>5. PeopleOnly(rows) BY <1>4 DEF PeopleOnly
<1> QED BY <1>1, <1>2, <1>3, <1>5 DEF Agreement, NoCodeForPeople

\* The step that matters: a fold adds its rows and disturbs nobody else's.
LEMMA FoldWriteStep ==
  ASSUME IInv, NEW g \in Gates, FoldWrite(g) PROVE Agreement'
<1> DEFINE n == NewRows(g)
<1>1. /\ rows \in Seq(Row) /\ copy[g] = rows /\ lock = g /\ held[g] \in Answers
      /\ Questions[g] \in Nat
  BY QuestionsAssumption DEF IInv, Agreement, FreshCopy, FoldWrite, TypeOK
<1>2. rows' = rows \o n
  BY <1>1 DEF FoldWrite
<1>3. /\ \A h : Has(rows, h) => Has(rows', h)
      /\ \A h, a : Says(rows, h, a) => Says(rows', h, a)
      /\ Has(rows', g) /\ Says(rows', g, held[g])
  BY <1>1, <1>2, RowsAreKept
<1>4. \A i \in DOMAIN rows' : \/ i \in DOMAIN rows /\ rows'[i] = rows[i]
                              \/ rows'[i].gate = g /\ rows'[i].answer = held[g]
  <2>1. /\ n \in Seq(Row) /\ Len(n) = Questions[g]
        /\ \A q \in 1..Questions[g] : n[q].gate = g /\ n[q].answer = held[g]
    BY <1>1, OneRowEach
  <2> HIDE DEF n
  <2>2. /\ DOMAIN rows' = 1..(Len(rows) + Len(n)) /\ DOMAIN rows = 1..Len(rows)
        /\ Len(rows) \in Nat /\ Len(n) \in Nat
        /\ \A i \in 1..Len(rows) : rows'[i] = rows[i]
        /\ \A i \in 1..Len(n) : rows'[Len(rows) + i] = n[i]
    BY <1>1, <1>2, <2>1, MoreRows
  <2>3. SUFFICES ASSUME NEW i \in DOMAIN rows', i \notin DOMAIN rows
                 PROVE  rows'[i].gate = g /\ rows'[i].answer = held[g]
    BY <2>2
  <2>4. i - Len(rows) \in 1..Len(n) /\ i = Len(rows) + (i - Len(rows))
    BY <2>2, <2>3
  <2> QED BY <2>1, <2>2, <2>4
<1>5. /\ pc[g] = "write" /\ pc' = [pc EXCEPT ![g] = IF g \in marks THEN "mark" ELSE "pass"]
      /\ held' = [held EXCEPT ![g] = NoAnswer] /\ copy' = [copy EXCEPT ![g] = <<>>]
      /\ UNCHANGED <<decision, folded, done, changed>>
  BY DEF FoldWrite, Goto, personVars
<1>6. /\ pc \in [Gates -> Labels] /\ held \in [Gates -> Answers] /\ copy \in [Gates -> Seq(Row)]
  BY DEF IInv, TypeOK
<1> HIDE DEF n
<1>7. FreshCopy'
  BY <1>1, <1>5, <1>6 DEF FreshCopy, IInv, Agreement
<1>8. PastFold'
  BY <1>3, <1>5, <1>6 DEF PastFold, IInv, Agreement
<1>9. HeldAgrees'
  BY <1>5, <1>6 DEF HeldAgrees, IInv, Agreement
<1>10. RowAgrees'
  BY <1>3, <1>5, <1>6 DEF RowAgrees, HeldAgrees, IInv, Agreement
<1>11. NoCodeForPeople'
  <2>1. \A h \in Human : decision'[h] # ByCode /\ held'[h] # ByCode /\ pc'[h] # "auto"
    BY <1>5, <1>6, HumanAssumption DEF NoCodeForPeople, IInv, Agreement, ByCode, NoAnswer
  <2>2. PeopleOnly(rows) /\ (g \in Human => held[g] # ByCode)
    BY DEF NoCodeForPeople, IInv, Agreement
  <2>3. PeopleOnly(rows')
    BY <1>4, <2>2 DEF PeopleOnly
  <2> QED BY <2>1, <2>3 DEF NoCodeForPeople
<1> QED BY <1>7, <1>8, <1>9, <1>10, <1>11 DEF Agreement

\* A form goes to a gate with no decision, or replaces one.
LEMMA SubmitStep ==
  ASSUME IInv, NEW t \in Tabs, Submit(t) PROVE Agreement'
<1> DEFINE f == form[t]
<1>1. /\ f \in Gates /\ answers' \in 1..MaxAnswers
      /\ decision' = [decision EXCEPT ![f] = answers']
      /\ changed' = IF decision[f] # NoAnswer THEN changed \union {f} ELSE changed
      /\ UNCHANGED <<pc, folded, rows, lock, held, copy, done>>
  BY BoundsAssumption DEF IInv, TypeOK, Submit, foldVars, threadVars
<1>2. decision \in [Gates -> Answers]
  BY DEF IInv, TypeOK
<1> HIDE DEF f
<1>3. FreshCopy' /\ PastFold'
  BY <1>1 DEF FreshCopy, PastFold, IInv, Agreement
<1>4. HeldAgrees' /\ RowAgrees'
  BY <1>1, <1>2 DEF HeldAgrees, RowAgrees, IInv, Agreement
<1>5. NoCodeForPeople'
  BY <1>1, <1>2, HumanAssumption DEF NoCodeForPeople, IInv, Agreement, ByCode
<1> QED BY <1>3, <1>4, <1>5 DEF Agreement

LEMMA AgreementStep == IInv /\ [Next]_vars => Agreement'
<1> SUFFICES ASSUME IInv, [Next]_vars PROVE Agreement'
  OBVIOUS
<1> USE HumanAssumption, NoGateAssumption
    DEF IInv, Agreement, FreshCopy, PastFold, HeldAgrees, RowAgrees, NoCodeForPeople, TypeOK,
        Goto, threadVars, foldVars, personVars
<1>1. CASE Start BY <1>1 DEF Start
<1>2. CASE Die BY <1>2 DEF Die, Forget, NoneHeld, NoneRead, NoAnswer, ByCode
<1>3. ASSUME NEW g \in Gates, Issue(g) PROVE Agreement' BY <1>3 DEF Issue
<1>4. ASSUME NEW g \in Gates, WriteAsk(g) PROVE Agreement' BY <1>4 DEF WriteAsk
<1>5. ASSUME NEW g \in Gates, Look(g) PROVE Agreement'
  <2>1. CASE decision[g] = NoAnswer
    BY <1>5, <2>1 DEF Look
  <2>2. CASE decision[g] # NoAnswer /\ g \in folded
    BY <1>5, <2>2 DEF Look
  <2>3. CASE decision[g] # NoAnswer /\ g \notin folded
    <3>1. /\ held' = [held EXCEPT ![g] = decision[g]] /\ pc' = [pc EXCEPT ![g] = "fold"]
          /\ UNCHANGED <<decision, folded, rows, lock, copy, done, changed>>
      BY <1>5, <2>3 DEF Look
    <3>2. FreshCopy' /\ PastFold' BY <3>1
    <3>3. HeldAgrees' BY <2>3, <3>1
    <3>4. RowAgrees' BY <3>1
    <3>5. NoCodeForPeople' BY <3>1
    <3> QED BY <3>2, <3>3, <3>4, <3>5
  <2> QED BY <2>1, <2>2, <2>3
<1>6. ASSUME NEW g \in Gates, AutoDecide(g) PROVE Agreement' BY <1>6 DEF AutoDecide, ByCode, NoAnswer
<1>7. ASSUME NEW g \in Gates, FoldRead(g) PROVE Agreement' BY <1>7 DEF FoldRead
<1>8. ASSUME NEW g \in Gates, FoldWrite(g) PROVE Agreement' BY <1>8, FoldWriteStep
<1>9. ASSUME NEW g \in Gates, Mark(g) PROVE Agreement' BY <1>9 DEF Mark
<1>10. ASSUME NEW g \in Gates, Pass(g) PROVE Agreement' BY <1>10 DEF Pass
<1>11. ASSUME NEW g \in Gates, TimeOut(g) PROVE Agreement' BY <1>11 DEF TimeOut
<1>12. ASSUME NEW g \in Gates, Remove(g) PROVE Agreement' BY <1>12 DEF Remove, ByCode, NoAnswer
<1>13. ASSUME NEW g \in Gates, UndoGate(g) PROVE Agreement' BY <1>13 DEF UndoGate, ByCode, NoAnswer
<1>14. ASSUME NEW t \in Tabs, NEW g \in Gates, OpenForm(t, g) PROVE Agreement' BY <1>14 DEF OpenForm
<1>15. ASSUME NEW t \in Tabs, Submit(t) PROVE Agreement' BY <1>15, SubmitStep
<1>16. ASSUME NEW t \in Tabs, Leave(t) PROVE Agreement' BY <1>16 DEF Leave
<1>17. CASE UNCHANGED vars BY <1>17 DEF vars
<1> QED BY <1>1, <1>2, <1>3, <1>4, <1>5, <1>6, <1>7, <1>8, <1>9, <1>10, <1>11, <1>12, <1>13,
           <1>14, <1>15, <1>16, <1>17 DEF Next, Wait, Page

LEMMA Inductive == Spec => []IInv
<1>1. Init => IInv BY TypeInit, AgreementInit DEF IInv
<1>2. IInv /\ [Next]_vars => IInv' BY TypeStep, AgreementStep DEF IInv
<1> QED BY <1>1, <1>2, PTL DEF Spec

------------------------------------------------------------------------------
\* Every variable keeps its kind.
THEOREM TypeCorrect == Spec => []TypeOK
<1>1. IInv => TypeOK BY DEF IInv
<1> QED BY <1>1, Inductive, PTL

\* Whatever dies between the decision, the fold and the marker, a gate the run has passed has
\* a row for each of its questions in decisions.json; where nobody replaced or removed the file, it is
\* what the file says (gates/gate.py `make_waiter`, `fold`).
THEOREM RowIsTheDecision == Spec => []RecordedAsDecided
<1>1. IInv => \A g \in done : \A q \in 1..Questions[g] : RowsOf(g, q) # {}
  BY DEF IInv, TypeOK, Agreement, PastFold, Has, RowsOf
<1>2. IInv => \A g \in done \ changed : \A q \in 1..Questions[g] :
                \E i \in RowsOf(g, q) : rows[i].answer = decision[g]
  <2> SUFFICES ASSUME IInv, NEW g \in done \ changed, NEW q \in 1..Questions[g]
               PROVE  \E i \in RowsOf(g, q) : rows[i].answer = decision[g]
    OBVIOUS
  <2>1. Says(rows, g, decision[g])
    BY DEF IInv, TypeOK, Agreement, RowAgrees
  <2>2. PICK i \in DOMAIN rows : rows[i].gate = g /\ rows[i].question = q /\ rows[i].answer = decision[g]
    BY <2>1 DEF Says
  <2> QED BY <2>2 DEF RowsOf
<1>3. IInv => RecordedAsDecided
  BY <1>1, <1>2 DEF RecordedAsDecided
<1> QED BY <1>3, Inductive, PTL

\* No answer of code ever stands for a person's, in the file or in the list
\* (gates/gate.py `make_waiter`).
THEOREM PeopleDecide == Spec => []OnlyAPersonAnswers
<1>1. IInv => OnlyAPersonAnswers
  BY DEF IInv, Agreement, NoCodeForPeople, PeopleOnly, OnlyAPersonAnswers
<1> QED BY <1>1, Inductive, PTL

\* Folds of several gates at once lose no row (gates/gate.py `fold`, state/lock.py `locked`).
THEOREM FoldsOnlyAdd == Spec => RowsOnlyGrow
<1> DEFINE Kept == Len(rows) <= Len(rows') /\ \A i \in DOMAIN rows : rows'[i] = rows[i]
<1>1. IInv /\ [Next]_vars => [Kept]_vars
  <2> SUFFICES ASSUME IInv, [Next]_vars PROVE Kept
    OBVIOUS
  <2>0. rows' = rows => Kept
    <3>1. rows \in Seq(Row)
      BY DEF IInv, TypeOK
    <3> QED BY <3>1
  <2> HIDE DEF Kept
  <2>1. ASSUME NEW g \in Gates, FoldWrite(g) PROVE Kept
    <3>1. copy[g] = rows /\ rows \in Seq(Row) /\ NewRows(g) \in Seq(Row)
      BY <2>1, OneRowEach DEF IInv, Agreement, FreshCopy, FoldWrite, TypeOK
    <3>2. rows' = rows \o NewRows(g)
      BY <2>1, <3>1 DEF FoldWrite
    <3> QED BY <3>1, <3>2, MoreRows DEF Kept
  <2>2. ASSUME NEW g \in Gates, Wait(g), ~FoldWrite(g) PROVE rows' = rows
    BY <2>2 DEF Wait, Issue, WriteAsk, Look, AutoDecide, FoldRead, Mark, Pass, foldVars
  <2>3. ASSUME NEW g \in Gates, TimeOut(g) \/ Remove(g) \/ UndoGate(g) PROVE rows' = rows
    BY <2>3 DEF TimeOut, Remove, UndoGate, foldVars
  <2>4. ASSUME NEW t \in Tabs, Page(t) PROVE rows' = rows
    BY <2>4 DEF Page, OpenForm, Submit, Leave, foldVars
  <2>5. ASSUME Start \/ Die \/ UNCHANGED vars PROVE rows' = rows
    BY <2>5 DEF Start, Die, vars, foldVars
  <2> QED BY <2>0, <2>1, <2>2, <2>3, <2>4, <2>5 DEF Next
<1> QED BY <1>1, Inductive, PTL DEF Spec, RowsOnlyGrow
==============================================================================
