---------------------------- MODULE DriverProofs ----------------------------
(***************************************************************************)
(* The drive loop for every program, pool size, number of steps and        *)
(* history of deaths, failures, stops, removals and undos.                 *)
(***************************************************************************)
EXTENDS Driver, TLAPS

USE NStepsAssumption, AfterAssumption, FilesAssumption, KindsAssumption, MaxFaultsAssumption

LEMMA TypeStep == TypeOK /\ [Next]_vars => TypeOK'
<1> SUFFICES ASSUME TypeOK, [Next]_vars PROVE TypeOK'
  OBVIOUS
<1> USE DEF TypeOK, stateVars, haltVars, personVars, roundVars, Begun, HaltKinds, RecordStates,
            Idle, Nothing, Goto, Halted, Fault
<1>1. ASSUME Begin PROVE TypeOK'
  BY <1>1 DEF Begin
<1>2. ASSUME SetRunning PROVE TypeOK'
  BY <1>2 DEF SetRunning
<1>3. ASSUME CheckStop PROVE TypeOK'
  <2>1. stop' \in BOOLEAN
    BY <1>3, Zenon DEF CheckStop
  <2>2. /\ UNCHANGED <<stateVars, haltVars, disk, decided, seen, lost, faults, roundVars>>
        /\ main' \in {"report", "next"} /\ late' \in {0, late}
        /\ ending' \in {"resumable", ending} /\ (main' = "report" => ending' = "resumable")
    BY <1>3, Zenon DEF CheckStop
  <2> QED
    BY <2>1, <2>2
<1>4. ASSUME DriverNext PROVE TypeOK'
  <2>1. Listed \subseteq Steps
    BY DEF Listed
  <2>2. seen' \subseteq Steps
    BY <1>4, <2>1 DEF DriverNext
  <2> QED
    BY <1>4, <2>2 DEF DriverNext
<1>5. ASSUME Finish PROVE TypeOK'
  BY <1>5 DEF Finish
<1>6. ASSUME Report PROVE TypeOK'
  BY <1>6 DEF Report
<1>7. ASSUME SetHalted PROVE TypeOK'
  BY <1>7 DEF SetHalted, StatusOf
<1>8. ASSUME Close PROVE TypeOK'
  BY <1>8 DEF Close
<1>9. ASSUME CancelQueued PROVE TypeOK'
  BY <1>9 DEF CancelQueued
<1>10. ASSUME Return PROVE TypeOK'
  <2>1. /\ UNCHANGED <<stateVars, haltVars, disk, personVars, roundVars, seen, late>>
        /\ main' \in {"top", "report", "close"}
    BY <1>10 DEF Return
  <2>2. ending' \in HaltKinds \union {ending} /\ (main' = "report" => ending' = "broke")
    BY <1>10 DEF Return, FirstIn, Round
  <2> QED
    BY <2>1, <2>2
<1>11. ASSUME NEW s \in Steps, Take(s) PROVE TypeOK'
  BY <1>11 DEF Take
<1>12. ASSUME NEW s \in Steps, Admit(s) PROVE TypeOK'
  BY <1>12 DEF Admit
<1>13. ASSUME NEW s \in Steps, Denied(s) PROVE TypeOK'
  BY <1>13 DEF Denied
<1>14. ASSUME NEW s \in Steps, Start(s) PROVE TypeOK'
  BY <1>14 DEF Start
<1>15. ASSUME NEW s \in Steps, NEW f \in Files, Land(s, f) PROVE TypeOK'
  BY <1>15 DEF Land
<1>16. ASSUME NEW s \in Steps, Done(s) PROVE TypeOK'
  BY <1>16 DEF Done, Required, Throws
<1>17. ASSUME NEW s \in Steps, Refused(s) PROVE TypeOK'
  BY <1>17 DEF Refused
<1>18. ASSUME NEW s \in Steps, Raises(s) PROVE TypeOK'
  BY <1>18 DEF Raises, Throws
<1>19. ASSUME NEW s \in Steps, StageHalt(s) PROVE TypeOK'
  BY <1>19 DEF StageHalt
<1>20. ASSUME NEW s \in Steps, PublishHalt(s) PROVE TypeOK'
  BY <1>20 DEF PublishHalt
<1>21. ASSUME NEW s \in Steps, SetStepHalted(s) PROVE TypeOK'
  BY <1>21 DEF SetStepHalted, StatusOf
<1>22. ASSUME NEW g \in Gates, Decide(g) PROVE TypeOK'
  BY <1>22 DEF Decide
<1>23. ASSUME Die PROVE TypeOK'
  BY <1>23 DEF Die
<1>24. ASSUME Cancel PROVE TypeOK'
  BY <1>24 DEF Cancel
<1>25. ASSUME NEW f \in Files, Lose(f) PROVE TypeOK'
  BY <1>25 DEF Lose
<1>26. ASSUME NEW s \in Steps, Undo(s) PROVE TypeOK'
  BY <1>26 DEF Undo
<1>27. ASSUME LoopRaises PROVE TypeOK'
  BY <1>27 DEF LoopRaises, Fault
<1>28. CASE UNCHANGED vars
  BY <1>28 DEF vars
<1> QED
  BY <1>1, <1>2, <1>3, <1>4, <1>5, <1>6, <1>7, <1>8, <1>9, <1>10, <1>11, <1>12, <1>13,
     <1>14, <1>15, <1>16, <1>17, <1>18, <1>19, <1>20, <1>21, <1>22, <1>23, <1>24, <1>25,
     <1>26, <1>27, <1>28 DEF Next, Loop, Execute, World

\* Every variable of the drive loop keeps a value of its kind.
THEOREM TypeCorrect == Spec => []TypeOK
<1>1. Init => TypeOK
  <2> SUFFICES ASSUME Init PROVE TypeOK
    OBVIOUS
  <2>1. stop \in BOOLEAN
    BY Zenon DEF Init
  <2> QED
    BY <2>1 DEF Init, TypeOK, Idle, Nothing, HaltKinds, Begun, RecordStates
<1> QED
  BY <1>1, TypeStep, PTL DEF Spec

------------------------------------------------------------------------------
(* The inductive invariant.  A round starts from what `next` found, and      *)
(* while it lasts records only move towards done: that needs that nothing is *)
(* at work outside a round, or an undo or a reopening would pull the ground  *)
(* from under a step.                                                        *)

Waiting == {"queued"} \union Begun

\* Outside a round no thread is at work; between two sessions no step is in a round at all.
Quiescent ==
  /\ main # "round" => \A s \in Steps : worker[s] \notin Begun
  /\ main = "off" => \A s \in Steps : worker[s] = "none"

\* The steps of the round, at work or still queued, are open, and what they wait for is done.
RoundIsOpen ==
  main = "round" =>
    \A s \in Steps : worker[s] \in Waiting =>
      rec[s] # "done" /\ \A a \in After[s] : rec[a] = "done"

\* An execution that is out is done on record or has an outcome.
OutIsAnswered ==
  main = "round" => \A s \in Steps : worker[s] = "out" => rec[s] = "done" \/ result[s] # "none"

\* Once `next` found nothing ready, the done steps it listed have their deliverables.
FinishIsProved ==
  main = "finish" =>
    \A s \in seen : rec[s] = "done" => Deliverables[s] \subseteq disk \union lost

IInv == Quiescent /\ RoundIsOpen /\ OutIsAnswered /\ DoneIsProved /\ FinishIsProved

LEMMA InvStep == TypeOK /\ IInv /\ [Next]_vars => IInv'
<1> SUFFICES ASSUME TypeOK, IInv, [Next]_vars PROVE IInv'
  OBVIOUS
<1> USE DEF TypeOK, IInv, Quiescent, RoundIsOpen, OutIsAnswered, DoneIsProved, FinishIsProved,
            Waiting, Begun, Goto, Halted, Listed
<1> USE DEF stateVars, haltVars, personVars, roundVars
<1>1. ASSUME Begin PROVE IInv'
  BY <1>1 DEF Begin
<1>2. ASSUME SetRunning PROVE IInv'
  BY <1>2 DEF SetRunning
<1>3. ASSUME CheckStop PROVE IInv'
  BY <1>3 DEF CheckStop
<1>4. ASSUME DriverNext PROVE IInv'
  <2> USE <1>4 DEF DriverNext
  <2>1. \A s \in Steps : worker'[s] \notin Begun /\ worker'[s] # "out"
    OBVIOUS
  <2>2. \A s \in Steps : rec'[s] = "done" => rec[s] = "done" /\ s \notin Reopened /\ proof'[s] = proof[s]
    OBVIOUS
  <2>3. \A s \in Ready : rec'[s] # "done" /\ \A a \in After[s] : rec'[a] = "done"
    BY DEF Ready, DoneSteps, Reopened
  <2>4. RoundIsOpen'
    BY <2>3 DEF Ready
  <2>5. DoneIsProved'
    BY <2>2
  <2>6. FinishIsProved'
    BY <2>2 DEF Reopened, Present
  <2>7. Quiescent' /\ OutIsAnswered'
    BY <2>1
  <2> QED
    BY <2>4, <2>5, <2>6, <2>7
<1>5. ASSUME Finish PROVE IInv'
  BY <1>5 DEF Finish
<1>6. ASSUME Report PROVE IInv'
  BY <1>6 DEF Report
<1>7. ASSUME SetHalted PROVE IInv'
  BY <1>7 DEF SetHalted
<1>8. ASSUME Close PROVE IInv'
  BY <1>8 DEF Close, Idle
<1>9. ASSUME CancelQueued PROVE IInv'
  BY <1>9 DEF CancelQueued
<1>10. ASSUME Return PROVE IInv'
  BY <1>10 DEF Return, RoundOver, Running
<1>11. ASSUME NEW s \in Steps, Take(s) PROVE IInv'
  BY <1>11 DEF Take, FirstIn, Queued
<1>12. ASSUME NEW s \in Steps, Admit(s) PROVE IInv'
  BY <1>12 DEF Admit
<1>13. ASSUME NEW s \in Steps, Denied(s) PROVE IInv'
  BY <1>13 DEF Denied
<1>14. ASSUME NEW s \in Steps, Start(s) PROVE IInv'
  BY <1>14 DEF Start
<1>15. ASSUME NEW s \in Steps, NEW f \in Files, Land(s, f) PROVE IInv'
  BY <1>15 DEF Land
<1>16. ASSUME NEW s \in Steps, Done(s) PROVE IInv'
  BY <1>16 DEF Done, Throws
<1>17. ASSUME NEW s \in Steps, Refused(s) PROVE IInv'
  BY <1>17 DEF Refused
<1>18. ASSUME NEW s \in Steps, Raises(s) PROVE IInv'
  BY <1>18 DEF Raises, Throws
<1>19. ASSUME NEW s \in Steps, StageHalt(s) PROVE IInv'
  BY <1>19 DEF StageHalt
<1>20. ASSUME NEW s \in Steps, PublishHalt(s) PROVE IInv'
  BY <1>20 DEF PublishHalt
<1>21. ASSUME NEW s \in Steps, SetStepHalted(s) PROVE IInv'
  BY <1>21 DEF SetStepHalted, HaltKinds
<1>22. ASSUME NEW g \in Gates, Decide(g) PROVE IInv'
  BY <1>22 DEF Decide
<1>23. ASSUME Die PROVE IInv'
  BY <1>23 DEF Die, Idle
<1>24. ASSUME Cancel PROVE IInv'
  BY <1>24 DEF Cancel
<1>25. ASSUME NEW f \in Files, Lose(f) PROVE IInv'
  BY <1>25 DEF Lose
<1>26. ASSUME NEW s \in Steps, Undo(s) PROVE IInv'
  BY <1>26 DEF Undo
<1>27. ASSUME LoopRaises PROVE IInv'
  BY <1>27 DEF LoopRaises, Fault
<1>28. CASE UNCHANGED vars
  BY <1>28 DEF vars
<1> QED
  BY <1>1, <1>2, <1>3, <1>4, <1>5, <1>6, <1>7, <1>8, <1>9, <1>10, <1>11, <1>12, <1>13,
     <1>14, <1>15, <1>16, <1>17, <1>18, <1>19, <1>20, <1>21, <1>22, <1>23, <1>24, <1>25,
     <1>26, <1>27, <1>28 DEF Next, Loop, Execute, World

LEMMA Invariant == Spec => [](TypeOK /\ IInv)
<1>1. Init => IInv
  BY DEF Init, IInv, Quiescent, RoundIsOpen, OutIsAnswered, DoneIsProved, FinishIsProved,
         Idle, Begun
<1> QED
  BY <1>1, TypeCorrect, InvStep, PTL DEF Spec

------------------------------------------------------------------------------
\* `next`: no step is at work before the steps it waits for are done on record.
THEOREM DepsAreDone == Spec => []StartsAfterItsDeps
<1>1. TypeOK /\ IInv => StartsAfterItsDeps
  BY DEF IInv, Quiescent, RoundIsOpen, StartsAfterItsDeps, Waiting
<1> QED
  BY <1>1, Invariant, PTL

\* `next`: a step at work is open on record.
THEOREM WorkIsOpen == Spec => []NothingDoneIsRedone
<1>1. TypeOK /\ IInv => NothingDoneIsRedone
  BY DEF IInv, Quiescent, RoundIsOpen, NothingDoneIsRedone, Waiting
<1> QED
  BY <1>1, Invariant, PTL

\* What is at work is due, and is not done already.
THEOREM WorkIsDue == Spec => []WorkIsInOrder
BY DepsAreDone, WorkIsOpen, PTL DEF WorkIsInOrder

\* `done`: the recorded deliverables are on disk but for those somebody took away.
THEOREM DoneHasItsProof == Spec => []DoneIsProved
BY Invariant, PTL DEF IInv

\* Only a missing deliverable, or an undo while nothing runs, opens finished work again.
THEOREM FinishedWorkStays == Spec => ReopenedOnlyIfMissing
<1> DEFINE A == \A s \in Steps : rec[s] = "done" /\ rec'[s] # "done" => ~Present(s) \/ main = "off"
<1>1. TypeOK /\ IInv /\ [Next]_vars => [A]_vars
  <2> SUFFICES ASSUME TypeOK, IInv, Next PROVE A
    BY DEF vars
  <2> USE DEF TypeOK
  <2>1. ASSUME DriverNext PROVE A
    BY <2>1 DEF DriverNext, Reopened
  <2>2. ASSUME NEW s \in Steps, Start(s) PROVE A
    <3>1. rec[s] # "done"
      BY <2>2 DEF Start, IInv, Quiescent, RoundIsOpen, Waiting, Begun
    <3> QED
      BY <2>2, <3>1 DEF Start
  <2>3. ASSUME NEW s \in Steps, Done(s) PROVE A
    BY <2>3 DEF Done
  <2>4. ASSUME NEW s \in Steps, Undo(s) PROVE A
    BY <2>4 DEF Undo
  <2>5. ASSUME UNCHANGED rec PROVE A
    BY <2>5
  <2> QED
    BY <2>1, <2>2, <2>3, <2>4, <2>5
    DEF Next, Loop, Execute, World, stateVars, Begin, SetRunning, CheckStop, Finish, LoopRaises, Report,
        SetHalted, Close, CancelQueued, Return, Take, Admit, Denied, Land, Refused, Raises, Throws,
        StageHalt, PublishHalt, SetStepHalted, Decide, Die, Cancel, Lose
<1> QED
  BY <1>1, Invariant, PTL DEF Spec, ReopenedOnlyIfMissing

\* `finish`: a run marked complete has every listed step done, with its deliverables.
THEOREM CompletionIsProved == Spec => CompletesWhenAllIsThere
<1> DEFINE A == status # "COMPLETED" /\ status' = "COMPLETED" =>
                  \A s \in Listed :
                    /\ rec[s] = "done"
                    /\ s \in seen => Deliverables[s] \subseteq disk \union lost
<1>1. TypeOK /\ IInv /\ [Next]_vars => [A]_vars
  <2> SUFFICES ASSUME TypeOK, IInv, Next PROVE A
    BY DEF vars
  <2>1. ASSUME Finish PROVE A
    BY <2>1 DEF Finish, Pending, IInv, FinishIsProved, TypeOK
  <2>2. ASSUME SetRunning \/ SetHalted \/ \E s \in Steps : SetStepHalted(s) PROVE A
    BY <2>2 DEF SetRunning, SetHalted, SetStepHalted, StatusOf
  <2>3. ASSUME UNCHANGED status PROVE A
    BY <2>3
  <2> QED
    BY <2>1, <2>2, <2>3
    DEF Next, Loop, Execute, World, stateVars, Begin, CheckStop, DriverNext, LoopRaises, Report,
        Close, CancelQueued, Return, Take, Admit, Denied, Start, Land, Done, Refused, Raises, Throws,
        StageHalt, PublishHalt, Decide, Die, Cancel, Lose, Undo
<1> QED
  BY <1>1, Invariant, PTL DEF Spec, CompletesWhenAllIsThere

\* `_execute_ready`: a round ends with every step begun in it done or halted.
THEOREM RoundsEndWhole == Spec => NoHalfLandedStep
<1> DEFINE A == main = "round" /\ main' \in {"top", "report", "close"} =>
                  \A s \in Round \ Queued : rec[s] = "done" \/ result[s] # "none"
<1>1. TypeOK /\ IInv /\ [Next]_vars => [A]_vars
  <2> SUFFICES ASSUME TypeOK, IInv, Next PROVE A
    BY DEF vars
  <2>1. ASSUME Return PROVE A
    BY <2>1 DEF Return, RoundOver, Running, Round, Queued, TypeOK, IInv, OutIsAnswered
  <2>2. ASSUME main # "round" \/ main' \in {main, "off"} PROVE A
    BY <2>2
  <2> QED
    BY <2>1, <2>2
    DEF Next, Loop, Execute, World, Begin, SetRunning, CheckStop, DriverNext, Finish, LoopRaises, Report,
        SetHalted, Close, CancelQueued, Take, Admit, Denied, Start, Land, Done, Refused,
        Raises, Throws, StageHalt, PublishHalt, SetStepHalted, Decide, Die, Cancel, Lose, Undo
<1> QED
  BY <1>1, Invariant, PTL DEF Spec, NoHalfLandedStep

------------------------------------------------------------------------------
(* One step at a time (a pool of one): nobody shares the staging name of the *)
(* halt report, so what the file, the status and the outcome say can be      *)
(* followed from the step that halted to the end of the session.             *)

\* One step of the round is at work, and once a step has an outcome nothing else begins.
SoloWork ==
  main = "round" =>
    /\ \A s, u \in Steps : worker[s] \in Begun /\ worker[u] \in Begun => s = u
    /\ \A s \in Steps : worker[s] \in {"none", "queued", "admit", "start", "work"} => result[s] = "none"
    /\ \A s, u \in Steps : result[s] # "none" /\ (worker[u] \in Begun \/ result[u] # "none") => s = u

\* The report of the step that halted: staged, then in halt.json, then in the status; and a
\* halt.json in the middle of a round comes from a step of it.
SoloHalt ==
  main = "round" =>
    /\ \A s \in Steps : /\ worker[s] = "publish" => staged = result[s]
                        /\ worker[s] = "set" => halt = result[s]
                        /\ worker[s] = "out" /\ result[s] \in HaltKinds =>
                             halt = result[s] /\ status = StatusOf(result[s])
    /\ \/ halt = "none"
       \/ \E s \in Steps : worker[s] \in {"set", "out"} /\ result[s] \in {halt, "raised"}

Agreed ==
  \/ ending = "completed" /\ status = "COMPLETED" /\ halt = "none"
  \/ ending \in HaltKinds /\ halt = ending /\ status = StatusOf(ending)

\* `begin` cleared the old halt; the loop's own report is in the file before the status; the
\* session closes, and stays closed, in agreement.
SoloEnd ==
  /\ main \in {"begun", "top", "next", "finish"} => halt = "none"
  /\ main = "reported" => halt = ending
  /\ main = "close" => Agreed
  /\ main = "off" => ending = "none" \/ Agreed
  /\ \A s \in Steps : result[s] # "unreported"

\* The one step begun after the STOP file was written: it is past its start, and until the file
\* is consumed nothing else begins.
SoloStop ==
  /\ late < 2
  /\ ~stop => late = 0
  /\ stop /\ late = 1 =>
       /\ main # "next"
       /\ main = "round" => /\ \E s \in Steps : worker[s] \notin {"none", "queued"}
                            /\ \A s \in Steps : worker[s] \notin {"admit", "start"}

Solo == SoloWork /\ SoloHalt /\ SoloEnd /\ SoloStop

LEMMA SoloStep ==
  ASSUME Parallel = 1, TypeOK, IInv, Solo, [Next]_vars
  PROVE  Solo'
<1> USE DEF TypeOK, IInv, Quiescent, Solo, SoloWork, SoloHalt, SoloEnd, SoloStop, Agreed,
            Begun, HaltKinds, Goto, Halted
<1> USE DEF stateVars, haltVars, personVars, roundVars
<1>1. ASSUME Begin PROVE Solo'
  BY <1>1 DEF Begin
<1>2. ASSUME SetRunning PROVE Solo'
  BY <1>2 DEF SetRunning
<1>3. ASSUME CheckStop PROVE Solo'
  <2>1. main = "top" /\ UNCHANGED <<stateVars, haltVars, roundVars>>
    BY <1>3, Zenon DEF CheckStop
  <2>2. stop' = FALSE
    BY <1>3, Zenon DEF CheckStop
  <2>3. \/ main' = "report" /\ late' = 0
        \/ ~stop /\ main' = "next" /\ late' = late
    BY <1>3, Zenon DEF CheckStop
  <2> QED
    BY <2>1, <2>2, <2>3
<1>4. ASSUME DriverNext PROVE Solo'
  <2>1. main = "next" /\ main' \in {"finish", "round"} /\ UNCHANGED <<halt, stop, late>>
    BY <1>4 DEF DriverNext
  <2>2. \A s \in Steps : worker'[s] \in {"none", "queued"} /\ result'[s] = "none"
    BY <1>4 DEF DriverNext, Idle
  <2> QED
    BY <2>1, <2>2
<1>5. ASSUME Finish PROVE Solo'
  BY <1>5 DEF Finish
<1>6. ASSUME Report PROVE Solo'
  BY <1>6 DEF Report
<1>7. ASSUME SetHalted PROVE Solo'
  BY <1>7 DEF SetHalted
<1>8. ASSUME Close PROVE Solo'
  BY <1>8 DEF Close, Idle
<1>9. ~CancelQueued
  BY DEF CancelQueued, OneByOne
<1>10. ASSUME Return PROVE Solo'
  <2>1. /\ main = "round" /\ main' \in {"top", "report", "close"}
        /\ UNCHANGED <<stateVars, haltVars, personVars, roundVars, late>>
    BY <1>10 DEF Return
  <2>2. ASSUME main' = "top" PROVE halt = "none"
    BY <2>2, <1>10 DEF Return, Round
  <2>3. ASSUME main' = "close" PROVE Agreed'
    <3>1. PICK s \in Round : result[s] \in HaltKinds /\ ending' = result[s]
      BY <2>3, <1>10 DEF Return, FirstIn, Round
    <3>2. worker[s] = "out"
      BY <3>1, <1>10 DEF Return, Round, RoundOver, Running
    <3> QED
      BY <2>1, <3>1, <3>2 DEF Round
  <2> QED
    BY <2>1, <2>2, <2>3
<1>11. ASSUME NEW s \in Steps, Take(s) PROVE Solo'
  <2>1. /\ main = "round" /\ worker[s] = "queued" /\ worker' = [worker EXCEPT ![s] = "admit"]
        /\ UNCHANGED <<stateVars, haltVars, personVars, main, ending, result, late>>
    BY <1>11 DEF Take, FirstIn, Queued
  <2>2. \A u \in Steps : worker[u] \notin Begun
    BY <1>11 DEF Take, OneByOne, Running
  <2>3. \A u \in Steps : result[u] = "none"
    BY <1>11 DEF Take, OneByOne, Round, Queued
  <2>4. stop => \A u \in Steps : worker[u] \in {"none", "queued"}
    BY <1>11 DEF Take, OneByOne, Round, Queued
  <2> QED
    BY <2>1, <2>2, <2>3, <2>4
<1>12. ASSUME NEW s \in Steps, Admit(s) PROVE Solo'
  BY <1>12 DEF Admit
<1>13. ASSUME NEW s \in Steps, Denied(s) PROVE Solo'
  BY <1>13 DEF Denied
<1>14. ASSUME NEW s \in Steps, Start(s) PROVE Solo'
  BY <1>14 DEF Start
<1>15. ASSUME NEW s \in Steps, NEW f \in Files, Land(s, f) PROVE Solo'
  BY <1>15 DEF Land
<1>16. ASSUME NEW s \in Steps, Done(s) PROVE Solo'
  BY <1>16 DEF Done, Throws
<1>17. ASSUME NEW s \in Steps, Refused(s) PROVE Solo'
  BY <1>17 DEF Refused
<1>18. ASSUME NEW s \in Steps, Raises(s) PROVE Solo'
  BY <1>18 DEF Raises, Throws
<1>19. ASSUME NEW s \in Steps, StageHalt(s) PROVE Solo'
  BY <1>19 DEF StageHalt
<1>20. ASSUME NEW s \in Steps, PublishHalt(s) PROVE Solo'
  BY <1>20 DEF PublishHalt
<1>21. ASSUME NEW s \in Steps, SetStepHalted(s) PROVE Solo'
  BY <1>21 DEF SetStepHalted
<1>22. ASSUME NEW g \in Gates, Decide(g) PROVE Solo'
  BY <1>22 DEF Decide
<1>23. ASSUME Die PROVE Solo'
  BY <1>23 DEF Die, Idle
<1>24. ASSUME Cancel PROVE Solo'
  BY <1>24 DEF Cancel
<1>25. ASSUME NEW f \in Files, Lose(f) PROVE Solo'
  BY <1>25 DEF Lose
<1>26. ASSUME NEW s \in Steps, Undo(s) PROVE Solo'
  BY <1>26 DEF Undo
<1>27. ASSUME LoopRaises PROVE Solo'
  BY <1>27 DEF LoopRaises, Fault
<1>28. CASE UNCHANGED vars
  BY <1>28 DEF vars
<1> QED
  BY <1>1, <1>2, <1>3, <1>4, <1>5, <1>6, <1>7, <1>8, <1>9, <1>10, <1>11, <1>12, <1>13,
     <1>14, <1>15, <1>16, <1>17, <1>18, <1>19, <1>20, <1>21, <1>22, <1>23, <1>24, <1>25,
     <1>26, <1>27, <1>28 DEF Next, Loop, Execute, World

LEMMA SoloInvariant == ASSUME Parallel = 1 PROVE Spec => []Solo
<1>1. Init => Solo
  <2> SUFFICES ASSUME Init PROVE Solo
    OBVIOUS
  <2>1. ~stop
    BY Zenon DEF Init
  <2> QED
    BY <2>1 DEF Init, Solo, SoloWork, SoloHalt, SoloEnd, SoloStop, Idle
<1>2. TypeOK /\ IInv /\ Solo /\ [Next]_vars => Solo'
  BY SoloStep
<1> QED
  BY <1>1, <1>2, Invariant, PTL DEF Spec

\* `drive` with one step at a time: when it returns, halt.json, the status and the outcome say
\* the same thing, and no step ends in an exception out of its own halt report.
THEOREM ReportsAgree == ASSUME Parallel = 1 PROVE Spec => []HaltAgrees
<1>1. Solo => HaltAgrees
  BY DEF Solo, SoloEnd, Agreed, HaltAgrees
<1> QED
  BY <1>1, SoloInvariant, PTL

\* `_execute_ready` with one step at a time: at most one more step starts after the STOP file
\* was written, however many programs and resumes it takes until the file is consumed.
THEOREM StopIsHeard == ASSUME Parallel = 1 PROVE Spec => []StopWithinOneStep
<1>1. Solo => StopWithinOneStep
  BY DEF Solo, SoloStop, StopWithinOneStep
<1> QED
  BY <1>1, SoloInvariant, PTL
==============================================================================
