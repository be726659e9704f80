--------------------------- MODULE RunControlProofs ---------------------------
(***************************************************************************)
(* With any number of runner processes over the life of a run, any of them *)
(* killed at any moment.  Under every accident: two drive only where one   *)
(* lost its hold on the record.  With runners started one after the other, *)
(* and no accident: what is reported of the run is true, and the halt      *)
(* report and the status of a run at rest agree.                           *)
(***************************************************************************)
EXTENDS RunControl, TLAPS

USE AccidentsAssumption, NobodyAssumption

BoolOK == /\ fresh \in BOOLEAN /\ stop \in BOOLEAN /\ folder \in BOOLEAN
          /\ deleting \in BOOLEAN

\* The Boolean variables, on their own.
LEMMA BoolStep == BoolOK /\ [Next]_vars => BoolOK'
<1> SUFFICES ASSUME BoolOK, [Next]_vars PROVE BoolOK'
  OBVIOUS
<1> USE DEF BoolOK
<1>1. ASSUME NEW p \in Runners, Session(p) PROVE BoolOK'
  <2> USE DEF Goto, fileVars, folderVars
  <2>1. CASE CheckAlive(p)  BY <2>1, Zenon DEF CheckAlive
  <2>2. CASE TakeRecord(p)  BY <2>2, Zenon DEF TakeRecord
  <2>3. CASE ClearHalt(p)   BY <2>3, Zenon DEF ClearHalt
  <2>4. CASE MarkRunning(p) BY <2>4, Zenon DEF MarkRunning
  <2>5. CASE Boundary(p)    BY <2>5, Zenon DEF Boundary
  <2>6. CASE Complete(p)    BY <2>6, Zenon DEF Complete
  <2>7. CASE Halts(p)       BY <2>7, Zenon DEF Halts
  <2>8. CASE WriteHalt(p)   BY <2>8, Zenon DEF WriteHalt
  <2>9. CASE SetHalted(p)   BY <2>9, Zenon DEF SetHalted
  <2>10. CASE CloseRecord(p) BY <2>10, Zenon DEF CloseRecord
  <2>11. CASE Exit(p)       BY <2>11, Zenon DEF Exit
  <2>12. CASE Round(p)       BY <2>12, Zenon DEF Round
  <2>13. CASE RoundDone(p)       BY <2>13, Zenon DEF RoundDone
  <2>14. CASE WaitAtGate(p)       BY <2>14, Zenon DEF WaitAtGate
  <2>15. CASE GateAnswered(p)       BY <2>15, Zenon DEF GateAnswered
  <2> QED BY <1>1, <2>1, <2>2, <2>3, <2>4, <2>5, <2>6, <2>7, <2>8, <2>9, <2>10, <2>11, <2>12, <2>13,
         <2>14, <2>15 DEF Session
<1>2. ASSUME NEW p \in Runners, Heartbeat(p) PROVE BoolOK'
  <2> USE DEF fileVars, folderVars
  <2>1. CASE Beat(p)      BY <2>1, Zenon DEF Beat
  <2>2. CASE BeatDump(p)  BY <2>2, Zenon DEF BeatDump
  <2>3. CASE BeatWrite(p) BY <2>3, Zenon DEF BeatWrite
  <2> QED BY <1>2, <2>1, <2>2, <2>3 DEF Heartbeat
<1>3. ASSUME NEW p \in Runners, Submit(p) \/ Resume(p) \/ Suspend(p) \/ Wake(p) \/ Die(p) PROVE BoolOK'
  BY <1>3, Zenon DEF Submit, Resume, Suspend, Wake, Die, fileVars, folderVars
<1>4. CASE Quiet        BY <1>4, Zenon DEF Quiet, fileVars, folderVars
<1>5. CASE Cancel       BY <1>5, Zenon DEF Cancel, folderVars
<1>6. CASE DeleteCheck  BY <1>6, Zenon DEF DeleteCheck, fileVars
<1>7. CASE DeleteFolder BY <1>7, Zenon DEF DeleteFolder, fileVars
<1>8. CASE UNCHANGED vars BY <1>8, Zenon DEF vars, fileVars, folderVars
<1> QED
  BY <1>1, <1>2, <1>3, <1>4, <1>5, <1>6, <1>7, <1>8 DEF Next

DataOK ==
  /\ pc \in [Runners -> PcLabels]
  /\ suspended \subseteq Runners /\ beat \subseteq Runners
  /\ record \in [pid : Runners \union {Nobody}, open : BOOLEAN]
  /\ status \in {"QUEUED", "RUNNING", "PAUSED", "FAILED", "COMPLETED"}
  /\ halt \in HaltKinds \union {"none"}
  /\ kind \in [Runners -> HaltKinds \union {"none", "completed"}]
  /\ \A p \in Runners : pc[p] \in {"halting", "halted"} => kind[p] \in HaltKinds
  /\ exit \in [Runners -> {NoCode, 0, 1, 2}]
  /\ lapse \subseteq Runners

\* ... and the others.
LEMMA DataStep == DataOK /\ [Next]_vars => DataOK'
<1> SUFFICES ASSUME DataOK, [Next]_vars PROVE DataOK'
  OBVIOUS
<1> USE DEF DataOK, PcLabels, Present, Driving, Looping, HaltKinds, Goto, Awake, fileVars, NoCode, Drivers, Overwrites
<1>1. ASSUME NEW p \in Runners, Submit(p) \/ Resume(p) PROVE DataOK'
  BY <1>1 DEF Submit, Resume
<1>2. ASSUME NEW p \in Runners, Session(p) PROVE DataOK'
  <2>1. CASE CheckAlive(p)  BY <2>1 DEF CheckAlive
  <2>2. CASE TakeRecord(p)  BY <2>2 DEF TakeRecord
  <2>3. CASE ClearHalt(p)   BY <2>3 DEF ClearHalt
  <2>4. CASE MarkRunning(p) BY <2>4 DEF MarkRunning
  <2>5. CASE Boundary(p)    BY <2>5 DEF Boundary
  <2>6. CASE Complete(p)    BY <2>6 DEF Complete
  <2>7. CASE Halts(p)       BY <2>7 DEF Halts
  <2>8. CASE WriteHalt(p)   BY <2>8 DEF WriteHalt
  <2>9. CASE SetHalted(p)   BY <2>9 DEF SetHalted
  <2>10. CASE CloseRecord(p) BY <2>10 DEF CloseRecord
  <2>11. CASE Exit(p)       BY <2>11 DEF Exit
  <2>12. CASE Round(p)       BY <2>12 DEF Round
  <2>13. CASE RoundDone(p)       BY <2>13 DEF RoundDone
  <2>14. CASE WaitAtGate(p)       BY <2>14 DEF WaitAtGate
  <2>15. CASE GateAnswered(p)       BY <2>15 DEF GateAnswered
  <2> QED BY <1>2, <2>1, <2>2, <2>3, <2>4, <2>5, <2>6, <2>7, <2>8, <2>9, <2>10, <2>11, <2>12, <2>13,
         <2>14, <2>15 DEF Session
<1>3. ASSUME NEW p \in Runners, Heartbeat(p) PROVE DataOK'
  <2>1. CASE Beat(p)      BY <2>1 DEF Beat
  <2>2. CASE BeatDump(p)  BY <2>2 DEF BeatDump
  <2>3. CASE BeatWrite(p) BY <2>3 DEF BeatWrite
  <2> QED BY <1>3, <2>1, <2>2, <2>3 DEF Heartbeat
<1>4. ASSUME NEW p \in Runners, Suspend(p) \/ Wake(p) PROVE DataOK'
  BY <1>4 DEF Suspend, Wake
<1>5. ASSUME NEW p \in Runners, Die(p) PROVE DataOK'
  BY <1>5 DEF Die
<1>6. ASSUME Quiet \/ Cancel \/ DeleteCheck \/ DeleteFolder PROVE DataOK'
  BY <1>6 DEF Quiet, Cancel, DeleteCheck, DeleteFolder
<1>7. CASE UNCHANGED vars
  BY <1>7 DEF vars
<1> QED
  BY <1>1, <1>2, <1>3, <1>4, <1>5, <1>6, <1>7 DEF Next

LEMMA TypeInit == Init => BoolOK /\ DataOK
<1>1. Init => BoolOK
  BY Zenon DEF Init, BoolOK
<1>2. Init => DataOK
  BY DEF Init, DataOK, PcLabels, Present, Driving, Looping, HaltKinds, NoCode
<1> QED
  BY <1>1, <1>2

\* Every variable keeps its type, under every accident.
THEOREM TypeCorrect == Spec => []TypeOK
<1>1. Init => BoolOK /\ DataOK
  BY TypeInit
<1>2. BoolOK /\ DataOK => TypeOK
  BY DEF BoolOK, DataOK, TypeOK
<1> QED
  BY <1>1, <1>2, BoolStep, DataStep, PTL DEF Spec

------------------------------------------------------------------------------
(* Under every accident: a driver that did not lapse owns a fresh record.     *)

Owns(p) == record = [pid |-> p, open |-> TRUE]

\* Who drives and did not lapse is awake and owns an open record, kept fresh; whoever looked
\* and did not find it has lapsed drivers before it.
Holds == \A p \in Drivers \ lapse : Owns(p) /\ fresh /\ p \notin suspended
LookedPast == \A q \in Runners : pc[q] = "checked" => Drivers \subseteq lapse

Hold == Holds /\ LookedPast

LEMMA HoldStep ==
  ASSUME DataOK, Hold, [Next]_vars
  PROVE  Hold'
<1> USE DEF Hold, Holds, LookedPast, Owns, DataOK, Drivers, Driving, Looping, Goto, Awake
<1>1. ASSUME NEW p \in Runners, Submit(p) \/ Resume(p) PROVE Hold'
  BY <1>1 DEF Submit, Resume
<1>2. ASSUME NEW p \in Runners, Session(p) PROVE Hold'
  <2>1. CASE CheckAlive(p)
    <3>1. CASE ~folder
      BY <2>1, <3>1 DEF CheckAlive
    <3>2. CASE folder /\ Alive
      BY <2>1, <3>2 DEF CheckAlive
    <3>3. CASE folder /\ ~Alive
      <4>1. Drivers \subseteq lapse
        <5> SUFFICES ASSUME NEW q \in Drivers, q \notin lapse PROVE FALSE
          OBVIOUS
        <5>1. Owns(q) /\ fresh
          BY DEF Hold, Holds
        <5> QED BY <3>3, <5>1, NobodyAssumption DEF Alive, Present
      <4> QED BY <2>1, <3>3, <4>1 DEF CheckAlive
    <3> QED BY <3>1, <3>2, <3>3
  <2>2. CASE TakeRecord(p)
    <3> DEFINE looked == {q \in Runners : pc[q] = "checked"}
    <3>1. /\ pc[p] = "checked" /\ p \notin suspended
          /\ record' = [pid |-> p, open |-> TRUE] /\ fresh'
          /\ pc' = [pc EXCEPT ![p] = "taken"] /\ suspended' = suspended
          /\ lapse' = IF looked = {p} THEN lapse ELSE lapse \union looked
      BY <2>2 DEF TakeRecord
    <3>2. Drivers \subseteq lapse
      BY <3>1
    <3>3. lapse \subseteq lapse' /\ Drivers' = Drivers \union {p}
      BY <3>1
    <3>4. Holds'
      BY <3>1, <3>2, <3>3
    <3>5. LookedPast'
      <4> SUFFICES ASSUME NEW q \in Runners, pc'[q] = "checked" PROVE Drivers' \subseteq lapse'
        OBVIOUS
      <4>1. q # p /\ q \in looked /\ p \in looked
        BY <3>1
      <4>2. p \in lapse'
        BY <3>1, <4>1
      <4> QED BY <3>2, <3>3, <4>2
    <3> QED BY <3>4, <3>5
  <2>3. CASE ClearHalt(p)
    BY <2>3 DEF ClearHalt
  <2>4. CASE MarkRunning(p)
    BY <2>4 DEF MarkRunning
  <2>5. CASE Boundary(p)
    BY <2>5 DEF Boundary
  <2>6. CASE Complete(p)
    BY <2>6 DEF Complete
  <2>7. CASE Halts(p)
    BY <2>7 DEF Halts
  <2>8. CASE WriteHalt(p)
    BY <2>8 DEF WriteHalt
  <2>9. CASE SetHalted(p)
    BY <2>9 DEF SetHalted
  <2>10. CASE CloseRecord(p)
    BY <2>10 DEF CloseRecord, Overwrites
  <2>11. CASE Exit(p)
    BY <2>11 DEF Exit
  <2>12. CASE Round(p)
    BY <2>12 DEF Round
  <2>13. CASE RoundDone(p)
    BY <2>13 DEF RoundDone
  <2>14. CASE WaitAtGate(p)
    BY <2>14 DEF WaitAtGate
  <2>15. CASE GateAnswered(p)
    BY <2>15 DEF GateAnswered
  <2> QED
    BY <1>2, <2>1, <2>2, <2>3, <2>4, <2>5, <2>6, <2>7, <2>8, <2>9, <2>10, <2>11, <2>12, <2>13, <2>14,
       <2>15 DEF Session
<1>3. ASSUME NEW p \in Runners, Heartbeat(p) PROVE Hold'
  <2>1. CASE Beat(p)
    BY <2>1 DEF Beat, Overwrites
  <2>2. CASE BeatDump(p)
    BY <2>2 DEF BeatDump
  <2>3. CASE BeatWrite(p)
    BY <2>3 DEF BeatWrite, Overwrites
  <2> QED BY <1>3, <2>1, <2>2, <2>3 DEF Heartbeat
<1>4. ASSUME NEW p \in Runners, Suspend(p) \/ Wake(p) PROVE Hold'
  BY <1>4 DEF Suspend, Wake
<1>5. ASSUME NEW p \in Runners, Die(p) PROVE Hold'
  BY <1>5 DEF Die
<1>6. CASE Quiet
  BY <1>6, NobodyAssumption DEF Quiet
<1>7. ASSUME Cancel \/ DeleteCheck \/ DeleteFolder PROVE Hold'
  BY <1>7 DEF Cancel, DeleteCheck, DeleteFolder
<1>8. CASE UNCHANGED vars
  BY <1>8 DEF vars
<1> QED
  BY <1>1, <1>2, <1>3, <1>4, <1>5, <1>6, <1>7, <1>8 DEF Next

\* With any number of runners and under every accident: never two drive, unless one of them was
\* suspended, overwritten, or took the record in one window with another (driver/runner.py `begin`).
THEOREM OneDriverAtATime == Spec => []OneDriver
<1>1. Init => Hold
  BY DEF Init, Hold, Holds, LookedPast, Drivers, Driving, Looping
<1>2. DataOK /\ Hold /\ [Next]_vars => Hold'
  BY HoldStep
<1>3. Hold => OneDriver
  BY DEF Hold, Holds, OneDriver, Owns
<1> QED
  BY <1>1, <1>2, <1>3, TypeInit, DataStep, PTL DEF Spec

------------------------------------------------------------------------------
(* The orderly life of a run: no accidents.  One process at a time is between *)
(* its start and its record, and whoever drives owns the record.              *)

Starting == {"spawned", "checked"}

\* Nobody sleeps, nothing is written late, nothing is deleted.
Calm == suspended = {} /\ beat = {} /\ folder /\ ~deleting

\* At most one process between its start and its record; past the look nobody drives.
OneStarts == \A p, q \in Runners : pc[p] \in Starting /\ pc[q] \in Starting => p = q
LookHolds == \A p, q \in Runners : pc[p] = "checked" => pc[q] \notin Driving

\* Who drives owns an open record, kept fresh; an open record is of one who drives or died.
Held == \A p \in Runners : pc[p] \in Driving => Owns(p)
Fresh == (\E p \in Runners : pc[p] \in Driving) => fresh
Open == \A p \in Runners : Owns(p) => pc[p] \in Driving \union {"gone"}

Orderly == Calm /\ OneStarts /\ LookHolds /\ Held /\ Fresh /\ Open

LEMMA OrderlyInit == Init => Orderly
BY NobodyAssumption DEF Init, Orderly, Calm, OneStarts, LookHolds, Held, Fresh, Open, Owns, Starting, Driving, Looping

LEMMA NothingDeleted ==
  ASSUME Accidents = {}, ~deleting, [Next]_vars
  PROVE  UNCHANGED folderVars
<1>1. ASSUME NEW p \in Runners, Session(p) PROVE UNCHANGED folderVars
  BY <1>1, Zenon DEF Session, CheckAlive, TakeRecord, ClearHalt, MarkRunning, Boundary, Round,
                     RoundDone, WaitAtGate, GateAnswered, Complete, Halts, WriteHalt, SetHalted, CloseRecord, Exit
<1>2. ASSUME NEW p \in Runners, Heartbeat(p) PROVE UNCHANGED folderVars
  BY <1>2, Zenon DEF Heartbeat, Beat, BeatDump, BeatWrite
<1>3. ASSUME NEW p \in Runners, Submit(p) \/ Resume(p) \/ Suspend(p) \/ Wake(p) \/ Die(p)
      PROVE  UNCHANGED folderVars
  BY <1>3, Zenon DEF Submit, Resume, Suspend, Wake, Die
<1>4. ASSUME Quiet \/ Cancel PROVE UNCHANGED folderVars
  BY <1>4, Zenon DEF Quiet, Cancel
<1>5. ~DeleteCheck /\ ~DeleteFolder
  <2>1. "delete" \notin Accidents
    OBVIOUS
  <2> QED BY <2>1, Zenon DEF DeleteCheck, DeleteFolder
<1>6. CASE UNCHANGED vars
  BY <1>6, Zenon DEF vars, folderVars
<1> QED
  BY <1>1, <1>2, <1>3, <1>4, <1>5, <1>6, Zenon DEF Next

LEMMA CalmStep ==
  ASSUME Accidents = {}, Calm, [Next]_vars
  PROVE  Calm'
<1>1. UNCHANGED folderVars
  BY NothingDeleted DEF Calm
<1>2. folder' /\ ~deleting'
  BY <1>1, Zenon DEF Calm, folderVars
<1>3. suspended' = {} /\ beat' = {}
  <2> USE DEF Calm
  <2>1. ASSUME NEW p \in Runners, Session(p) PROVE suspended' = {} /\ beat' = {}
    BY <2>1 DEF Session, CheckAlive, TakeRecord, ClearHalt, MarkRunning, Boundary, Round,
                RoundDone, WaitAtGate, GateAnswered, Complete, Halts, WriteHalt, SetHalted, CloseRecord, Exit
  <2>2. ASSUME NEW p \in Runners, Submit(p) \/ Resume(p) \/ Suspend(p) \/ Wake(p) \/ Die(p)
        PROVE  suspended' = {} /\ beat' = {}
    BY <2>2 DEF Submit, Resume, Suspend, Wake, Die
  <2>3. ASSUME NEW p \in Runners, Heartbeat(p) PROVE suspended' = {} /\ beat' = {}
    BY <2>3 DEF Heartbeat, Beat, BeatDump, BeatWrite
  <2>4. ASSUME Quiet \/ Cancel \/ DeleteCheck \/ DeleteFolder PROVE suspended' = {} /\ beat' = {}
    BY <2>4 DEF Quiet, Cancel, DeleteCheck, DeleteFolder
  <2>5. CASE UNCHANGED vars
    BY <2>5 DEF vars
  <2> QED
    BY <2>1, <2>2, <2>3, <2>4, <2>5 DEF Next
<1> QED
  BY <1>2, <1>3 DEF Calm

LEMMA OrderlyStep ==
  ASSUME Accidents = {}, DataOK, Orderly, [Next]_vars
  PROVE  Orderly'
<1>0. Calm'
  BY CalmStep DEF Orderly
<1>q. /\ (OneStarts /\ LookHolds)'
      /\ (Held /\ Fresh /\ Open)'
  <2> USE DEF Orderly, Calm, OneStarts, LookHolds, Held, Fresh, Open, Owns, DataOK, Starting, Driving, Looping, Goto, Awake
  <2> DEFINE Goal == (OneStarts /\ LookHolds)' /\ (Held /\ Fresh /\ Open)'
  <2>1. ASSUME NEW p \in Runners, Submit(p) \/ Resume(p) PROVE Goal
    BY <2>1 DEF Submit, Resume, Alive, Present
  <2>2. ASSUME NEW p \in Runners, Session(p) PROVE Goal
    <3>1. CASE CheckAlive(p)  BY <3>1 DEF CheckAlive, Alive, Present
    <3>2. CASE TakeRecord(p)
      <4>1. record' = [pid |-> p, open |-> TRUE] /\ fresh' /\ pc' = [pc EXCEPT ![p] = "taken"]
        BY <3>2, Zenon DEF TakeRecord
      <4>2. pc[p] = "checked"
        BY <3>2 DEF TakeRecord
      <4>3. \A q \in Runners : pc[q] \notin Driving
        BY <4>2
      <4>5. /\ pc'[p] = "taken"
            /\ \A q \in Runners : q # p => pc'[q] = pc[q]
        BY <4>1
      <4>6. OneStarts' /\ LookHolds'
        BY <4>2, <4>5
      <4>7. Held' /\ Open'
        BY <4>1, <4>3, <4>5
      <4>8. Fresh'
        BY <4>1, Zenon
      <4> QED BY <4>6, <4>7, <4>8
    <3>3. CASE ClearHalt(p)   BY <3>3 DEF ClearHalt
    <3>4. CASE MarkRunning(p) BY <3>4 DEF MarkRunning
    <3>5. CASE Boundary(p)    BY <3>5 DEF Boundary
    <3>6. CASE Complete(p)    BY <3>6 DEF Complete
    <3>7. CASE Halts(p)       BY <3>7 DEF Halts
    <3>8. CASE WriteHalt(p)   BY <3>8 DEF WriteHalt
    <3>9. CASE SetHalted(p)   BY <3>9 DEF SetHalted
    <3>10. CASE CloseRecord(p) BY <3>10 DEF CloseRecord
    <3>11. CASE Exit(p)       BY <3>11 DEF Exit
    <3>12. CASE Round(p)       BY <3>12 DEF Round
    <3>13. CASE RoundDone(p)       BY <3>13 DEF RoundDone
    <3>14. CASE WaitAtGate(p)       BY <3>14 DEF WaitAtGate
    <3>15. CASE GateAnswered(p)       BY <3>15 DEF GateAnswered
    <3> QED BY <2>2, <3>1, <3>2, <3>3, <3>4, <3>5, <3>6, <3>7, <3>8, <3>9, <3>10, <3>11, <3>12, <3>13,
         <3>14, <3>15 DEF Session
  <2>3. ASSUME NEW p \in Runners, Heartbeat(p) PROVE Goal
    BY <2>3 DEF Heartbeat, Beat, BeatDump, BeatWrite
  <2>4. ASSUME NEW p \in Runners, Suspend(p) \/ Wake(p) PROVE Goal
    BY <2>4 DEF Suspend, Wake
  <2>5. ASSUME NEW p \in Runners, Die(p) PROVE Goal
    BY <2>5 DEF Die
  <2>6. CASE Quiet
    BY <2>6, NobodyAssumption DEF Quiet
  <2>7. ASSUME Cancel \/ DeleteCheck \/ DeleteFolder PROVE Goal
    BY <2>7 DEF Cancel, DeleteCheck, DeleteFolder
  <2>8. CASE UNCHANGED vars
    BY <2>8 DEF vars
  <2> QED
    BY <2>1, <2>2, <2>3, <2>4, <2>5, <2>6, <2>7, <2>8 DEF Next
<1> QED
  BY <1>0, <1>q DEF Orderly

LEMMA OrderlyInvariant ==
  ASSUME Accidents = {}
  PROVE  Spec => [](TypeOK /\ DataOK /\ Orderly)
<1>1. BoolOK /\ DataOK => TypeOK
  BY DEF BoolOK, DataOK, TypeOK
<1>2. DataOK /\ Orderly /\ [Next]_vars => Orderly'
  BY OrderlyStep
<1> QED
  BY <1>1, <1>2, TypeInit, OrderlyInit, BoolStep, DataStep, PTL DEF Spec

\* A run that is driven is never reported stale (layers/runner.py `_handle`).
THEOREM NeverStaleWhileDriven ==
  ASSUME Accidents = {}
  PROVE  Spec => []LiveIsNeverStale
<1>1. Orderly => LiveIsNeverStale
  BY NobodyAssumption DEF Orderly, LiveIsNeverStale, Drivers, Held, Owns, Fresh, Alive, Present
<1> QED
  BY <1>1, OrderlyInvariant, PTL

\* A run that reads RUNNING is driven (state/run.py `runner_alive`).
THEOREM RunningMeansDriven ==
  ASSUME Accidents = {}
  PROVE  Spec => []RunningIsDriven
<1>1. DataOK /\ Orderly => RunningIsDriven
  <2> SUFFICES ASSUME DataOK, Orderly, Reported = "RUNNING" PROVE Drivers # {}
    BY DEF RunningIsDriven
  <2>1. Alive
    BY DEF Reported
  <2>2. record.pid \in Runners /\ Owns(record.pid)
    BY <2>1 DEF Alive, Owns, DataOK
  <2>3. pc[record.pid] \in Driving
    BY <2>1, <2>2 DEF Alive, Orderly, Open, Present, Driving
  <2> QED
    BY <2>2, <2>3 DEF Drivers
<1> QED
  BY <1>1, OrderlyInvariant, PTL

------------------------------------------------------------------------------
(* What the session in between has cleared, marked and written, so that the   *)
(* report and the status agree wherever it dies.                              *)

Agrees ==
  /\ status = "COMPLETED" => halt = "none"
  /\ status = "PAUSED" => halt \in {"resumable", "none"}
  /\ status = "FAILED" => halt \in {"broke", "none"}
ReportCleared == \A p \in Runners : pc[p] \in Looping \union {"cleared", "halting"} => halt = "none"
MarkedRunning == \A p \in Runners : pc[p] \in Looping \union {"halting", "halted"} => status = "RUNNING"
ReportWritten == \A p \in Runners : pc[p] = "halted" => halt = kind[p]

Told == Agrees /\ ReportCleared /\ MarkedRunning /\ ReportWritten

LEMMA ToldInit == Init => Told
BY DEF Init, Told, Agrees, ReportCleared, MarkedRunning, ReportWritten, Looping

LEMMA ToldStep ==
  ASSUME Accidents = {}, DataOK, Orderly, Told, [Next]_vars
  PROVE  Told'
<1>1. \A p, q \in Drivers : p = q
  BY DEF Orderly, Drivers, Held, Owns
<1>2. folder
  BY DEF Orderly, Calm
<1> USE <1>1 DEF Drivers, Driving, Looping, Told, Agrees, ReportCleared, MarkedRunning, ReportWritten,
                 DataOK, HaltKinds, Goto, Awake, fileVars
<1>3. ASSUME NEW p \in Runners, Submit(p) \/ Resume(p) PROVE Told'
  BY <1>3 DEF Submit, Resume
<1>4. ASSUME NEW p \in Runners, Session(p) PROVE Told'
  <2>1. CASE CheckAlive(p)
    BY <2>1 DEF CheckAlive
  <2>2. CASE TakeRecord(p)
    BY <2>2 DEF TakeRecord
  <2>3. CASE ClearHalt(p)
    BY <2>3 DEF ClearHalt
  <2>4. CASE MarkRunning(p)
    BY <2>4, <1>2 DEF MarkRunning
  <2>5. CASE Boundary(p)
    BY <2>5 DEF Boundary
  <2>6. CASE Complete(p)
    BY <2>6 DEF Complete
  <2>7. CASE Halts(p)
    BY <2>7 DEF Halts
  <2>8. CASE WriteHalt(p)
    BY <2>8 DEF WriteHalt
  <2>9. CASE SetHalted(p)
    BY <2>9, <1>2 DEF SetHalted
  <2>10. CASE CloseRecord(p)
    BY <2>10 DEF CloseRecord
  <2>11. CASE Exit(p)
    BY <2>11 DEF Exit
  <2>12. CASE Round(p)
    BY <2>12 DEF Round
  <2>13. CASE RoundDone(p)
    BY <2>13 DEF RoundDone
  <2>14. CASE WaitAtGate(p)
    BY <2>14 DEF WaitAtGate
  <2>15. CASE GateAnswered(p)
    BY <2>15 DEF GateAnswered
  <2> QED
    BY <1>4, <2>1, <2>2, <2>3, <2>4, <2>5, <2>6, <2>7, <2>8, <2>9, <2>10, <2>11, <2>12, <2>13,
         <2>14, <2>15 DEF Session
<1>5. ASSUME NEW p \in Runners, Heartbeat(p) PROVE Told'
  BY <1>5 DEF Heartbeat, Beat, BeatDump, BeatWrite
<1>6. ASSUME NEW p \in Runners, Suspend(p) \/ Wake(p) \/ Die(p) PROVE Told'
  BY <1>6 DEF Suspend, Wake, Die
<1>7. ASSUME Quiet \/ Cancel \/ DeleteCheck \/ DeleteFolder PROVE Told'
  BY <1>7 DEF Quiet, Cancel, DeleteCheck, DeleteFolder
<1>8. CASE UNCHANGED vars
  BY <1>8 DEF vars
<1> QED
  BY <1>3, <1>4, <1>5, <1>6, <1>7, <1>8 DEF Next

\* A run at rest tells one story: the halt report is that of the session that set the status,
\* wherever runners were killed (driver/runner.py `begin`, `_halt`).
THEOREM ReportAndStatusAgree ==
  ASSUME Accidents = {}
  PROVE  Spec => []RestStateAgrees
<1>1. DataOK /\ Orderly /\ Told /\ [Next]_vars => Told'
  BY ToldStep
<1>2. Told => RestStateAgrees
  BY DEF Told, Agrees, RestStateAgrees
<1> QED
  BY <1>1, <1>2, ToldInit, OrderlyInvariant, PTL DEF Spec

\* What `handle` says of a run is true (layers/runner.py `_handle`).
THEOREM ReportCanBeTrusted ==
  ASSUME Accidents = {}
  PROVE  Spec => []ReportIsTrue
BY NeverStaleWhileDriven, RunningMeansDriven, ReportAndStatusAgree, PTL DEF ReportIsTrue
==============================================================================
