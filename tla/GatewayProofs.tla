----------------------------- MODULE GatewayProofs -----------------------------
(***************************************************************************)
(* What holds of the run folders and their index for any number of        *)
(* starters, folders, runs and listings, and of the dashboard that shows   *)
(* them for any number of steps, stages, marks, refreshes and clicks.      *)
(***************************************************************************)
EXTENDS Gateway, Dashboard, WellFoundedInduction, TLAPS

USE GatewayAssumption

StarterPcs == {"idle", "look", "create", "write", "raise", "register", "enter", "submit"}

StarterType == [pc : StarterPcs, at : Folders, run : 0..MaxRuns, new : BOOLEAN, hand : BOOLEAN]

\* What a call becomes in a step is of its kind.
LEMMA CallsKeepTheirKind ==
  ASSUME NEW x \in StarterType, NEW pc \in StarterPcs, NEW f \in Folders, NEW r \in 0..MaxRuns
  PROVE  /\ [x EXCEPT !.pc = pc] \in StarterType /\ [x EXCEPT !.at = f] \in StarterType
         /\ [x EXCEPT !.pc = pc, !.new = TRUE] \in StarterType
         /\ [x EXCEPT !.pc = pc, !.run = r] \in StarterType
         /\ [x EXCEPT !.pc = pc, !.at = f, !.run = r] \in StarterType
         /\ [x EXCEPT !.pc = pc, !.at = f, !.hand = TRUE] \in StarterType
BY DEF StarterType

\* A call at rest is of its kind.
LEMMA IdleIsACall == Idle \in StarterType /\ 1 \in Folders /\ None \in 0..MaxRuns
BY DEF Idle, StarterType, StarterPcs, Folders, None

\* Who raises a ceiling read a run's record.
RaisedIsARun == \A s \in Starters : starter[s].pc = "raise" => starter[s].run # None

\* The kinds of the variables, and what a raised ceiling holds.
LEMMA TypesAndRaised == Spec => [](TypeOK /\ RaisedIsARun)
<1>1. Init => TypeOK /\ RaisedIsARun
  BY DEF Init, TypeOK, RaisedIsARun, Folders, None, Idle, Rest, NoDelete
<1>3. TypeOK /\ RaisedIsARun /\ [Next]_vars => RaisedIsARun'
  <2> SUFFICES ASSUME TypeOK, RaisedIsARun, [Next]_vars PROVE RaisedIsARun'
    OBVIOUS
  <2> USE DEF TypeOK, RaisedIsARun
  <2>1. ASSUME NEW s \in Starters, NEW f \in Folders, RaiseCeiling(s, f) PROVE RaisedIsARun'
    <3>1. starter'[s].run = folder[f] /\ \A z \in Starters \ {s} : starter'[z] = starter[z]
      BY <2>1 DEF RaiseCeiling, Idle
    <3> QED
      BY <2>1, <3>1 DEF RaiseCeiling
  <2>2. ASSUME NEW s \in Starters, starter'[s].pc # "raise",
               \A z \in Starters \ {s} : starter'[z] = starter[z]
        PROVE  RaisedIsARun'
    BY <2>2
  <2>3. CASE UNCHANGED starter
    BY <2>3
  <2>4. ASSUME NEW s \in Starters,
               \/ Start(s) \/ Look(s) \/ Free(s) \/ Create(s) \/ Write(s) \/ WriteCeiling(s)
               \/ Register(s) \/ Enter(s) \/ Submit(s) \/ \E f \in Folders : RunByHand(s, f)
        PROVE  RaisedIsARun'
    <3>1. starter'[s].pc # "raise"
      <4>1. CASE Start(s)
        BY <4>1 DEF Start, Idle
      <4>2. CASE Look(s)
        BY <4>2 DEF Look
      <4>3. CASE Free(s) \/ Create(s) \/ Register(s) \/ Enter(s) \/ Submit(s)
        BY <4>3 DEF Free, Create, Register, Enter, Submit, Set, Idle
      <4>4. CASE Write(s)
        BY <4>4 DEF Write, Idle
      <4>6. CASE WriteCeiling(s)
        BY <4>6 DEF WriteCeiling
      <4>5. CASE \E f \in Folders : RunByHand(s, f)
        BY <4>5 DEF RunByHand, Idle
      <4> QED
        BY <2>4, <4>1, <4>2, <4>3, <4>4, <4>5, <4>6
    <3>2. \A z \in Starters \ {s} : starter'[z] = starter[z]
      BY <2>4 DEF Start, Look, Free, Create, Write, WriteCeiling, Register, Enter, Submit, RunByHand, Set
    <3> QED
      BY <2>2, <3>1, <3>2
  <2> QED
    BY <2>1, <2>3, <2>4
    DEF Next, List, Scan, ScanEnter, Rows, Listed, DeleteFolder, DropRow, DeleteCut, Delete, Forget,
        Remember, RemoveByHand, vars, work
<1>2. TypeOK /\ RaisedIsARun /\ [Next]_vars => TypeOK'
  <2> SUFFICES ASSUME TypeOK, RaisedIsARun, [Next]_vars PROVE TypeOK'
    OBVIOUS
  <2> USE DEF TypeOK, bounds, past, work
  <2>0. Idle \in StarterType /\ 1 \in Folders /\ None \in 0..MaxRuns
    BY IdleIsACall
  <2>c. ASSUME NEW s \in Starters, NEW x \in StarterType, starter' = [starter EXCEPT ![s] = x]
        PROVE  starter' \in [Starters -> StarterType]
    BY <2>c DEF StarterType, StarterPcs
  <2>d. \A s \in Starters : starter[s] \in StarterType
    BY DEF StarterType, StarterPcs
  <2>e. ASSUME NEW s \in Starters, NEW pc \in StarterPcs, Set(s, pc)
        PROVE  starter' \in [Starters -> StarterType]
    <3>1. [starter[s] EXCEPT !.pc = pc] \in StarterType
      BY <2>d, <2>0, CallsKeepTheirKind
    <3> QED
      BY <2>c, <2>e, <2>0, <3>1 DEF Set
  <2>b. MaxFolders \in Nat /\ MaxRuns \in Nat /\ MaxLists \in Nat /\ MaxHands \in Nat
    OBVIOUS
  <2>n. list.at \in Folders => ToNext \in [pc : {"rows", "scan"}, at : Folders, rows : SUBSET Folders]
    <3>1. list.at # MaxFolders /\ list.at \in Folders => list.at + 1 \in Folders
      BY <2>b DEF Folders
    <3> QED
      BY <2>0, <3>1 DEF ToNext
  <2>1. ASSUME NEW s \in Starters, Start(s) PROVE TypeOK'
    <3>1. [Idle EXCEPT !.pc = "look"] \in StarterType
      BY <2>0, CallsKeepTheirKind DEF StarterPcs
    <3> QED
      BY <2>1, <2>c, <3>1 DEF Start, StarterType, StarterPcs
  <2>2. ASSUME NEW s \in Starters, Look(s) PROVE TypeOK'
    <3>1. starter[s].at + 1 \in Folders
      BY <2>2, <2>b DEF Look, Folders
    <3>2. [starter[s] EXCEPT !.at = starter[s].at + 1] \in StarterType
      BY <2>d, <3>1, CallsKeepTheirKind, <2>0 DEF StarterPcs
    <3>3. starter' = [starter EXCEPT ![s] = [starter[s] EXCEPT !.at = starter[s].at + 1]]
      BY <2>2 DEF Look
    <3> QED
      BY <2>2, <2>c, <3>2, <3>3 DEF Look, StarterType, StarterPcs
  <2>3. ASSUME NEW s \in Starters, Free(s) PROVE TypeOK'
    BY <2>3, <2>e DEF Free, StarterType, StarterPcs
  <2>4. ASSUME NEW s \in Starters, Create(s) PROVE TypeOK'
    BY <2>4, <2>e DEF Create, StarterType, StarterPcs
  <2>r. ASSUME NEW s \in Starters, NEW r \in 1..MaxRuns, Record(s, starter[s].at, r)
        PROVE  /\ folder' \in [Folders -> 0..MaxRuns]
               /\ lost' \subseteq 1..MaxRuns /\ together' \subseteq 1..MaxRuns /\ there' \subseteq 1..MaxRuns
               /\ raced' \subseteq Folders /\ taken' \subseteq Folders /\ cut' \subseteq Folders
    <3>1. starter[s].at \in Folders /\ folder[starter[s].at] \in 0..MaxRuns /\ r \in 0..MaxRuns
      BY <2>b
    <3>2. folder[starter[s].at] # None => folder[starter[s].at] \in 1..MaxRuns
      BY <3>1, <2>b DEF None
    <3>3. folder' \in [Folders -> 0..MaxRuns] /\ raced' \subseteq Folders /\ taken' \subseteq Folders /\ cut' \subseteq Folders
      BY <2>r, <3>1 DEF Record, Filled
    <3>4. lost' \subseteq 1..MaxRuns
      BY <2>r, <3>2 DEF Record
    <3>5. together' \subseteq 1..MaxRuns /\ there' \subseteq 1..MaxRuns
      BY <2>r DEF Record
    <3> QED
      BY <3>3, <3>4, <3>5
  <2>5. ASSUME NEW s \in Starters, Write(s) PROVE TypeOK'
    <3>1. runs + 1 \in 1..MaxRuns /\ runs' = runs + 1 /\ Record(s, starter[s].at, runs + 1)
      BY <2>5, <2>b DEF Write
    <3>2. starter' \in [Starters -> StarterType]
      <4>1. [starter[s] EXCEPT !.pc = "register", !.new = TRUE] \in StarterType
        BY <2>d, <2>0, CallsKeepTheirKind DEF StarterPcs
      <4>2. starter' = [starter EXCEPT ![s] = IF starter[s].hand THEN Idle
                          ELSE [starter[s] EXCEPT !.pc = "register", !.new = TRUE]]
        BY <2>5 DEF Write
      <4> QED
        BY <4>1, <4>2, <2>0, <2>c
    <3>3. runs' \in 0..MaxRuns
      BY <3>1, <2>b
    <3> QED
      BY <2>5, <2>r, <3>1, <3>2, <3>3 DEF Write, StarterType, StarterPcs
  <2>6. ASSUME NEW s \in Starters, NEW f \in Folders, RaiseCeiling(s, f) PROVE TypeOK'
    <3>1. [Idle EXCEPT !.pc = "raise", !.at = f, !.run = folder[f]] \in StarterType
      BY <2>0, CallsKeepTheirKind DEF StarterPcs
    <3> QED
      BY <2>6, <2>c, <3>1 DEF RaiseCeiling, StarterType, StarterPcs
  <2>22. ASSUME NEW s \in Starters, WriteCeiling(s) PROVE TypeOK'
    <3>1. starter[s].run \in 1..MaxRuns
      BY <2>22 DEF WriteCeiling, RaisedIsARun, None
    <3>2. [starter[s] EXCEPT !.pc = "register", !.run = None] \in StarterType
      BY <2>d, <2>0, CallsKeepTheirKind DEF StarterPcs
    <3>3. starter' = [starter EXCEPT ![s] = [starter[s] EXCEPT !.pc = "register", !.run = None]]
      BY <2>22 DEF WriteCeiling
    <3> QED
      BY <2>22, <2>c, <2>r, <3>1, <3>2, <3>3 DEF WriteCeiling, StarterType, StarterPcs
  <2>23. ASSUME NEW s \in Starters, NEW f \in Folders, RunByHand(s, f) PROVE TypeOK'
    <3>1. [Idle EXCEPT !.pc = "create", !.at = f, !.hand = TRUE] \in StarterType
      BY <2>0, CallsKeepTheirKind DEF StarterPcs
    <3>2. hands' \in 0..MaxHands
      BY <2>b, <2>23 DEF RunByHand
    <3> QED
      BY <2>23, <2>c, <3>1, <3>2 DEF RunByHand, StarterType, StarterPcs
  <2>7. ASSUME NEW s \in Starters, Register(s) PROVE TypeOK'
    BY <2>7, <2>e DEF Register, StarterType, StarterPcs
  <2>8. ASSUME NEW s \in Starters, Enter(s) PROVE TypeOK'
    BY <2>8, <2>e DEF Enter, StarterType, StarterPcs, Entered
  <2>9. ASSUME NEW s \in Starters, Submit(s) PROVE TypeOK'
    BY <2>9, <2>e DEF Submit, StarterType, StarterPcs
  <2>10. ASSUME List PROVE TypeOK'
    <3>1. Unhidden \subseteq 1..MaxRuns
      BY DEF Unhidden, None
    <3> QED
      BY <2>0, <2>10, <3>1 DEF List
  <2>11. ASSUME Scan PROVE TypeOK'
    BY <2>n, <2>11 DEF Scan
  <2>12. ASSUME ScanEnter PROVE TypeOK'
    BY <2>n, <2>12 DEF ScanEnter, Entered
  <2>13. ASSUME Rows PROVE TypeOK'
    BY <2>13 DEF Rows
  <2>14. ASSUME Listed PROVE TypeOK'
    BY <2>0, <2>14 DEF Listed, Rest
  <2>15. ASSUME NEW f \in Folders, Delete(f) PROVE TypeOK'
    BY <2>15 DEF Delete
  <2>16. ASSUME DeleteFolder PROVE TypeOK'
    BY <2>0, <2>16 DEF DeleteFolder, NoDelete, Gone, None
  <2>17. ASSUME DropRow PROVE TypeOK'
    BY <2>0, <2>17 DEF DropRow, NoDelete, Filled
  <2>18. ASSUME NEW f \in Folders, Forget(f) \/ Remember(f) PROVE TypeOK'
    <3>1. hands' \in 0..MaxHands
      BY <2>b, <2>18 DEF Forget, Remember
    <3>2. PICK v \in {"shown", "hidden"} : row' = [row EXCEPT ![f] = v]
      <4>1. CASE Forget(f)
        BY <4>1 DEF Forget
      <4>2. CASE Remember(f)
        BY <4>2 DEF Remember
      <4> QED
        BY <2>18, <4>1, <4>2
    <3>3. row' \in [Folders -> {"none", "shown", "hidden"}]
      BY <3>2
    <3>4. there' \subseteq there
      <4>1. CASE Forget(f)
        BY <4>1 DEF Forget
      <4>2. CASE Remember(f)
        BY <4>2 DEF Remember
      <4> QED
        BY <2>18, <4>1, <4>2
    <3> QED
      BY <2>18, <3>1, <3>3, <3>4 DEF Forget, Remember
  <2>19. ASSUME DeleteCut PROVE TypeOK'
    BY <2>0, <2>19 DEF DeleteCut, NoDelete
  <2>20. ASSUME NEW f \in Folders, RemoveByHand(f) PROVE TypeOK'
    <3>1. hands' \in 0..MaxHands
      BY <2>b, <2>20 DEF RemoveByHand
    <3>2. /\ folder' \in [Folders -> 0..MaxRuns] /\ there' \subseteq 1..MaxRuns
      <4>1. folder' = [folder EXCEPT ![f] = 0] /\ there' = there \ {folder[f]}
        BY <2>20 DEF RemoveByHand, Gone, None
      <4>2. 0 \in 0..MaxRuns
        BY <2>b
      <4> QED
        BY <4>1, <4>2
    <3>3. raced' \subseteq Folders /\ taken' \subseteq Folders
      BY <2>20 DEF RemoveByHand, Gone
    <3> QED
      BY <2>20, <3>1, <3>2, <3>3 DEF RemoveByHand
  <2>21. CASE UNCHANGED vars
    BY <2>21 DEF vars
  <2> QED
    BY <2>1, <2>2, <2>3, <2>4, <2>5, <2>6, <2>7, <2>8, <2>9, <2>10, <2>11, <2>12, <2>13,
       <2>14, <2>15, <2>16, <2>17, <2>18, <2>19, <2>20, <2>21, <2>22, <2>23 DEF Next
<1> QED
  BY <1>1, <1>2, <1>3, PTL DEF Spec

\* Every variable keeps a value of its kind.
THEOREM TypeCorrect == Spec => []TypeOK
BY TypesAndRaised, PTL

------------------------------------------------------------------------------
\* Who is past the last look writes over another run only if that run came in since, which is
\* then on the list of those that came while somebody was about to write.
ReplacedIsRaced ==
  \A s \in Starters :
    Writing(s, starter[s].at) /\ folder[starter[s].at] \notin {None, starter[s].run} =>
      folder[starter[s].at] \in together

\* Who is about to write a new run has read no run.
NewReadNothing == \A s \in Starters : starter[s].pc # "raise" => starter[s].run = None

\* No start, restart by hand, delete or raised ceiling replaces the record of a run, but for one
\* that came in after the writer's last look (gateway/api.py `run`, state/run.py `create`,
\* `update`).
THEOREM NothingIsReplaced == Spec => []RunIsNeverReplaced
<1> DEFINE Inv == ReplacedIsRaced /\ NewReadNothing /\ RunIsNeverReplaced
<1>1. Init => Inv
  BY DEF Init, ReplacedIsRaced, NewReadNothing, RunIsNeverReplaced, Writing, Idle
<1>2. TypeOK /\ Inv /\ [Next]_vars => Inv'
  <2> SUFFICES ASSUME TypeOK, Inv, [Next]_vars PROVE Inv'
    OBVIOUS
  <2> USE DEF TypeOK, ReplacedIsRaced, NewReadNothing, RunIsNeverReplaced, bounds, past, work
  <2>r. ASSUME NEW s \in Starters, NEW r, Record(s, starter[s].at, r),
               starter[s].pc \in {"write", "raise"}, starter[s].run \in {None, r},
               starter'[s].pc \notin {"write", "raise"}, starter'[s].run = None,
               \A z \in Starters \ {s} : starter'[z] = starter[z]
        PROVE  Inv'
    <3> DEFINE f == starter[s].at
    <3>1. lost' \subseteq together'
      <4>1. folder[f] \notin {None, r} => folder[f] \in together
        BY <2>r DEF Writing
      <4> QED
        BY <2>r, <4>1 DEF Record
    <3>2. ASSUME NEW z \in Starters, starter'[z].pc \in {"write", "raise"},
                 folder'[starter'[z].at] \notin {None, starter'[z].run}
          PROVE  folder'[starter'[z].at] \in together'
      <4>1. z # s /\ starter'[z] = starter[z]
        BY <2>r, <3>2
      <4>2. CASE starter[z].at = f
        <5>1. Writing(z, f)
          BY <3>2, <4>1, <4>2 DEF Writing
        <5>2. folder'[f] = r /\ r \in together'
          BY <2>r, <4>1, <5>1 DEF Record
        <5> QED
          BY <4>1, <4>2, <5>2
      <4>3. CASE starter[z].at # f
        <5>1. folder'[starter[z].at] = folder[starter[z].at]
          BY <2>r, <4>3 DEF Record
        <5> QED
          BY <2>r, <3>2, <4>1, <5>1 DEF Record, Writing
      <4> QED
        BY <4>2, <4>3
    <3> QED
      BY <2>r, <3>1, <3>2 DEF Writing
  <2>1. ASSUME NEW s \in Starters, Write(s) PROVE Inv'
    <3>1. starter'[s].pc \notin {"write", "raise"} /\ starter'[s].run = None
      BY <2>1 DEF Write, Idle
    <3>2. \A z \in Starters \ {s} : starter'[z] = starter[z]
      BY <2>1 DEF Write
    <3> QED
      BY <2>1, <2>r, <3>1, <3>2 DEF Write
  <2>2. ASSUME NEW s \in Starters, WriteCeiling(s) PROVE Inv'
    <3>1. starter'[s].pc \notin {"write", "raise"} /\ starter'[s].run = None
      BY <2>2 DEF WriteCeiling
    <3>2. \A z \in Starters \ {s} : starter'[z] = starter[z]
      BY <2>2 DEF WriteCeiling
    <3> QED
      BY <2>2, <2>r, <3>1, <3>2 DEF WriteCeiling
  <2>3. ASSUME NEW f \in Folders, Gone(f), UNCHANGED <<starter, together, lost>> PROVE Inv'
    BY <2>3 DEF Gone, Writing
  <2>4. ASSUME NEW s \in Starters, Create(s) PROVE Inv'
    BY <2>4 DEF Create, Set, Idle, Writing
  <2>5. ASSUME NEW s \in Starters,
               \/ Start(s) \/ Look(s) \/ Free(s) \/ Register(s) \/ Enter(s) \/ Submit(s)
               \/ \E f \in Folders : RunByHand(s, f)
        PROVE  Inv'
    <3>1. UNCHANGED <<folder, together, lost>> /\ \A z \in Starters \ {s} : starter'[z] = starter[z]
      BY <2>5 DEF Start, Look, Free, Register, Enter, Submit, RunByHand, Set
    <3>2. starter'[s].pc \notin {"write", "raise"} /\ starter'[s].run = None
      <4>1. CASE Start(s)
        BY <4>1 DEF Start, Idle
      <4>2. CASE Look(s)
        BY <4>2 DEF Look
      <4>3. CASE Free(s) \/ Register(s) \/ Enter(s) \/ Submit(s)
        BY <4>3 DEF Free, Register, Enter, Submit, Set, Idle
      <4>4. CASE \E f \in Folders : RunByHand(s, f)
        BY <4>4 DEF RunByHand, Idle
      <4> QED
        BY <2>5, <4>1, <4>2, <4>3, <4>4
    <3> QED
      BY <3>1, <3>2 DEF Writing
  <2>7. ASSUME NEW s \in Starters, NEW f \in Folders, RaiseCeiling(s, f) PROVE Inv'
    <3>1. /\ UNCHANGED <<folder, together, lost>>
          /\ \A z \in Starters \ {s} : starter'[z] = starter[z]
          /\ starter'[s].pc = "raise" /\ starter'[s].at = f /\ starter'[s].run = folder[f]
      BY <2>7 DEF RaiseCeiling, Idle
    <3> QED
      BY <3>1 DEF Writing
  <2>6. CASE UNCHANGED <<folder, starter, together, lost>>
    BY <2>6 DEF Writing
  <2> QED
    BY <2>1, <2>2, <2>3, <2>4, <2>5, <2>6, <2>7
    DEF Next, List, Scan, ScanEnter, Rows, Listed, DeleteFolder, DropRow, DeleteCut, Delete, Forget,
        Remember, RemoveByHand, vars
<1> QED
  BY <1>1, <1>2, TypeCorrect, PTL DEF Spec

------------------------------------------------------------------------------
\* Whoever is about to enter a folder that is gone met its removal.
EntryIsRaced == \A f \in Folders : Entering(f) /\ folder[f] = None => f \in raced \union taken

\* A row whose folder is gone is left only by a removal by hand, by a delete that was cut between
\* the two, by somebody who had read the record before the folder went, or while the delete that
\* took the folder still comes to it (gateway/api.py `delete`).
THEOREM RowsWithoutFolder == Spec => []GhostsHaveCauses
<1> DEFINE Inv == EntryIsRaced /\ GhostsHaveCauses
<1>1. Init => Inv
  BY DEF Init, EntryIsRaced, GhostsHaveCauses, Entering, Idle, Rest
<1>2. TypeOK /\ RaisedIsARun /\ Inv /\ [Next]_vars => Inv'
  <2> SUFFICES ASSUME TypeOK, RaisedIsARun, Inv, [Next]_vars PROVE Inv'
    OBVIOUS
  <2> USE DEF TypeOK, EntryIsRaced, GhostsHaveCauses, Entering, bounds, past, work
  <2>1. ASSUME NEW s \in Starters, Start(s) \/ Look(s) \/ Free(s) \/ Create(s) \/ Submit(s)
               \/ \E f \in Folders : RaiseCeiling(s, f) \/ RunByHand(s, f)
        PROVE  Inv'
    <3>3. \A z \in Starters \ {s} : starter'[z] = starter[z]
      BY <2>1 DEF Start, Look, Free, Create, Submit, RaiseCeiling, RunByHand, Set
    <3>1. starter'[s].pc # "enter"
      <4>1. CASE Start(s)
        BY <4>1 DEF Start, Idle
      <4>2. CASE Look(s)
        BY <4>2 DEF Look
      <4>3. CASE Free(s) \/ Create(s) \/ Submit(s)
        BY <4>3 DEF Free, Create, Submit, Set, Idle
      <4>4. CASE \E f \in Folders : RaiseCeiling(s, f)
        BY <4>4 DEF RaiseCeiling, Idle
      <4>5. CASE \E f \in Folders : RunByHand(s, f)
        BY <4>5 DEF RunByHand, Idle
      <4> QED
        BY <2>1, <4>1, <4>2, <4>3, <4>4, <4>5
    <3>2. UNCHANGED <<folder, row, list, del, raced, taken, cut>>
      BY <2>1 DEF Start, Look, Free, Create, Submit, RaiseCeiling, RunByHand
    <3> QED
      BY <3>1, <3>2, <3>3
  <2>r. ASSUME NEW s \in Starters, NEW r \in 1..MaxRuns, Record(s, starter[s].at, r),
               starter'[s].pc # "enter", \A z \in Starters \ {s} : starter'[z] = starter[z],
               UNCHANGED <<row, list, del>>
        PROVE  Inv'
    <3>1. folder' = [folder EXCEPT ![starter[s].at] = r] /\ r # None
      BY <2>r DEF Record, None
    <3>2. \A f \in Folders : folder'[f] = None => f # starter[s].at /\ folder[f] = None
      BY <3>1
    <3>3. \A f \in Folders : f # starter[s].at =>
            (f \in raced' <=> f \in raced) /\ (f \in taken' <=> f \in taken) /\ (f \in cut' <=> f \in cut)
      BY <2>r DEF Record, Filled
    <3> QED
      BY <2>r, <3>2, <3>3
  <2>2. ASSUME NEW s \in Starters, Write(s) \/ WriteCeiling(s) PROVE Inv'
    <3>4. \A z \in Starters \ {s} : starter'[z] = starter[z]
      BY <2>2 DEF Write, WriteCeiling
    <3>1. starter'[s].pc # "enter"
      <4>1. CASE Write(s)
        BY <4>1 DEF Write, Idle
      <4>2. CASE WriteCeiling(s)
        BY <4>2 DEF WriteCeiling
      <4> QED
        BY <2>2, <4>1, <4>2
    <3>2. CASE Write(s)
      <4>1. runs + 1 \in 1..MaxRuns
        BY <3>2 DEF Write
      <4> QED
        BY <2>r, <3>1, <3>2, <3>4, <4>1 DEF Write
    <3>3. CASE WriteCeiling(s)
      <4>1. starter[s].run \in 1..MaxRuns
        BY <3>3 DEF WriteCeiling, RaisedIsARun, None
      <4> QED
        BY <2>r, <3>1, <3>3, <3>4, <4>1 DEF WriteCeiling
    <3> QED
      BY <2>2, <3>2, <3>3
  <2>3. ASSUME NEW s \in Starters, Register(s) PROVE Inv'
    <3>1. \A z \in Starters \ {s} : starter'[z] = starter[z]
      BY <2>3 DEF Register, Set
    <3>2. starter'[s].pc = "enter" => starter'[s].at = starter[s].at /\ folder[starter[s].at] # None
      BY <2>3 DEF Register, Set, Idle
    <3>3. UNCHANGED <<folder, row, list, del, raced, taken, cut>>
      BY <2>3 DEF Register
    <3> QED
      BY <3>1, <3>2, <3>3
  <2>4. ASSUME NEW s \in Starters, Enter(s) PROVE Inv'
    <3>1. starter'[s].pc # "enter" /\ \A z \in Starters \ {s} : starter'[z] = starter[z]
      BY <2>4 DEF Enter, Set, Idle
    <3>2. row' = Entered(starter[s].at) /\ UNCHANGED <<folder, list, del, raced, taken, cut>>
      BY <2>4 DEF Enter
    <3>3. folder[starter[s].at] = None => starter[s].at \in raced \union taken
      BY <2>4 DEF Enter
    <3> QED
      BY <3>1, <3>2, <3>3 DEF Entered
  <2>5. ASSUME Scan PROVE Inv'
    BY <2>5 DEF Scan, ToNext
  <2>6. ASSUME ScanEnter PROVE Inv'
    BY <2>6 DEF ScanEnter, ToNext, Entered
  <2>7. ASSUME List \/ Rows \/ Listed PROVE Inv'
    <3>1. list'.pc # "enter"
      <4>1. CASE List
        BY <4>1 DEF List
      <4>2. CASE Rows
        <5>1. list'.pc = "listed"
          BY <4>2 DEF Rows
        <5> QED
          BY <5>1
      <4>3. CASE Listed
        BY <4>3 DEF Listed, Rest
      <4> QED
        BY <2>7, <4>1, <4>2, <4>3
    <3>2. UNCHANGED <<folder, row, starter, del, raced, taken, cut>>
      BY <2>7 DEF List, Rows, Listed
    <3> QED
      BY <3>1, <3>2
  <2>8. ASSUME NEW f \in Folders, Delete(f) PROVE Inv'
    BY <2>8 DEF Delete
  <2>9. ASSUME DeleteFolder PROVE Inv'
    BY <2>9 DEF DeleteFolder, Gone, NoDelete
  <2>10. ASSUME DropRow PROVE Inv'
    BY <2>10 DEF DropRow, NoDelete, Filled
  <2>11. ASSUME NEW f \in Folders, Forget(f) \/ Remember(f) PROVE Inv'
    BY <2>11 DEF Forget, Remember
  <2>12. ASSUME DeleteCut PROVE Inv'
    BY <2>12 DEF DeleteCut, NoDelete
  <2>13. ASSUME NEW f \in Folders, RemoveByHand(f) PROVE Inv'
    BY <2>13 DEF RemoveByHand, Gone
  <2>14. CASE UNCHANGED vars
    BY <2>14 DEF vars
  <2> QED
    BY <2>1, <2>2, <2>3, <2>4, <2>5, <2>6, <2>7, <2>8, <2>9, <2>10, <2>11, <2>12, <2>13, <2>14
    DEF Next
<1> QED
  BY <1>1, <1>2, TypesAndRaised, PTL DEF Spec

------------------------------------------------------------------------------
\* Only a remember or a delete takes the mark of a forgotten folder away
\* (layers/registry.py `forget`).
THEOREM ForgottenIsForgotten == Spec => ForgottenStays
<1> DEFINE A == \A f \in Folders : row[f] = "hidden" /\ row'[f] # "hidden" =>
                  Remember(f) \/ (DropRow /\ del.at = f)
<1>1. TypeOK /\ [Next]_vars => [A]_vars
  <2> SUFFICES ASSUME TypeOK, Next PROVE A
    BY DEF vars
  <2> USE DEF TypeOK
  <2>1. ASSUME NEW g \in Folders, row' = Entered(g) PROVE A
    BY <2>1 DEF Entered
  <2>2. ASSUME NEW g \in Folders, Forget(g) \/ Remember(g) PROVE A
    BY <2>2 DEF Forget, Remember
  <2>3. ASSUME DropRow PROVE A
    BY <2>3 DEF DropRow
  <2>4. ASSUME UNCHANGED row PROVE A
    BY <2>4
  <2> QED
    BY <2>1, <2>2, <2>3, <2>4
    DEF Next, Start, Look, Free, Create, Write, WriteCeiling, Register, Enter, Submit, RaiseCeiling,
        List, Scan, ScanEnter, Rows, Listed, DeleteFolder, DeleteCut, Delete, RunByHand, RemoveByHand
<1> QED
  BY <1>1, TypeCorrect, PTL DEF Spec, ForgottenStays

------------------------------------------------------------------------------
\* The folders the listing is done with: it went past them, or took their rows.
Passed(f) ==
  CASE list.pc \in {"scan", "enter"} -> f < list.at
    [] list.pc = "rows" -> TRUE
    [] OTHER -> FALSE

\* A run that was in place all the time lives in a folder that is not hidden, has a row once the
\* scan has passed it, and is among the rows once they are taken.
ThereIsSeen ==
  \A r \in there : \E f \in Folders :
    /\ folder[f] = r /\ row[f] # "hidden"
    /\ Passed(f) => row[f] = "shown"
    /\ list.pc = "listed" => f \in list.rows

\* The scan and the read of the rows are many steps, between which runs start, go and are hidden:
\* whatever was there from the first to the last, and not hidden, is listed
\* (layers/registry.py `scan`, `refresh`).
THEOREM ListingIsComplete == Spec => []ListIsComplete
<1>1. Init => ThereIsSeen
  BY DEF Init, ThereIsSeen
<1>2. TypeOK /\ ThereIsSeen /\ [Next]_vars => ThereIsSeen'
  <2> SUFFICES ASSUME TypeOK, ThereIsSeen, [Next]_vars PROVE ThereIsSeen'
    OBVIOUS
  <2> USE DEF TypeOK, ThereIsSeen, Passed, bounds, past, work
  <2>1. ASSUME NEW s \in Starters,
               \/ Start(s) \/ Look(s) \/ Free(s) \/ Create(s) \/ Register(s) \/ Submit(s)
               \/ \E f \in Folders : RaiseCeiling(s, f) \/ RunByHand(s, f)
        PROVE  UNCHANGED <<folder, row, list, there>>
    BY <2>1 DEF Start, Look, Free, Create, Register, Submit, RaiseCeiling, RunByHand
  <2>2. ASSUME NEW s \in Starters, NEW r, Record(s, starter[s].at, r), UNCHANGED <<row, list>>
        PROVE  ThereIsSeen'
    <3>1. \A g \in Folders : folder[g] \in there' => folder'[g] = folder[g]
      BY <2>2 DEF Record
    <3>2. there' \subseteq there /\ UNCHANGED <<row, list>>
      BY <2>2 DEF Record
    <3> QED
      BY <3>1, <3>2
  <2>3. ASSUME NEW g \in Folders, row' = Entered(g), UNCHANGED <<folder, list, there>>
        PROVE  ThereIsSeen'
    BY <2>3 DEF Entered
  <2>4. ASSUME List PROVE ThereIsSeen'
    <3>1. \A f \in Folders : ~(f < 1)
      BY DEF Folders
    <3> QED
      BY <2>4, <3>1 DEF List, Unhidden
  <2>5. ASSUME Scan PROVE ThereIsSeen'
    <3>1. CASE folder[list.at] = None
      <4>1. \A f \in Folders : f < list.at + 1 => f < list.at \/ f = list.at
        BY DEF Folders
      <4>2. list.at = MaxFolders => \A f \in Folders : f < list.at \/ f = list.at
        BY DEF Folders
      <4>3. \A r \in there : r # None
        BY DEF None
      <4> QED
        BY <2>5, <3>1, <4>1, <4>2, <4>3 DEF Scan, ToNext
    <3>2. CASE folder[list.at] # None
      BY <2>5, <3>2 DEF Scan
    <3> QED
      BY <3>1, <3>2
  <2>6. ASSUME ScanEnter PROVE ThereIsSeen'
    <3>1. \A f \in Folders : f < list.at + 1 => f < list.at \/ f = list.at
      BY DEF Folders
    <3>2. list.at = MaxFolders => \A f \in Folders : f < list.at \/ f = list.at
      BY DEF Folders
    <3>3. /\ list.pc = "enter" /\ list' = ToNext /\ UNCHANGED <<folder, there>>
          /\ \A f \in Folders : row[f] # "hidden" =>
               row'[f] # "hidden" /\ (row[f] = "shown" \/ f = list.at => row'[f] = "shown")
      BY <2>6 DEF ScanEnter, Entered
    <3> QED
      BY <3>1, <3>2, <3>3 DEF ToNext
  <2>7. ASSUME Rows PROVE ThereIsSeen'
    BY <2>7 DEF Rows
  <2>8. ASSUME Listed PROVE ThereIsSeen'
    BY <2>8 DEF Listed
  <2>9. ASSUME NEW f \in Folders, Gone(f), UNCHANGED <<row, list>> PROVE ThereIsSeen'
    BY <2>9 DEF Gone
  <2>10. ASSUME DropRow PROVE ThereIsSeen'
    BY <2>10 DEF DropRow
  <2>11. ASSUME NEW f \in Folders, Forget(f) PROVE ThereIsSeen'
    BY <2>11 DEF Forget
  <2>12. ASSUME NEW f \in Folders, Remember(f) PROVE ThereIsSeen'
    BY <2>12 DEF Remember
  <2>13. ASSUME NEW s \in Starters, Write(s) \/ WriteCeiling(s) PROVE ThereIsSeen'
    BY <2>2, <2>13 DEF Write, WriteCeiling
  <2>14. ASSUME UNCHANGED <<folder, row, list, there>> PROVE ThereIsSeen'
    BY <2>14
  <2> QED
    BY <2>1, <2>2, <2>3, <2>4, <2>5, <2>6, <2>7, <2>8, <2>9, <2>10, <2>11, <2>12, <2>13, <2>14
    DEF Next, Enter, Delete, DeleteFolder, DeleteCut, RemoveByHand, vars
<1>3. ThereIsSeen => ListIsComplete
  BY DEF ThereIsSeen, ListIsComplete
<1> QED
  BY <1>1, <1>2, <1>3, TypeCorrect, PTL DEF Spec

------------------------------------------------------------------------------
(* The dashboard: what a view says of the reading it was made of. *)

HIDE GatewayAssumption

\* A set of naturals that is not empty has a least element.
LEMMA LeastOfNaturals ==
  ASSUME NEW T \in SUBSET Nat, T # {}
  PROVE  \E x \in T : \A y \in T : x <= y
<1>1. PICK x \in T : \A y \in T : <<y, x>> \notin OpToRel(<, Nat)
  BY NatLessThanWellFounded, WFMin
<1>2. \A y \in T : ~(y < x)
  BY <1>1 DEF OpToRel
<1> QED
  BY <1>2

\* A set of numbers from 1 to n that is not empty has a largest element.
LEMMA LargestOfInterval ==
  ASSUME NEW n \in Nat, NEW T \in SUBSET (1..n), T # {}
  PROVE  \E x \in T : \A y \in T : y <= x
<1> DEFINE U == {c \in Nat : \A x \in T : x <= c}
<1>1. n \in U
  OBVIOUS
<1>2. PICK c \in U : \A d \in U : c <= d
  BY <1>1, LeastOfNaturals
<1>3. SUFFICES ASSUME c \notin T PROVE FALSE
  BY <1>2
<1>4. \A x \in T : x \in Nat /\ x < c
  BY <1>2, <1>3
<1>5. c # 0
  <2>1. PICK x \in T : TRUE
    OBVIOUS
  <2>2. x \in Nat /\ x < c
    BY <1>4, <2>1
  <2> QED
    BY <1>2, <2>2
<1>6. c - 1 \in U
  BY <1>4, <1>5, <1>2
<1> QED
  BY <1>2, <1>6

Statuses == {"QUEUED", "RUNNING", "PAUSED", "FAILED", "COMPLETED"}
Halts == {"none", "resumable", "final"}
Log_ == Seq({"issued", "started", "asked", "done", "halt"} \X (Steps \union {NoGate}))

Readings ==
  [status : Statuses, steps : [Steps -> {"pending", "running", "done"}], log : Log_, halt : Halts,
   asks : SUBSET Steps, decided : SUBSET Steps, stop : BOOLEAN, stale : BOOLEAN]

\* The stage a page follows is one of the rail's (dashboard/model.py `build_view`).
LEMMA CurrentIsAStage ==
  ASSUME NEW d PROVE View(d).current \in Stages
<1> DEFINE n == Cardinality(Stages)
           f == Facts(d.log)
           running == d.status = "RUNNING" /\ ~d.stale
           rail == [s \in Stages |-> StageState(f, d, running, s)]
<1>1. n \in Nat \ {0} /\ Stages = 1..n
  BY RunViewAssumption
<1>2. View(d).current = Current(rail)
  BY DEF View
<1> HIDE DEF n, rail
<1>3. \A S \in SUBSET Stages : S # {} => (CHOOSE s \in S : \A t \in S : s <= t) \in Stages
  <2> SUFFICES ASSUME NEW S \in SUBSET Stages, S # {}
               PROVE  (CHOOSE s \in S : \A t \in S : s <= t) \in S
    OBVIOUS
  <2>1. S \in SUBSET Nat
    BY <1>1
  <2> QED
    BY <2>1, LeastOfNaturals
<1>4. \A S \in SUBSET Stages : S # {} => (CHOOSE s \in S : \A t \in S : t <= s) \in Stages
  BY <1>1, LargestOfInterval
<1>5. 1 \in Stages
  BY <1>1
<1> QED
  BY <1>2, <1>3, <1>4, <1>5 DEF Current

\* A stage's gate is a step of that stage whose ask is there and whose decision is not.
LEMMA GateOfStage ==
  ASSUME NEW d \in Readings, NEW s \in Stages, View(d).gates[s] # NoGate
  PROVE  View(d).gates[s] \in Steps /\ StageOf[View(d).gates[s]] = s
<1> DEFINE n == Cardinality(Steps)
           f == Facts(d.log)
           open == {k \in Keys(f, s) \intersect f.asked : f.status[k] # "done" /\ k \in d.asks \ d.decided}
<1>1. n \in Nat /\ Steps = 1..n
  BY RunViewAssumption
<1>2. View(d).gates[s] = StageGate(f, d, s)
  BY DEF View
<1>3. open \in SUBSET Steps
  BY DEF Readings
<1> HIDE DEF n, f
<1>4. open # {} /\ StageGate(f, d, s) = CHOOSE k \in open : \A j \in open : j <= k
  BY <1>2 DEF StageGate
<1>5. StageGate(f, d, s) \in open
  BY <1>1, <1>3, <1>4, LargestOfInterval
<1> QED
  BY <1>2, <1>3, <1>5 DEF Keys

\* A button that offers to answer has a gate to open.
LEMMA AnswerHasGate ==
  ASSUME NEW d, View(d).control.verb = "answer"
  PROVE  \E s \in Stages : View(d).gates[s] # NoGate
<1> DEFINE f == Facts(d.log)
           gates == [s \in Stages |-> StageGate(f, d, s)]
           gated == \E s \in Stages : gates[s] # NoGate
<1>1. View(d).gates = gates /\ View(d).control = Control(d, gated)
  BY DEF View
<1> HIDE DEF gates
<1>2. gated
  <2> HIDE DEF gated
  <2> QED
    BY <1>1 DEF Control
<1> QED
  BY <1>1, <1>2

------------------------------------------------------------------------------
(* The dashboard: every variable keeps its kind. *)

RunFiles ==
  [there : BOOLEAN, status : Statuses, steps : [Steps -> {"pending", "running", "done"}], log : Log_,
   halt : Halts, asks : SUBSET Steps, decided : SUBSET Steps, stop : BOOLEAN]
Sessions ==
  [pc : {"off", "open", "next", "start", "ask", "wait", "halting", "close"}, at : Steps \union {NoGate},
   late : BOOLEAN]
Views == {View(d) : d \in Readings}
HomeRows == {Row(d) : d \in Readings}
Pages ==
  [pc : {"idle", "state", "rest", "show"}, by : {"none", "person", "poll"}, seen : Readings,
   shown : Views, loaded : BOOLEAN, stale : BOOLEAN, since : BOOLEAN, torn : BOOLEAN,
   picked : Stages \union {NoStage}, polls : BOOLEAN]
Gated == Steps \union {NoGate}
Homes ==
  [pc : {"idle", "state", "rest"}, seen : Readings, row : HomeRows, cached : BOOLEAN, old : BOOLEAN,
   since : BOOLEAN, rows : SUBSET {This, Other}, other : BOOLEAN, ticked : SUBSET {This, Other},
   confirm : BOOLEAN, asked : SUBSET {This, Other}, status : {"all", "completed"}]

\* A session that starts, asks or waits is at a step.
AtAStep == session.pc \in {"start", "ask", "wait"} => session.at \in Steps

PagesTypeOK ==
  /\ files \in RunFiles /\ session \in Sessions /\ AtAStep
  /\ used \in [sessions : 0..MaxSessions, turns : 0..MaxTurns]
  /\ tab \in {"run", "home"}
  /\ page \in Pages /\ click \in [saw : Gated, picked : BOOLEAN]
  /\ astray \subseteq [saw : Gated, picked : BOOLEAN, did : Gated]
  /\ home \in Homes

\* The files of no run and of a new run, and the empty reading, are files and a reading.
LEMMA NoFilesAreFiles == NoFiles \in RunFiles /\ NewFiles \in RunFiles /\ NoReading \in Readings
<1>1. <<>> \in Log_
  BY DEF Log_
<1>2. Pending \in [Steps -> {"pending", "running", "done"}]
  BY DEF Pending
<1> QED
  BY <1>1, <1>2 DEF NoFiles, NewFiles, NoReading, RunFiles, Readings, Statuses, Halts

\* The first step belongs to a stage.
LEMMA FirstIsAStep ==
  ASSUME PagesTypeOK PROVE First \in Gated /\ (Undone # {} => First \in Steps)
<1>1. Steps \in SUBSET Nat
  BY RunViewAssumption
<1>2. Undone \in SUBSET Nat /\ Undone \in SUBSET Steps
  BY <1>1 DEF Undone
<1> QED
  BY <1>2, LeastOfNaturals DEF First, Gated

\* What is noticed changes flags only.
LEMMA NoticeKeepsKinds ==
  ASSUME NEW P \in Pages, NEW K \in Homes, NEW changed, Notice(P, K, changed)
  PROVE  page' \in Pages /\ home' \in Homes
<1>1. [P EXCEPT !.stale = TRUE, !.since = P.pc # "idle"] \in Pages
  BY DEF Pages
<1>2. [K EXCEPT !.old = K.cached, !.since = K.pc # "idle"] \in Homes
  BY DEF Homes
<1> QED
  BY <1>1, <1>2 DEF Notice

\* A line added to an event log leaves a log.
LEMMA LogKeepsKind ==
  ASSUME PagesTypeOK, NEW kind \in {"issued", "started", "asked", "done", "halt"}, NEW k \in Gated
  PROVE  Log(kind, k) \in Log_
  BY DEF PagesTypeOK, RunFiles, Log, Log_, Gated

\* What a step of the run may do: a session's step or other hands change the files, and the pages
\* are told.
LEMMA RunKeepsKinds ==
  ASSUME PagesTypeOK, Run
  PROVE  /\ files' \in RunFiles /\ session' \in Sessions /\ AtAStep'
         /\ used' \in [sessions : 0..MaxSessions, turns : 0..MaxTurns]
         /\ \E changed : Changed(changed)
<1> DEFINE Told_ == \E changed : Changed(changed)
           Goal == /\ files' \in RunFiles /\ session' \in Sessions /\ AtAStep'
                   /\ used' \in [sessions : 0..MaxSessions, turns : 0..MaxTurns]
<1>a. files \in RunFiles /\ session \in Sessions /\ AtAStep
      /\ used \in [sessions : 0..MaxSessions, turns : 0..MaxTurns]
  BY DEF PagesTypeOK
<1>b. MaxSessions \in Nat /\ MaxTurns \in Nat
  BY DashboardAssumption
<1>c. NoFiles \in RunFiles /\ NewFiles \in RunFiles
  BY NoFilesAreFiles
<1>d. Off \in Sessions /\ Off.pc = "off"
  BY DEF Off, Sessions
<1>e. First \in Gated /\ (Undone # {} => First \in Steps)
  BY FirstIsAStep
<1>f. Turn => used' \in [sessions : 0..MaxSessions, turns : 0..MaxTurns]
  BY <1>a, <1>b DEF Turn
<1>g. \A kind \in {"issued", "started", "asked", "done", "halt"}, k \in Gated : Log(kind, k) \in Log_
  BY LogKeepsKind
<1>h. \A h \in Halts, k \in Gated, stop \in BOOLEAN :
        HaltWith(h, k, stop) => files' \in RunFiles /\ session' \in Sessions /\ AtAStep'
  <2> SUFFICES ASSUME NEW h \in Halts, NEW k \in Gated, NEW stop \in BOOLEAN, HaltWith(h, k, stop)
               PROVE  files' \in RunFiles /\ session' \in Sessions /\ AtAStep'
    OBVIOUS
  <2>1. Log("halt", k) \in Log_
    BY <1>g
  <2>2. files' = [files EXCEPT !.halt = h, !.log = Log("halt", k), !.stop = stop]
    BY DEF HaltWith
  <2>3. files' \in RunFiles
    BY <1>a, <2>1, <2>2 DEF RunFiles
  <2>4. session' = [session EXCEPT !.pc = "halting"]
    BY DEF HaltWith, GoTo
  <2> QED
    BY <1>a, <2>3, <2>4 DEF Sessions, AtAStep
<1>1. CASE Open
  <2>1. session' = [Off EXCEPT !.pc = "open"] /\ files' = files
    BY <1>1 DEF Open
  <2>2. session' \in Sessions /\ AtAStep'
    BY <1>d, <2>1 DEF Sessions, AtAStep
  <2>3. used' = [used EXCEPT !.sessions = used.sessions + 1] /\ used.sessions < MaxSessions
    BY <1>1 DEF Open
  <2>4. used' \in [sessions : 0..MaxSessions, turns : 0..MaxTurns]
    BY <1>a, <1>b, <2>3
  <2> QED
    BY <1>1, <1>a, <2>1, <2>2, <2>4 DEF Open
<1>2. CASE ClearHalt
  BY <1>2, <1>a DEF ClearHalt, RunFiles, AtAStep, Halts
<1>3. CASE BeginRunning
  BY <1>3, <1>a DEF BeginRunning, RunFiles, Statuses, GoTo, Sessions, AtAStep
<1>4. CASE Issue
  <2>1. First \in Steps /\ Log("issued", First) \in Log_
    BY <1>4, <1>e, <1>g DEF Issue, Gated
  <2> QED
    BY <1>4, <1>a, <2>1 DEF Issue, RunFiles, GoToStep, Sessions, AtAStep
<1>4a. CASE IssuedBefore
  BY <1>4a, <1>a, <1>e DEF IssuedBefore, GoToStep, Sessions, AtAStep
<1>4b. CASE StartStep
  <2>1. session.at \in Steps /\ Log("started", session.at) \in Log_
    BY <1>4b, <1>a, <1>g DEF StartStep, At, AtAStep, Gated
  <2> QED
    BY <1>4b, <1>a, <2>1 DEF StartStep, RunFiles, GoTo, Sessions, AtAStep
<1>5. CASE Ask
  <2>1. session.at \in Steps /\ Log("asked", session.at) \in Log_
    BY <1>5, <1>a, <1>g DEF Ask, At, AtAStep, Gated
  <2> QED
    BY <1>5, <1>a, <2>1 DEF Ask, RunFiles, GoTo, Sessions, AtAStep
<1>6. CASE AskedBefore
  BY <1>6, <1>a DEF AskedBefore, GoTo, Sessions, AtAStep, At
<1>7. CASE Pass
  <2>1. Log("done", session.at) \in Log_
    BY <1>7, <1>a, <1>g DEF Gated, Sessions
  <2> QED
    BY <1>7, <1>a, <2>1 DEF Pass, RunFiles, GoTo, Sessions, AtAStep
<1>8. CASE Stopped
  BY <1>8, <1>a, <1>e, <1>h DEF Stopped, HaltWith, Halts
<1>9. CASE Fail
  <2>1. session.at \in Gated /\ files.stop \in BOOLEAN
    BY <1>a DEF Sessions, Gated, RunFiles
  <2> QED
    BY <1>9, <1>f, <1>h, <2>1 DEF Fail, HaltWith, Halts
<1>10. CASE HaltStatus
  BY <1>10, <1>a DEF HaltStatus, RunFiles, Statuses, GoTo, Sessions, AtAStep
<1>11. CASE Complete
  BY <1>11, <1>a DEF Complete, RunFiles, Statuses, GoTo, Sessions, AtAStep
<1>12. CASE Close
  BY <1>12, <1>a, <1>d DEF Close, AtAStep
<1>13. CASE Die
  BY <1>13, <1>a, <1>d, <1>f DEF Die, AtAStep
<1>14. CASE Late
  BY <1>14, <1>a, <1>f DEF Late, AtAStep, Sessions
<1>15. CASE Beat
  BY <1>15, <1>a DEF Beat, AtAStep, Sessions
<1>16. CASE StopElsewhere
  BY <1>16, <1>a, <1>f DEF StopElsewhere, AtAStep, RunFiles
<1>17. CASE DeleteElsewhere
  BY <1>17, <1>c, <1>d, <1>f DEF DeleteElsewhere, AtAStep
<1>18. CASE StartAgain
  BY <1>18, <1>a, <1>c DEF StartAgain, AtAStep
<1>19. ASSUME NEW k \in Steps, DecideElsewhere(k) PROVE Goal /\ Told_
  BY <1>19, <1>a, <1>f DEF DecideElsewhere, AtAStep, RunFiles
<1> QED
  BY <1>1, <1>2, <1>3, <1>4, <1>4a, <1>4b, <1>5, <1>6, <1>7, <1>8, <1>9, <1>10, <1>11, <1>12, <1>13, <1>14, <1>15,
     <1>16, <1>17, <1>18, <1>19 DEF Run

\* The gate a click decides is one of the stage that is selected (`S.selected`, `S.decide`).
LEMMA GateOfSelected ==
  ASSUME PagesTypeOK
  PROVE  /\ Selected \in Stages
         /\ Answered # NoGate => Answered \in Steps /\ StageOf[Answered] = Selected
<1>1. PICK d \in Readings : page.shown = View(d)
  BY DEF PagesTypeOK, Pages, Views
<1>2. Selected \in Stages
  BY <1>1, CurrentIsAStage DEF Selected, PagesTypeOK, Pages
<1> QED
  BY <1>1, <1>2, GateOfStage DEF Answered

\* The bottom bar opens a stage with a gate (`S.open_gate`).
LEMMA OpensAStage ==
  ASSUME PagesTypeOK, OpenGate PROVE page'.picked \in Stages
<1>1. PICK d \in Readings : page.shown = View(d)
  BY DEF PagesTypeOK, Pages, Views
<1> DEFINE S == {s \in Stages : page.shown.gates[s] # NoGate}
<1>2. View(d).control.verb = "answer"
  BY <1>1 DEF OpenGate, Clicked
<1>3. S # {}
  BY <1>1, <1>2, AnswerHasGate
<1>4. S \in SUBSET Nat
  BY RunViewAssumption
<1>5. \E s \in S : \A t \in S : s <= t
  BY <1>3, <1>4, LeastOfNaturals
<1>6. page'.picked = CHOOSE s \in Stages : /\ page.shown.gates[s] # NoGate
                                           /\ \A t \in Stages : page.shown.gates[t] # NoGate => s <= t
  BY DEF OpenGate, PagesTypeOK, Pages
<1>7. \E s \in Stages : /\ page.shown.gates[s] # NoGate
                        /\ \A t \in Stages : page.shown.gates[t] # NoGate => s <= t
  BY <1>5
<1> QED
  BY <1>6, <1>7

\* The page a build starts from is a page.
LEMMA BuildingIsAPage ==
  ASSUME NEW P \in Pages, NEW by \in {"person", "poll"} PROVE Building(P, by) \in Pages
  BY DEF Building, Pages

\* Each step of the run page leaves every variable a value of its kind.
LEMMA RunPageKeepsKinds ==
  ASSUME PagesTypeOK, RunPage PROVE PagesTypeOK'
<1>a. page \in Pages /\ files \in RunFiles /\ session \in Sessions /\ home \in Homes /\ tab \in {"run", "home"}
      /\ click \in [saw : Gated, picked : BOOLEAN]
  BY DEF PagesTypeOK
<1>b. OnPage /\ page' \in Pages /\ click' \in [saw : Gated, picked : BOOLEAN] => PagesTypeOK'
  BY DEF OnPage, run, PagesTypeOK, AtAStep
<1>c. NoReading \in Readings
  BY NoFilesAreFiles
<1>d. Building(page, "person") \in Pages /\ Building(page, "poll") \in Pages
  BY <1>a, BuildingIsAPage
<1>e. NoClick \in [saw : Gated, picked : BOOLEAN]
  BY DEF NoClick, Gated
<1>f. /\ Selected \in Stages
      /\ Answered # NoGate => Answered \in Steps /\ StageOf[Answered] = Selected
  BY GateOfSelected
<1>g. Broken \in Pages
  BY <1>a, <1>c DEF Broken, Pages
<1>1. CASE Mount
  <2>1. page' \in Pages
    BY <1>1, <1>d DEF Mount, Pages
  <2> QED
    BY <1>1, <1>a, <1>b, <2>1 DEF Mount
<1>2. CASE Poll
  BY <1>2, <1>a, <1>b, <1>d DEF Poll
<1>3. CASE LookAtState
  <2>1. [page EXCEPT !.pc = "rest", !.seen.status = files.status, !.seen.steps = files.steps] \in Pages
    BY <1>a DEF Pages, Readings, RunFiles
  <2> QED
    BY <1>3, <1>a, <1>b, <1>g, <2>1 DEF LookAtState
<1>4. CASE LookAtRest
  <2> DEFINE R == [page.seen EXCEPT !.log = files.log, !.halt = files.halt, !.asks = files.asks,
                     !.decided = files.decided, !.stale = page.seen.status = "RUNNING" /\ ~Live]
  <2>2. page' = [page EXCEPT !.pc = "show", !.seen = R]
    BY <1>4, <1>a DEF LookAtRest, Pages, Readings
  <2>3. R \in Readings
    BY <1>a DEF Pages, Readings, RunFiles
  <2> HIDE DEF R
  <2>1. page' \in Pages
    BY <1>a, <2>2, <2>3 DEF Pages
  <2> QED
    BY <1>4, <1>a, <1>b, <2>1 DEF LookAtRest
<1>5. CASE Show
  <2>1. [page.seen EXCEPT !.stop = files.stop] \in Readings
    BY <1>a DEF Pages, Readings, RunFiles
  <2>2. View([page.seen EXCEPT !.stop = files.stop]) \in Views
    BY <2>1 DEF Views
  <2>3. [page EXCEPT !.pc = "idle", !.by = "none", !.seen = NoReading, !.since = FALSE] \in Pages
    BY <1>a, <1>c DEF Pages
  <2>4. [page EXCEPT !.pc = "idle", !.by = "none", !.seen = NoReading, !.loaded = TRUE,
               !.shown = View([page.seen EXCEPT !.stop = files.stop]),
               !.stale = FALSE, !.since = FALSE, !.torn = page.since] \in Pages
    BY <1>a, <1>c, <2>2 DEF Pages
  <2> QED
    BY <1>5, <1>a, <1>b, <1>g, <2>3, <2>4 DEF Show
<1>6. CASE ClickDecide
  <2>1. click' \in [saw : Gated, picked : BOOLEAN]
    BY <1>6, <1>f DEF ClickDecide, Answered, Gated
  <2> QED
    BY <1>6, <1>a, <1>b, <2>1 DEF ClickDecide
<1>7. CASE Decide
  <2>1. CASE Answered = NoGate \/ ~files.there
    BY <1>7, <1>e, <2>1 DEF Decide, run, PagesTypeOK, AtAStep
  <2>2. CASE ~(Answered = NoGate \/ ~files.there)
    <3>1. files' = [files EXCEPT !.decided = files.decided \union {Answered}] /\ Acts({"gates"})
          /\ astray' = astray \union
               IF Answered = click.saw THEN {}
               ELSE {[saw |-> click.saw, picked |-> click.picked, did |-> Answered]}
      BY <1>7, <2>2 DEF Decide
    <3>2. files' \in RunFiles
      BY <1>a, <1>f, <2>2, <3>1 DEF RunFiles
    <3>3. page' \in Pages /\ home' \in Homes
      BY <1>a, <1>d, <3>1, NoticeKeepsKinds DEF Acts
    <3>4. astray' \subseteq [saw : Gated, picked : BOOLEAN, did : Gated]
      BY <1>a, <1>f, <2>2, <3>1 DEF PagesTypeOK, Gated
    <3> QED
      BY <1>e, <3>1, <3>2, <3>3, <3>4 DEF Acts, PagesTypeOK, AtAStep
  <2> QED
    BY <2>1, <2>2
<1>8. CASE StopRun
  <2>1. files' \in RunFiles
    BY <1>8, <1>a DEF StopRun, RunFiles
  <2>2. page' \in Pages /\ home' \in Homes
    BY <1>8, <1>a, <1>d, NoticeKeepsKinds DEF StopRun, Acts
  <2> QED
    BY <1>8, <1>e, <2>1, <2>2 DEF StopRun, Acts, PagesTypeOK, AtAStep
<1>9. CASE OpenGate
  <2>1. page'.picked \in Stages
    BY <1>9, OpensAStage
  <2>2. page' = [page EXCEPT !.picked = page'.picked]
    BY <1>9, <1>a DEF OpenGate, Pages
  <2>3. page' \in Pages
    BY <1>a, <2>1, <2>2 DEF Pages
  <2> QED
    BY <1>9, <1>a, <1>b, <2>3 DEF OpenGate
<1>10. ASSUME NEW s \in Stages \union {NoStage}, Pick(s) PROVE PagesTypeOK'
  <2>1. page' \in Pages
    BY <1>10, <1>a DEF Pick, Pages
  <2> QED
    BY <1>10, <1>a, <1>b, <2>1 DEF Pick
<1> QED
  BY <1>1, <1>2, <1>3, <1>4, <1>5, <1>6, <1>7, <1>8, <1>9, <1>10 DEF RunPage

\* Each step of the home page leaves every variable a value of its kind.
LEMMA HomePageKeepsKinds ==
  ASSUME PagesTypeOK, HomePage PROVE PagesTypeOK'
<1>a. page \in Pages /\ files \in RunFiles /\ session \in Sessions /\ home \in Homes /\ tab \in {"run", "home"}
  BY DEF PagesTypeOK
<1>b. AtHome /\ UNCHANGED run /\ home' \in Homes => PagesTypeOK'
  BY DEF AtHome, run, PagesTypeOK, AtAStep
<1>c. NoReading \in Readings /\ NoRow \in HomeRows /\ NoFiles \in RunFiles
  BY NoFilesAreFiles DEF NoRow, HomeRows
<1>d. Others \subseteq {This, Other} /\ Visible \subseteq {This, Other}
  BY <1>a DEF Others, Visible, Homes
<1>e. \A T \in SUBSET {This, Other} : Toggled(T) \in Homes
  BY <1>a DEF Toggled, Homes
<1>1. CASE TakeKey
  <2>1. \A R \in SUBSET {This, Other} : [home EXCEPT !.rows = R] \in Homes
    BY <1>a DEF Homes
  <2>2. [home EXCEPT !.pc = "state", !.since = FALSE] \in Homes
    BY <1>a DEF Homes
  <2>3. home' \in Homes
    BY <1>1, <1>d, <2>1, <2>2 DEF TakeKey
  <2> QED
    BY <1>1, <1>b, <2>3 DEF TakeKey
<1>2. CASE ReadRecord
  <2>1. [home EXCEPT !.pc = "idle", !.since = FALSE, !.rows = Others] \in Homes
    BY <1>a, <1>d DEF Homes
  <2>2. [home EXCEPT !.pc = "rest", !.seen.status = files.status, !.seen.steps = files.steps,
                     !.seen.stale = files.status = "RUNNING" /\ ~Live] \in Homes
    BY <1>a DEF Homes, Readings, RunFiles
  <2> QED
    BY <1>2, <1>b, <2>1, <2>2 DEF ReadRecord
<1>3. CASE ReadRest
  <2>1. [home.seen EXCEPT !.halt = files.halt, !.asks = files.asks, !.decided = files.decided] \in Readings
    BY <1>a DEF Homes, Readings, RunFiles
  <2>2. Row([home.seen EXCEPT !.halt = files.halt, !.asks = files.asks, !.decided = files.decided]) \in HomeRows
    BY <2>1 DEF HomeRows
  <2>3. home' \in Homes
    BY <1>3, <1>a, <1>c, <1>d, <2>2 DEF ReadRest, Homes, ChangedSinceKey
  <2> QED
    BY <1>3, <1>b, <2>3 DEF ReadRest
<1>4. CASE SelectAll
  BY <1>4, <1>b, <1>d, <1>e DEF SelectAll
<1>5. CASE AskToRemove
  <2>1. home' \in Homes
    BY <1>5, <1>a DEF AskToRemove, Homes
  <2> QED
    BY <1>5, <1>b, <2>1 DEF AskToRemove
<1>6. CASE RemoveSelected
  <2> DEFINE gone == home.ticked \intersect ({Other} \union IF files.there /\ ~Live THEN {This} ELSE {})
             K == [home EXCEPT !.ticked = {}, !.confirm = FALSE, !.asked = {},
                               !.other = home.other /\ Other \notin gone]
             changed == IF This \in gone THEN Every ELSE {}
  <2>1. K \in Homes
    BY <1>a DEF Homes
  <2>2. /\ files' = IF This \in gone THEN NoFiles ELSE files
        /\ session' = IF This \in gone THEN Off ELSE session
        /\ Notice(page, K, changed)
        /\ used' = used \/ Turn
        /\ UNCHANGED <<tab, click, astray>>
    BY <1>6 DEF RemoveSelected
  <2> HIDE DEF K, changed
  <2>3. page' \in Pages /\ home' \in Homes
    BY <1>a, <2>1, <2>2, NoticeKeepsKinds
  <2>4. files' \in RunFiles
    BY <1>a, <1>c, <2>2
  <2>5. session' \in Sessions /\ AtAStep'
    BY <1>a, <2>2 DEF PagesTypeOK, AtAStep, Off, Sessions
  <2>6. used' \in [sessions : 0..MaxSessions, turns : 0..MaxTurns]
    BY <2>2, DashboardAssumption DEF PagesTypeOK, Turn
  <2> QED
    BY <2>2, <2>3, <2>4, <2>5, <2>6 DEF PagesTypeOK
<1>7. CASE StopRow
  <2>1. files' \in RunFiles
    BY <1>7, <1>a DEF StopRow, RunFiles
  <2>2. page' \in Pages /\ home' \in Homes
    BY <1>7, <1>a, NoticeKeepsKinds DEF StopRow, Changed
  <2> QED
    BY <1>7, <2>1, <2>2 DEF StopRow, Changed, PagesTypeOK, AtAStep
<1>8. CASE OpenRow
  <2>1. Building(page, "person") \in Pages
    BY <1>a, BuildingIsAPage
  <2>2. [Building(page, "person") EXCEPT !.polls = TRUE, !.picked = NoStage] \in Pages
    BY <2>1 DEF Pages
  <2>3. home' \in Homes
    BY <1>8, <1>a, <1>c DEF OpenRow, Homes
  <2> QED
    BY <1>8, <2>2, <2>3 DEF OpenRow, PagesTypeOK, AtAStep, run
<1>9. ASSUME NEW w \in {"all", "completed"}, Filter(w) PROVE PagesTypeOK'
  <2>1. home' \in Homes
    BY <1>9, <1>a DEF Filter, Homes
  <2> QED
    BY <1>9, <1>b, <2>1 DEF Filter
<1>10. ASSUME NEW r \in {This, Other}, ToggleSelect(r) PROVE PagesTypeOK'
  <2>1. (IF r \in home.ticked THEN home.ticked \ {r} ELSE home.ticked \union {r}) \in SUBSET {This, Other}
    BY <1>a DEF Homes
  <2> QED
    BY <1>10, <1>b, <1>e, <2>1 DEF ToggleSelect
<1> QED
  BY <1>1, <1>2, <1>3, <1>4, <1>5, <1>6, <1>7, <1>8, <1>9, <1>10 DEF HomePage

\* Every variable of the dashboard keeps a value of its kind.
THEOREM PagesTypeCorrect == PagesSpec => []PagesTypeOK
<1>1. PagesInit => PagesTypeOK
  <2> SUFFICES ASSUME PagesInit PROVE PagesTypeOK
    OBVIOUS
  <2>1. NewFiles \in RunFiles /\ NoReading \in Readings
    BY NoFilesAreFiles
  <2>2. View(NoReading) \in Views /\ NoRow \in HomeRows
    BY <2>1 DEF Views, HomeRows, NoRow
  <2>3. page \in Pages
    BY <2>1, <2>2 DEF PagesInit, Pages
  <2>4. home \in Homes
    BY <2>1, <2>2 DEF PagesInit, Homes
  <2>5. session \in Sessions /\ AtAStep
    BY DEF PagesInit, Off, Sessions, AtAStep
  <2> QED
    BY <2>1, <2>3, <2>4, <2>5, DashboardAssumption DEF PagesInit, PagesTypeOK, NoClick, Gated
<1>2. PagesTypeOK /\ [PagesNext]_pagesVars => PagesTypeOK'
  <2>1. ASSUME PagesTypeOK, Run PROVE PagesTypeOK'
    <3>1. PICK changed : Changed(changed)
      BY <2>1, RunKeepsKinds
    <3>2. page' \in Pages /\ home' \in Homes
      BY <2>1, <3>1, NoticeKeepsKinds DEF Changed, PagesTypeOK
    <3> QED
      BY <2>1, <3>1, <3>2, RunKeepsKinds DEF PagesTypeOK, Changed
  <2>2. ASSUME PagesTypeOK, UNCHANGED pagesVars PROVE PagesTypeOK'
    BY <2>2 DEF PagesTypeOK, pagesVars, run, AtAStep
  <2> QED
    BY <2>1, <2>2, RunPageKeepsKinds, HomePageKeepsKinds DEF PagesNext
<1> QED
  BY <1>1, <1>2, PTL DEF PagesSpec

------------------------------------------------------------------------------
(* The dashboard: the inductive invariant. *)

\* A run asks nothing before it runs, and nobody drives a folder that is gone.
RunTold ==
  /\ files.status = "QUEUED" => session.pc \in {"off", "open"} /\ files.asks = {}
  /\ ~files.there => session.pc = "off"

\* What a build has read is what is there, as long as no hashed file changed since it began ...
ReadSoFar ==
  /\ ~page.since /\ page.pc \in {"rest", "show"} =>
       page.seen.status = files.status /\ page.seen.steps = files.steps
  /\ ~page.since /\ page.pc = "show" =>
       /\ page.seen.log = files.log /\ page.seen.halt = files.halt
       /\ page.seen.asks = files.asks /\ page.seen.decided = files.decided
       /\ page.seen.stale => files.status = "RUNNING"

\* ... and what it shows too, at rest or while it builds anew.
ShowsItsHash ==
  page.loaded /\ ~page.stale /\ ~page.torn =>
    \E live, stop \in BOOLEAN : page.shown = View(Reading(live, stop))

\* A click on its way keeps the stage it was made on; the tab at home has no page.
ClickKeepsStage ==
  /\ tab = "home" => page.pc = "idle" /\ ~page.loaded /\ ~click.picked
  /\ click.picked => page.picked \in Stages /\ StageOf[click.saw] = page.picked

\* The same of a row: what was read of the record, and what is kept.
RowSoFar ==
  /\ ~home.seen.stop
  /\ tab = "home" /\ home.pc = "rest" /\ ~home.since =>
       /\ home.seen.status = files.status /\ home.seen.steps = files.steps
       /\ home.seen.stale => files.status = "RUNNING"
KeepsTrueRow ==
  /\ tab = "run" => ~home.cached
  /\ Kept /\ files.there => \E live \in BOOLEAN : home.row = Row(Reading(live, FALSE))

PagesInv ==
  /\ RunTold /\ ReadSoFar /\ ShowsItsHash /\ ClickKeepsStage /\ DecidesInTheStageSeen
  /\ RowSoFar /\ KeepsTrueRow /\ RemovesWhatWasAsked

\* What no hash, and what no key tells.
HashedSame == files' = [files EXCEPT !.stop = files'.stop]
KeyedSame == files' = [files EXCEPT !.stop = files'.stop, !.decided = files'.decided]

\* Whatever the session or other hands do, a file that a hash or a key stands for is noticed.
LEMMA RunIsNoticed ==
  ASSUME PagesTypeOK, RunTold, Run
  PROVE  /\ RunTold'
         /\ \E changed : /\ Changed(changed)
                         /\ changed \intersect Hashed = {} => HashedSame
                         /\ changed \intersect Keyed = {} => KeyedSame
<1> DEFINE Noticed == \E changed : /\ Changed(changed)
                                   /\ changed \intersect Hashed = {} => HashedSame
                                   /\ changed \intersect Keyed = {} => KeyedSame
<1>a. files \in RunFiles /\ session \in Sessions
  BY DEF PagesTypeOK
<1>c. files' = files => HashedSame /\ KeyedSame
  BY <1>a DEF HashedSame, KeyedSame, RunFiles
<1>d. \A changed : Changed(changed) /\ changed \intersect Hashed # {} /\ changed \intersect Keyed # {} => Noticed
  OBVIOUS
<1>e. /\ {"runner"} \intersect Hashed # {} /\ {"runner"} \intersect Keyed # {}
      /\ {"state", "events"} \intersect Hashed # {} /\ {"state", "events"} \intersect Keyed # {}
      /\ {"halt", "state", "events"} \intersect Hashed # {} /\ {"halt", "state", "events"} \intersect Keyed # {}
      /\ {"halt", "events"} \intersect Hashed # {} /\ {"halt", "events"} \intersect Keyed # {}
      /\ {"gates", "events"} \intersect Hashed # {} /\ {"gates", "events"} \intersect Keyed # {}
      /\ Every \intersect Hashed # {} /\ Every \intersect Keyed # {}
      /\ {"gates"} \intersect Hashed # {}
  BY DEF Hashed, Keyed, Every
<1>f. Changed({}) /\ files' = files => Noticed
  BY <1>c
<1> HIDE DEF Noticed
<1>1. CASE Open
  BY <1>1, <1>a, <1>d, <1>e DEF Open, RunTold, Off, At
<1>2. CASE ClearHalt
  BY <1>2, <1>a, <1>d, <1>e DEF ClearHalt, RunTold, RunFiles, At
<1>3. CASE BeginRunning
  BY <1>3, <1>a, <1>d, <1>e DEF BeginRunning, RunTold, RunFiles, At, GoTo, Sessions
<1>4. CASE Issue
  BY <1>4, <1>a, <1>d, <1>e DEF Issue, RunTold, RunFiles, At, GoToStep, Sessions
<1>4a. CASE IssuedBefore
  <2>1. Changed({}) /\ files' = files
    BY <1>4a DEF IssuedBefore
  <2>2. RunTold'
    BY <1>4a, <1>a, <2>1 DEF IssuedBefore, RunTold, At, GoToStep, Sessions
  <2> QED
    BY <1>f, <2>1, <2>2 DEF Noticed
<1>4b. CASE StartStep
  BY <1>4b, <1>a, <1>d, <1>e DEF StartStep, RunTold, RunFiles, At, GoTo, Sessions
<1>5. CASE Ask
  BY <1>5, <1>a, <1>d, <1>e DEF Ask, RunTold, RunFiles, At, GoTo, Sessions
<1>6. CASE AskedBefore
  <2>1. Changed({}) /\ files' = files
    BY <1>6 DEF AskedBefore
  <2>2. RunTold'
    BY <1>6, <1>a, <2>1 DEF AskedBefore, RunTold, At, GoTo, Sessions
  <2> QED
    BY <1>f, <2>1, <2>2 DEF Noticed
<1>7. CASE Pass
  BY <1>7, <1>a, <1>d, <1>e DEF Pass, RunTold, RunFiles, At, GoTo, Sessions
<1>8. CASE Stopped
  BY <1>8, <1>a, <1>d, <1>e DEF Stopped, HaltWith, RunTold, RunFiles, At, GoTo, Sessions
<1>9. CASE Fail
  BY <1>9, <1>a, <1>d, <1>e DEF Fail, HaltWith, RunTold, RunFiles, GoTo, Sessions
<1>10. CASE HaltStatus
  BY <1>10, <1>a, <1>d, <1>e DEF HaltStatus, RunTold, RunFiles, At, GoTo, Sessions
<1>11. CASE Complete
  BY <1>11, <1>a, <1>d, <1>e DEF Complete, RunTold, RunFiles, At, GoTo, Sessions
<1>12. CASE Close
  BY <1>12, <1>a, <1>d, <1>e DEF Close, RunTold, Off, At
<1>13. CASE Die
  <2>1. Changed({}) /\ files' = files
    BY <1>13 DEF Die
  <2>2. RunTold'
    BY <1>13, <2>1 DEF Die, RunTold, At, Off
  <2> QED
    BY <1>f, <2>1, <2>2 DEF Noticed
<1>14. CASE Late
  <2>1. Changed({}) /\ files' = files
    BY <1>14 DEF Late
  <2>2. RunTold'
    BY <1>14, <1>a, <2>1 DEF Late, RunTold, At, Sessions
  <2> QED
    BY <1>f, <2>1, <2>2 DEF Noticed
<1>15. CASE Beat
  BY <1>15, <1>a, <1>d, <1>e DEF Beat, RunTold, Sessions
<1>16. CASE StopElsewhere
  <2>1. HashedSame /\ KeyedSame
    BY <1>16, <1>a DEF StopElsewhere, HashedSame, KeyedSame, RunFiles
  <2> QED
    BY <1>16, <1>a, <2>1 DEF StopElsewhere, RunTold, RunFiles, Noticed
<1>17. CASE DeleteElsewhere
  BY <1>17, <1>a, <1>d, <1>e DEF DeleteElsewhere, RunTold, NoFiles, Off
<1>18. CASE StartAgain
  BY <1>18, <1>a, <1>d, <1>e DEF StartAgain, RunTold, NewFiles, NoFiles
<1>19. ASSUME NEW k \in Steps, DecideElsewhere(k) PROVE RunTold' /\ Noticed
  <2>1. KeyedSame
    BY <1>19, <1>a DEF DecideElsewhere, KeyedSame, RunFiles
  <2> QED
    BY <1>19, <1>a, <1>e, <2>1 DEF DecideElsewhere, RunTold, RunFiles, Noticed
<1> QED
  BY <1>1, <1>2, <1>3, <1>4, <1>4a, <1>4b, <1>5, <1>6, <1>7, <1>8, <1>9, <1>10, <1>11, <1>12, <1>13, <1>14, <1>15,
     <1>16, <1>17, <1>18, <1>19 DEF Run, Noticed

\* A reading says the same as long as only a STOP was written ...
LEMMA ReadingIsSame ==
  ASSUME files \in RunFiles, HashedSame, NEW live, NEW stop
  PROVE  Reading(live, stop)' = Reading(live, stop)
  BY DEF HashedSame, Reading, RunFiles

\* ... and a row that is not running the same too when a gate was decided.
LEMMA RowIsSame ==
  ASSUME files \in RunFiles, RunTold, KeyedSame, NEW live \in BOOLEAN,
         Row(Reading(live, FALSE)).bucket # "running"
  PROVE  Row(Reading(live, FALSE))' = Row(Reading(live, FALSE))
<1> DEFINE d == Reading(live, FALSE)
           e == [status |-> files.status, steps |-> files.steps, log |-> files.log, halt |-> files.halt,
                 asks |-> files.asks, decided |-> files'.decided, stop |-> FALSE,
                 stale |-> files.status = "RUNNING" /\ ~live]
<1>1. d' = e
  <2>1. /\ files'.status = files.status /\ files'.steps = files.steps /\ files'.log = files.log
        /\ files'.halt = files.halt /\ files'.asks = files.asks
    BY DEF KeyedSame, RunFiles
  <2> QED
    BY <2>1 DEF Reading
<1>2. /\ d.status = files.status /\ d.asks = files.asks /\ d.stale = (files.status = "RUNNING" /\ ~live)
      /\ e.status = d.status /\ e.steps = d.steps /\ e.halt = d.halt /\ e.asks = d.asks /\ e.stale = d.stale
  BY DEF Reading
<1> HIDE DEF d, e
<1>3. Bucket(e) = Bucket(d) /\ Bucket(d) # "running"
  BY <1>2 DEF Bucket, Row, d
<1>4. HomeDot(e) = HomeDot(d)
  <2>1. CASE files.status = "QUEUED"
    BY <1>2, <2>1 DEF HomeDot, RunTold
  <2>2. CASE files.status # "QUEUED"
    BY <1>2, <1>3, <2>2 DEF HomeDot, Bucket, RunFiles, Statuses
  <2> QED
    BY <2>1, <2>2
<1>5. Row(e) = Row(d)
  BY <1>2, <1>3, <1>4 DEF Row
<1>6. Row(d)' = Row(d')
  BY DEF Row, Bucket, HomeDot
<1> QED
  BY <1>1, <1>5, <1>6 DEF d

\* A page that is told of what changed shows no less than before.
LEMMA PageIsTold ==
  ASSUME PagesTypeOK, PagesInv, NEW P, NEW K, NEW changed, Notice(P, K, changed),
         P = page \/ (tab = "run" /\ P = Building(page, "person")),
         tab' = tab, click' \in {click, NoClick},
         changed \intersect Hashed = {} => HashedSame
  PROVE  ReadSoFar' /\ ShowsItsHash' /\ ClickKeepsStage'
<1> DEFINE B == Building(page, "person")
<1>a. page \in Pages /\ files \in RunFiles /\ tab \in {"run", "home"}
  BY DEF PagesTypeOK
<1>b. B \in Pages /\ B.pc = "state" /\ B.stale /\ B.loaded = page.loaded /\ B.picked = page.picked
  <2>1. B \in Pages
    BY <1>a, BuildingIsAPage
  <2> QED
    BY <1>a, <2>1 DEF Building, Pages
<1> HIDE DEF B
<1>c. P \in Pages /\ P.loaded = page.loaded /\ P.picked = page.picked /\ (P.pc # page.pc => P = B)
  BY <1>a, <1>b DEF B
<1>d. ~NoClick.picked
  BY DEF NoClick
<1>1. CASE tab = "run" /\ changed \intersect Hashed # {}
  <2>1. page' = [P EXCEPT !.stale = TRUE, !.since = P.pc # "idle"]
    BY <1>1 DEF Notice
  <2>2. page'.stale /\ (page'.pc # "idle" => page'.since) /\ page'.picked = page.picked
    BY <1>c, <2>1 DEF Pages
  <2> QED
    BY <1>1, <1>d, <2>2 DEF ReadSoFar, ShowsItsHash, ClickKeepsStage, PagesInv
<1>2. CASE tab # "run"
  <2>1. page' = page /\ page.pc = "idle" /\ ~page.loaded
    BY <1>a, <1>2 DEF Notice, PagesInv, ClickKeepsStage
  <2> QED
    BY <1>2, <1>d, <2>1 DEF ReadSoFar, ShowsItsHash, ClickKeepsStage, PagesInv
<1>3. CASE tab = "run" /\ changed \intersect Hashed = {} /\ P = page
  <2>1. page' = page /\ HashedSame
    BY <1>3 DEF Notice
  <2>2. /\ files'.status = files.status /\ files'.steps = files.steps /\ files'.log = files.log
        /\ files'.halt = files.halt /\ files'.asks = files.asks /\ files'.decided = files.decided
    BY <1>a, <2>1 DEF HashedSame, RunFiles
  <2>3. ReadSoFar'
    BY <2>1, <2>2 DEF ReadSoFar, PagesInv
  <2>4. ShowsItsHash'
    <3>1. SUFFICES ASSUME page.loaded, ~page.stale, ~page.torn
                   PROVE  \E live, stop \in BOOLEAN : page.shown = View(Reading(live, stop)')
      BY <2>1 DEF ShowsItsHash, View
    <3>2. PICK live \in BOOLEAN, stop \in BOOLEAN : page.shown = View(Reading(live, stop))
      BY <3>1 DEF PagesInv, ShowsItsHash
    <3>3. Reading(live, stop)' = Reading(live, stop)
      BY <1>a, <2>1, ReadingIsSame
    <3> QED
      BY <3>2, <3>3
  <2> QED
    BY <1>3, <1>d, <2>1, <2>3, <2>4 DEF ClickKeepsStage, PagesInv
<1>4. CASE tab = "run" /\ changed \intersect Hashed = {} /\ P = B
  <2>1. page' = B
    BY <1>4 DEF Notice
  <2> QED
    BY <1>4, <1>b, <1>d, <2>1 DEF ReadSoFar, ShowsItsHash, ClickKeepsStage, PagesInv
<1> QED
  BY <1>a, <1>1, <1>2, <1>3, <1>4 DEF B

\* A row that is told of what changed is as true as before.
LEMMA RowIsTold ==
  ASSUME PagesTypeOK, PagesInv, NEW P, NEW K \in Homes, NEW changed, Notice(P, K, changed),
         tab' = tab, K.pc = home.pc, K.seen = home.seen, K.row = home.row, K.cached = home.cached,
         K.old = home.old, K.since = home.since,
         changed \intersect Keyed = {} => KeyedSame
  PROVE  RowSoFar' /\ KeepsTrueRow'
<1>a. home \in Homes /\ files \in RunFiles /\ tab \in {"run", "home"}
  BY DEF PagesTypeOK
<1>1. CASE tab = "home" /\ changed \intersect Keyed # {}
  <2>1. home' = [K EXCEPT !.old = K.cached, !.since = K.pc # "idle"]
    BY <1>1 DEF Notice
  <2>2. /\ home'.old = home'.cached /\ home'.seen = home.seen
        /\ home'.pc # "idle" => home'.since
    BY <2>1 DEF Homes
  <2> QED
    BY <1>1, <2>2 DEF RowSoFar, KeepsTrueRow, Kept, PagesInv
<1>2. CASE tab = "run"
  <2>1. home' = K
    BY <1>2 DEF Notice
  <2> QED
    BY <1>2, <2>1 DEF RowSoFar, KeepsTrueRow, Kept, PagesInv
<1>3. CASE tab = "home" /\ changed \intersect Keyed = {}
  <2>1. home' = K /\ KeyedSame
    BY <1>3 DEF Notice
  <2>2. files'.status = files.status /\ files'.steps = files.steps /\ files'.there = files.there
    BY <1>a, <2>1 DEF KeyedSame, RunFiles
  <2>3. RowSoFar'
    BY <2>1, <2>2 DEF RowSoFar, PagesInv
  <2>4. KeepsTrueRow'
    <3>1. SUFFICES ASSUME Kept, files.there
                   PROVE  \E live \in BOOLEAN : home.row = Row(Reading(live, FALSE))'
      BY <1>3, <2>1, <2>2 DEF KeepsTrueRow, Kept
    <3>2. PICK live \in BOOLEAN : home.row = Row(Reading(live, FALSE))
      BY <3>1 DEF PagesInv, KeepsTrueRow
    <3>3. Row(Reading(live, FALSE)).bucket # "running"
      BY <3>1, <3>2 DEF Kept
    <3>4. Row(Reading(live, FALSE))' = Row(Reading(live, FALSE))
      BY <1>a, <2>1, <3>3, RowIsSame DEF PagesInv
    <3> QED
      BY <3>2, <3>4
  <2> QED
    BY <2>3, <2>4
<1> QED
  BY <1>a, <1>1, <1>2, <1>3

\* What is ticked and asked is as it was.
LEMMA NoticeKeepsTicks ==
  ASSUME NEW P, NEW K \in Homes, NEW changed, Notice(P, K, changed)
  PROVE  home'.confirm = K.confirm /\ home'.ticked = K.ticked /\ home'.asked = K.asked
  BY DEF Notice, Homes

\* The session and other hands keep the invariant: the page on screen is what it was.
LEMMA RunKeepsInv ==
  ASSUME PagesTypeOK, PagesInv, Run PROVE PagesInv'
<1>1. /\ RunTold'
      /\ \E changed : /\ Changed(changed)
                      /\ changed \intersect Hashed = {} => HashedSame
                      /\ changed \intersect Keyed = {} => KeyedSame
  BY RunIsNoticed DEF PagesInv
<1>2. PICK changed : /\ Changed(changed)
                     /\ changed \intersect Hashed = {} => HashedSame
                     /\ changed \intersect Keyed = {} => KeyedSame
  BY <1>1
<1>3. Notice(page, home, changed) /\ tab' = tab /\ click' = click /\ astray' = astray
  BY <1>2 DEF Changed
<1>4. home \in Homes
  BY DEF PagesTypeOK
<1>5. ReadSoFar' /\ ShowsItsHash' /\ ClickKeepsStage'
  BY <1>2, <1>3, PageIsTold
<1>6. RowSoFar' /\ KeepsTrueRow'
  BY <1>2, <1>3, <1>4, RowIsTold
<1>7. RemovesWhatWasAsked'
  BY <1>3, <1>4, NoticeKeepsTicks DEF RemovesWhatWasAsked, PagesInv
<1>8. DecidesInTheStageSeen'
  BY <1>3 DEF DecidesInTheStageSeen, PagesInv
<1> QED
  BY <1>1, <1>5, <1>6, <1>7, <1>8 DEF PagesInv

\* Each step of the run page, its clicks among them, keeps the invariant.
LEMMA RunPageKeepsInv ==
  ASSUME PagesTypeOK, PagesInv, RunPage PROVE PagesInv'
<1>a. page \in Pages /\ files \in RunFiles /\ home \in Homes /\ tab \in {"run", "home"}
      /\ click \in [saw : Gated, picked : BOOLEAN]
  BY DEF PagesTypeOK
<1> USE DEF PagesInv
<1>b. ASSUME OnPage
      PROVE  /\ RunTold' /\ RowSoFar' /\ KeepsTrueRow' /\ RemovesWhatWasAsked' /\ DecidesInTheStageSeen'
             /\ tab = "run" /\ tab' = "run" /\ files' = files
  BY <1>b DEF OnPage, run, RunTold, RowSoFar, KeepsTrueRow, Kept, RemovesWhatWasAsked,
              DecidesInTheStageSeen, Reading, Row, Bucket, HomeDot
<1>c. ASSUME NEW by \in {"person", "poll"}, OnPage, NEW p, page' = [Building(page, by) EXCEPT !.polls = p],
             click' = click
      PROVE  PagesInv'
  <2>1. page'.pc = "state" /\ page'.loaded = page.loaded /\ page'.picked = page.picked
        /\ page'.shown = page.shown /\ page'.torn = page.torn /\ (page.stale => page'.stale)
    BY <1>a, <1>c DEF Building, Pages
  <2>2. ReadSoFar' /\ ClickKeepsStage'
    BY <1>b, <1>c, <2>1 DEF ReadSoFar, ClickKeepsStage
  <2>3. ShowsItsHash'
    BY <1>b, <1>c, <2>1 DEF ShowsItsHash, Reading
  <2> QED
    BY <1>b, <1>c, <2>2, <2>3
<1>d. ASSUME OnPage, click' = click, page'.pc = "idle", page'.loaded = page.loaded,
             page'.stale = page.stale, page'.torn = page.torn, page'.shown = page.shown, page'.picked = page.picked
      PROVE  PagesInv'
  <2>1. ReadSoFar' /\ ClickKeepsStage'
    BY <1>b, <1>d DEF ReadSoFar, ClickKeepsStage
  <2>2. ShowsItsHash'
    BY <1>b, <1>d DEF ShowsItsHash, Reading
  <2> QED
    BY <1>b, <1>d, <2>1, <2>2
<1>e. Broken.pc = "idle" /\ Broken.loaded = page.loaded /\ Broken.stale = page.stale
      /\ Broken.torn = page.torn /\ Broken.shown = page.shown /\ Broken.picked = page.picked
  BY <1>a DEF Broken, Pages
<1>1. CASE Mount
  <2>1. page' = [Building(page, "person") EXCEPT !.polls = TRUE]
    BY <1>1 DEF Mount
  <2> QED
    BY <1>1, <1>c, <2>1 DEF Mount
<1>2. CASE Poll
  <2>1. page' = [Building(page, "poll") EXCEPT !.polls = page.polls]
    BY <1>2, <1>a DEF Poll, Building, Pages
  <2> QED
    BY <1>2, <1>c, <2>1 DEF Poll
<1>3. CASE LookAtState
  <2>1. CASE ~files.there
    <3>1. page' = Broken /\ click' = click /\ OnPage
      BY <1>3, <2>1 DEF LookAtState
    <3> QED
      BY <1>d, <1>e, <3>1
  <2>2. CASE files.there
    <3>1. page' = [page EXCEPT !.pc = "rest", !.seen.status = files.status, !.seen.steps = files.steps]
          /\ click' = click /\ OnPage
      BY <1>3, <2>2 DEF LookAtState
    <3>2. /\ page'.pc = "rest" /\ page'.seen.status = files.status /\ page'.seen.steps = files.steps
          /\ page'.loaded = page.loaded /\ page'.stale = page.stale /\ page'.torn = page.torn
          /\ page'.shown = page.shown /\ page'.picked = page.picked
      BY <1>a, <3>1 DEF Pages, Readings
    <3>3. ReadSoFar' /\ ClickKeepsStage'
      BY <1>b, <3>1, <3>2 DEF ReadSoFar, ClickKeepsStage
    <3>4. ShowsItsHash'
      BY <1>b, <3>1, <3>2 DEF ShowsItsHash, Reading
    <3> QED
      BY <1>b, <3>1, <3>3, <3>4
  <2> QED
    BY <2>1, <2>2
<1>4. CASE LookAtRest
  <2> DEFINE R == [page.seen EXCEPT !.log = files.log, !.halt = files.halt, !.asks = files.asks,
                     !.decided = files.decided, !.stale = page.seen.status = "RUNNING" /\ ~Live]
  <2>1. page' = [page EXCEPT !.pc = "show", !.seen = R] /\ click' = click /\ OnPage /\ page.pc = "rest"
    BY <1>4, <1>a DEF LookAtRest, Pages, Readings
  <2>2. /\ R.status = page.seen.status /\ R.steps = page.seen.steps /\ R.log = files.log
        /\ R.halt = files.halt /\ R.asks = files.asks /\ R.decided = files.decided
        /\ R.stale => page.seen.status = "RUNNING"
    BY <1>a DEF Pages, Readings
  <2> HIDE DEF R
  <2>3. /\ page'.pc = "show" /\ page'.seen = R /\ page'.since = page.since
        /\ page'.loaded = page.loaded /\ page'.stale = page.stale /\ page'.torn = page.torn
        /\ page'.shown = page.shown /\ page'.picked = page.picked
    BY <1>a, <2>1 DEF Pages
  <2>4. ReadSoFar'
    BY <1>b, <2>1, <2>2, <2>3 DEF ReadSoFar
  <2>5. ShowsItsHash' /\ ClickKeepsStage'
    BY <1>b, <2>1, <2>3 DEF ShowsItsHash, Reading, ClickKeepsStage
  <2> QED
    BY <1>b, <2>1, <2>4, <2>5
<1>5. CASE Show
  <2>0. OnPage /\ click' = click /\ page.pc = "show"
    BY <1>5 DEF Show
  <2>1. CASE ~files.there
    <3>1. page' = Broken
      BY <1>5, <2>1 DEF Show
    <3> QED
      BY <1>d, <1>e, <2>0, <3>1
  <2>2. CASE files.there /\ ~page.stale
    <3>1. page' = [page EXCEPT !.pc = "idle", !.by = "none", !.seen = NoReading, !.since = FALSE]
      BY <1>5, <2>2 DEF Show
    <3>2. page'.pc = "idle" /\ page'.loaded = page.loaded /\ page'.stale = page.stale
          /\ page'.torn = page.torn /\ page'.shown = page.shown /\ page'.picked = page.picked
      BY <1>a, <3>1 DEF Pages
    <3> QED
      BY <1>d, <2>0, <3>2
  <2>3. CASE files.there /\ page.stale
    <3> DEFINE d == [page.seen EXCEPT !.stop = files.stop]
    <3>1. page' = [page EXCEPT !.pc = "idle", !.by = "none", !.seen = NoReading, !.loaded = TRUE,
                     !.shown = View(d), !.stale = FALSE, !.since = FALSE, !.torn = page.since]
      BY <1>5, <2>3 DEF Show
    <3>2. page'.pc = "idle" /\ page'.shown = View(d) /\ page'.torn = page.since /\ page'.picked = page.picked
      BY <1>a, <3>1 DEF Pages
    <3>3. ReadSoFar' /\ ClickKeepsStage'
      BY <1>b, <2>0, <3>2 DEF ReadSoFar, ClickKeepsStage
    <3>4. ~page.since => d = Reading(~page.seen.stale, files.stop)
      BY <1>a, <2>0 DEF ReadSoFar, Reading, Pages, Readings
    <3>5. ShowsItsHash'
      <4>1. ~page.since => \E live, stop \in BOOLEAN : View(d) = View(Reading(live, stop))
        BY <1>a, <3>4 DEF RunFiles, Pages, Readings
      <4> HIDE DEF d
      <4> QED
        BY <1>b, <2>0, <3>2, <4>1 DEF ShowsItsHash, Reading
    <3> QED
      BY <1>b, <2>0, <3>3, <3>5
  <2> QED
    BY <2>1, <2>2, <2>3
<1>6. CASE ClickDecide
  <2>1. page' = page /\ OnPage /\ Answered # NoGate
        /\ click' = [saw |-> Answered, picked |-> page.picked # NoStage]
    BY <1>6 DEF ClickDecide, Answered
  <2>2. StageOf[Answered] = Selected
    BY <2>1, GateOfSelected
  <2>3. page.picked # NoStage => page.picked \in Stages /\ StageOf[Answered] = page.picked
    BY <1>a, <2>2 DEF Pages, Selected
  <2>4. ReadSoFar' /\ ClickKeepsStage'
    BY <1>b, <2>1, <2>3 DEF ReadSoFar, ClickKeepsStage
  <2>5. ShowsItsHash'
    BY <1>b, <2>1 DEF ShowsItsHash, Reading
  <2> QED
    BY <1>b, <2>1, <2>4, <2>5
<1>7. CASE Decide
  <2>1. CASE Answered = NoGate \/ ~files.there
    <3>1. click' = NoClick /\ UNCHANGED <<run, tab, page, astray, home>>
      BY <1>7, <2>1 DEF Decide
    <3>2. RunTold' /\ ReadSoFar' /\ RowSoFar' /\ RemovesWhatWasAsked' /\ DecidesInTheStageSeen'
      BY <3>1 DEF run, RunTold, ReadSoFar, RowSoFar, RemovesWhatWasAsked, DecidesInTheStageSeen
    <3>3. ClickKeepsStage'
      BY <3>1 DEF ClickKeepsStage, NoClick
    <3>4. ShowsItsHash' /\ KeepsTrueRow'
      BY <3>1 DEF run, ShowsItsHash, KeepsTrueRow, Kept, Reading
    <3> QED
      BY <3>2, <3>3, <3>4
  <2>2. CASE ~(Answered = NoGate \/ ~files.there)
    <3>1. /\ files' = [files EXCEPT !.decided = files.decided \union {Answered}] /\ tab = "run"
          /\ Notice(Building(page, "person"), home, {"gates"}) /\ click' = NoClick
          /\ UNCHANGED <<session, used, tab>>
          /\ astray' = astray \union
               IF Answered = click.saw THEN {}
               ELSE {[saw |-> click.saw, picked |-> click.picked, did |-> Answered]}
      BY <1>7, <2>2 DEF Decide, Acts
    <3>2. RunTold'
      BY <1>a, <3>1 DEF RunTold, RunFiles
    <3>3. KeyedSame
      BY <1>a, <3>1 DEF KeyedSame, RunFiles
    <3>4. {"gates"} \intersect Hashed # {}
      BY DEF Hashed
    <3>5. ReadSoFar' /\ ShowsItsHash' /\ ClickKeepsStage'
      BY <3>1, <3>4, PageIsTold
    <3>6. RowSoFar' /\ KeepsTrueRow' /\ RemovesWhatWasAsked'
      BY <1>a, <3>1, <3>3, RowIsTold, NoticeKeepsTicks DEF RemovesWhatWasAsked
    <3>7. click.picked => StageOf[Answered] = StageOf[click.saw]
      <4>1. StageOf[Answered] = Selected
        BY <2>2, GateOfSelected
      <4>2. click.picked => page.picked # NoStage
        BY RunViewAssumption DEF ClickKeepsStage, NoStage
      <4> QED
        BY <4>1, <4>2 DEF ClickKeepsStage, Selected
    <3>8. DecidesInTheStageSeen'
      BY <3>1, <3>7 DEF DecidesInTheStageSeen
    <3> QED
      BY <3>2, <3>5, <3>6, <3>8
  <2> QED
    BY <2>1, <2>2
<1>8. CASE StopRun
  <2>1. /\ files' = [files EXCEPT !.stop = TRUE] /\ tab = "run"
        /\ Notice(Building(page, "person"), home, {}) /\ click' = NoClick
        /\ UNCHANGED <<session, used, tab>> /\ UNCHANGED astray
    BY <1>8 DEF StopRun, Acts, Clicked
  <2>2. RunTold'
    BY <1>a, <2>1 DEF RunTold, RunFiles
  <2>3. HashedSame /\ KeyedSame
    BY <1>a, <2>1 DEF HashedSame, KeyedSame, RunFiles
  <2>4. ReadSoFar' /\ ShowsItsHash' /\ ClickKeepsStage'
    BY <2>1, <2>3, PageIsTold
  <2>5. RowSoFar' /\ KeepsTrueRow' /\ RemovesWhatWasAsked'
    BY <1>a, <2>1, <2>3, RowIsTold, NoticeKeepsTicks DEF RemovesWhatWasAsked
  <2>6. DecidesInTheStageSeen'
    BY <2>1 DEF DecidesInTheStageSeen
  <2> QED
    BY <2>2, <2>4, <2>5, <2>6
<1>9. ASSUME OnPage, Still, page' = [page EXCEPT !.picked = page'.picked], click' = click PROVE PagesInv'
  <2>1. ~click.picked /\ page.pc = "idle"
    BY <1>9 DEF Still, NoClick
  <2>2. /\ page'.pc = page.pc /\ page'.loaded = page.loaded /\ page'.stale = page.stale
        /\ page'.torn = page.torn /\ page'.shown = page.shown
    BY <1>a, <1>9 DEF Pages
  <2>3. ReadSoFar' /\ ClickKeepsStage'
    BY <1>b, <1>9, <2>1, <2>2 DEF ReadSoFar, ClickKeepsStage
  <2>4. ShowsItsHash'
    BY <1>b, <1>9, <2>2 DEF ShowsItsHash, Reading
  <2> QED
    BY <1>b, <1>9, <2>3, <2>4
<1>10. CASE OpenGate
  <2>1. OnPage /\ Still /\ page' = [page EXCEPT !.picked = page'.picked] /\ click' = click
    BY <1>10, <1>a DEF OpenGate, Clicked, Pages
  <2> QED
    BY <1>9, <2>1
<1>11. ASSUME NEW s \in Stages \union {NoStage}, Pick(s) PROVE PagesInv'
  <2>1. OnPage /\ Still /\ page' = [page EXCEPT !.picked = page'.picked] /\ click' = click
    BY <1>11, <1>a DEF Pick, Pages
  <2> QED
    BY <1>9, <2>1
<1> QED
  BY <1>1, <1>2, <1>3, <1>4, <1>5, <1>6, <1>7, <1>8, <1>10, <1>11 DEF RunPage

\* Each step of the home page, its removals among them, keeps the invariant.
LEMMA HomePageKeepsInv ==
  ASSUME PagesTypeOK, PagesInv, HomePage PROVE PagesInv'
<1>a. page \in Pages /\ files \in RunFiles /\ home \in Homes /\ tab \in {"run", "home"}
      /\ click \in [saw : Gated, picked : BOOLEAN]
  BY DEF PagesTypeOK
<1> USE DEF PagesInv
<1>b. ASSUME AtHome, UNCHANGED run
      PROVE  /\ RunTold' /\ ReadSoFar' /\ ShowsItsHash' /\ ClickKeepsStage' /\ DecidesInTheStageSeen'
             /\ tab = "home" /\ tab' = "home" /\ files' = files
  BY <1>b DEF AtHome, run, RunTold, ReadSoFar, ShowsItsHash, ClickKeepsStage, DecidesInTheStageSeen, Reading
<1>c. ASSUME AtHome, UNCHANGED run, home'.seen = home.seen, home'.row = home.row,
             home'.cached = home.cached, home'.old = home.old, home'.pc # "rest",
             home'.confirm => home'.ticked = home'.asked
      PROVE  PagesInv'
  <2>1. RowSoFar' /\ RemovesWhatWasAsked'
    BY <1>c DEF RowSoFar, RemovesWhatWasAsked
  <2>2. KeepsTrueRow'
    BY <1>b, <1>c DEF KeepsTrueRow, Kept, Reading
  <2> QED
    BY <1>b, <1>c, <2>1, <2>2
<1>d. \A T : AtHome /\ UNCHANGED run /\ home.pc = "idle" /\ home' = Toggled(T) => PagesInv'
  <2> SUFFICES ASSUME NEW T, AtHome, UNCHANGED run, home.pc = "idle", home' = Toggled(T) PROVE PagesInv'
    OBVIOUS
  <2>1. /\ home'.seen = home.seen /\ home'.row = home.row /\ home'.cached = home.cached
        /\ home'.old = home.old /\ home'.pc = "idle" /\ ~home'.confirm
    BY <1>a DEF Toggled, Homes
  <2> QED
    BY <1>c, <2>1
<1>1. CASE TakeKey
  <2>1. /\ home'.seen = home.seen /\ home'.row = home.row /\ home'.cached = home.cached
        /\ home'.old = home.old /\ home'.pc # "rest" /\ home'.confirm = home.confirm
        /\ home'.ticked = home.ticked /\ home'.asked = home.asked
    <3>1. CASE ~files.there
      BY <1>1, <1>a, <3>1 DEF TakeKey, Homes
    <3>2. CASE files.there /\ Kept
      BY <1>1, <1>a, <3>2 DEF TakeKey, Homes
    <3>3. CASE files.there /\ ~Kept
      BY <1>1, <1>a, <3>3 DEF TakeKey, Homes
    <3> QED
      BY <3>1, <3>2, <3>3
  <2> QED
    BY <1>1, <1>c, <2>1 DEF TakeKey, RemovesWhatWasAsked
<1>2. CASE ReadRecord
  <2>1. CASE ~files.there
    <3>1. home' = [home EXCEPT !.pc = "idle", !.since = FALSE, !.rows = Others]
      BY <1>2, <2>1 DEF ReadRecord
    <3>2. /\ home'.seen = home.seen /\ home'.row = home.row /\ home'.cached = home.cached
          /\ home'.old = home.old /\ home'.pc = "idle" /\ home'.confirm = home.confirm
          /\ home'.ticked = home.ticked /\ home'.asked = home.asked
      BY <1>a, <3>1 DEF Homes
    <3> QED
      BY <1>2, <1>c, <3>2 DEF ReadRecord, RemovesWhatWasAsked
  <2>2. CASE files.there
    <3> DEFINE R == [home.seen EXCEPT !.status = files.status, !.steps = files.steps,
                                      !.stale = files.status = "RUNNING" /\ ~Live]
    <3>1. home' = [home EXCEPT !.pc = "rest", !.seen = R]
      BY <1>2, <1>a, <2>2 DEF ReadRecord, Homes, Readings
    <3>2. R.status = files.status /\ R.steps = files.steps /\ R.stop = home.seen.stop
          /\ (R.stale => files.status = "RUNNING")
      BY <1>a DEF Homes, Readings
    <3> HIDE DEF R
    <3>3. /\ home'.seen = R /\ home'.row = home.row /\ home'.cached = home.cached
          /\ home'.old = home.old /\ home'.confirm = home.confirm
          /\ home'.ticked = home.ticked /\ home'.asked = home.asked
      BY <1>a, <3>1 DEF Homes
    <3>4. files' = files /\ tab' = "home"
      BY <1>2, <1>b DEF ReadRecord
    <3>5. RowSoFar' /\ RemovesWhatWasAsked'
      BY <3>2, <3>3, <3>4 DEF RowSoFar, RemovesWhatWasAsked
    <3>6. KeepsTrueRow'
      BY <3>3, <3>4 DEF KeepsTrueRow, Kept, Reading
    <3> QED
      BY <1>2, <1>b, <3>5, <3>6 DEF ReadRecord
  <2> QED
    BY <2>1, <2>2
<1>3. CASE ReadRest
  <2> DEFINE d == [home.seen EXCEPT !.halt = files.halt, !.asks = files.asks, !.decided = files.decided]
             e == Reading(~home.seen.stale, FALSE)
  <2>0. home.pc = "rest" /\ AtHome /\ UNCHANGED run
    BY <1>3 DEF ReadRest
  <2>1. home' = [home EXCEPT !.pc = "idle", !.seen = NoReading, !.cached = TRUE, !.old = home.since,
                   !.since = FALSE, !.row = Row(d), !.rows = Others \union {This}]
    BY <1>3 DEF ReadRest, ChangedSinceKey
  <2>2. /\ home'.seen = NoReading /\ home'.pc = "idle" /\ home'.old = home.since /\ home'.row = Row(d)
        /\ home'.confirm = home.confirm /\ home'.ticked = home.ticked /\ home'.asked = home.asked
    BY <1>a, <2>1 DEF Homes
  <2>3. ~NoReading.stop
    BY DEF NoReading
  <2>4. files' = files /\ tab = "home" /\ tab' = "home"
    BY <1>b, <2>0
  <2>5. ~home.since => Row(d) = Row(e)
    <3>1. /\ d.status = home.seen.status /\ d.steps = home.seen.steps /\ d.stale = home.seen.stale
          /\ d.halt = files.halt /\ d.asks = files.asks /\ d.decided = files.decided
      BY <1>a DEF Homes, Readings
    <3>2. /\ e.status = files.status /\ e.steps = files.steps /\ e.halt = files.halt
          /\ e.asks = files.asks /\ e.decided = files.decided
          /\ e.stale = (files.status = "RUNNING" /\ home.seen.stale)
      BY DEF Reading
    <3>3. ~home.since => /\ home.seen.status = files.status /\ home.seen.steps = files.steps
                         /\ home.seen.stale => files.status = "RUNNING"
      BY <2>0, <2>4 DEF RowSoFar
    <3>4. home.seen.stale \in BOOLEAN
      BY <1>a DEF Homes, Readings
    <3> HIDE DEF d, e
    <3> QED
      BY <3>1, <3>2, <3>3, <3>4 DEF Row, Bucket, HomeDot
  <2>6. (~home.seen.stale) \in BOOLEAN
    OBVIOUS
  <2>7. KeepsTrueRow'
    <3> HIDE DEF d
    <3>1. ~home.since => \E live \in BOOLEAN : Row(d) = Row(Reading(live, FALSE))
      BY <2>5, <2>6
    <3> QED
      BY <2>2, <2>4, <3>1 DEF KeepsTrueRow, Kept, Reading
  <2>8. RowSoFar' /\ RemovesWhatWasAsked'
    BY <2>2, <2>3 DEF RowSoFar, RemovesWhatWasAsked
  <2> QED
    BY <1>b, <2>0, <2>7, <2>8
<1>4. CASE SelectAll
  BY <1>4, <1>d DEF SelectAll
<1>5. CASE AskToRemove
  <2>1. /\ home'.seen = home.seen /\ home'.row = home.row /\ home'.cached = home.cached
        /\ home'.old = home.old /\ home'.pc = "idle" /\ home'.asked = home'.ticked
    BY <1>5, <1>a DEF AskToRemove, Homes
  <2> QED
    BY <1>5, <1>c, <2>1 DEF AskToRemove
<1>6. CASE RemoveSelected
  <2> DEFINE gone == home.ticked \intersect ({Other} \union IF files.there /\ ~Live THEN {This} ELSE {})
             K == [home EXCEPT !.ticked = {}, !.confirm = FALSE, !.asked = {},
                               !.other = home.other /\ Other \notin gone]
             changed == IF This \in gone THEN Every ELSE {}
  <2>1. /\ K \in Homes /\ K.pc = home.pc /\ K.seen = home.seen /\ K.row = home.row
        /\ K.cached = home.cached /\ K.old = home.old /\ K.since = home.since /\ ~K.confirm
    BY <1>a DEF Homes
  <2>2. /\ files' = IF This \in gone THEN NoFiles ELSE files
        /\ session' = IF This \in gone THEN Off ELSE session
        /\ Notice(page, K, changed)
        /\ used' = used \/ Turn
        /\ UNCHANGED <<tab, click, astray>>
    BY <1>6 DEF RemoveSelected
  <2>3. This \notin gone => HashedSame /\ KeyedSame
    BY <1>a, <2>2 DEF HashedSame, KeyedSame, RunFiles
  <2>4. This \in gone => changed \intersect Hashed # {} /\ changed \intersect Keyed # {}
    BY DEF Every, Hashed, Keyed
  <2>5. RunTold'
    BY <2>2 DEF RunTold, NoFiles, Off
  <2> HIDE DEF K, changed, gone
  <2>6. ReadSoFar' /\ ShowsItsHash' /\ ClickKeepsStage'
    BY <2>2, <2>3, <2>4, PageIsTold
  <2>7. RowSoFar' /\ KeepsTrueRow'
    BY <2>1, <2>2, <2>3, <2>4, RowIsTold
  <2>8. RemovesWhatWasAsked'
    BY <2>1, <2>2, NoticeKeepsTicks DEF RemovesWhatWasAsked
  <2>9. DecidesInTheStageSeen'
    BY <2>2 DEF DecidesInTheStageSeen
  <2> QED
    BY <2>5, <2>6, <2>7, <2>8, <2>9
<1>7. CASE StopRow
  <2>1. /\ files' = [files EXCEPT !.stop = TRUE] /\ Notice(page, home, {})
        /\ UNCHANGED <<session, used>> /\ UNCHANGED <<tab, click, astray>>
    BY <1>7 DEF StopRow, Changed
  <2>2. HashedSame /\ KeyedSame
    BY <1>a, <2>1 DEF HashedSame, KeyedSame, RunFiles
  <2>3. RunTold'
    BY <1>a, <2>1 DEF RunTold, RunFiles
  <2>4. ReadSoFar' /\ ShowsItsHash' /\ ClickKeepsStage'
    BY <2>1, <2>2, PageIsTold
  <2>5. RowSoFar' /\ KeepsTrueRow' /\ RemovesWhatWasAsked'
    BY <1>a, <2>1, <2>2, RowIsTold, NoticeKeepsTicks DEF RemovesWhatWasAsked
  <2>6. DecidesInTheStageSeen'
    BY <2>1 DEF DecidesInTheStageSeen
  <2> QED
    BY <2>3, <2>4, <2>5, <2>6
<1>8. CASE OpenRow
  <2>1. /\ tab = "home" /\ tab' = "run" /\ UNCHANGED <<run, click, astray>>
        /\ page' = [Building(page, "person") EXCEPT !.polls = TRUE, !.picked = NoStage]
    BY <1>8 DEF OpenRow
  <2>2. page'.pc = "state" /\ page'.stale
    BY <1>a, <2>1 DEF Building, Pages
  <2>3. RunTold' /\ DecidesInTheStageSeen'
    BY <2>1 DEF run, RunTold, DecidesInTheStageSeen
  <2>4. ReadSoFar' /\ ShowsItsHash' /\ ClickKeepsStage'
    BY <2>1, <2>2 DEF ReadSoFar, ShowsItsHash, ClickKeepsStage
  <2>5. home'.seen = home.seen /\ ~home'.cached /\ ~home'.confirm
    BY <1>8, <1>a DEF OpenRow, Homes
  <2>6. RowSoFar' /\ KeepsTrueRow' /\ RemovesWhatWasAsked'
    BY <2>1, <2>5 DEF RowSoFar, KeepsTrueRow, Kept, RemovesWhatWasAsked
  <2> QED
    BY <2>3, <2>4, <2>6
<1>9. ASSUME NEW w \in {"all", "completed"}, Filter(w) PROVE PagesInv'
  <2>1. /\ home'.seen = home.seen /\ home'.row = home.row /\ home'.cached = home.cached
        /\ home'.old = home.old /\ home'.pc = "idle" /\ home'.confirm = home.confirm
        /\ home'.ticked = home.ticked /\ home'.asked = home.asked
    BY <1>9, <1>a DEF Filter, Homes
  <2> QED
    BY <1>9, <1>c, <2>1 DEF Filter, RemovesWhatWasAsked
<1>10. ASSUME NEW r \in {This, Other}, ToggleSelect(r) PROVE PagesInv'
  BY <1>10, <1>d DEF ToggleSelect
<1> QED
  BY <1>1, <1>2, <1>3, <1>4, <1>5, <1>6, <1>7, <1>8, <1>9, <1>10 DEF HomePage

\* The invariant the theorems on the pages follow from holds in every state.
LEMMA PagesInvariant == PagesSpec => []PagesInv
<1>1. PagesInit => PagesInv
  <2> SUFFICES ASSUME PagesInit PROVE PagesInv
    OBVIOUS
  <2>1. RunTold /\ ClickKeepsStage /\ DecidesInTheStageSeen
    BY DEF PagesInit, NewFiles, NoFiles, Off, NoClick, RunTold, ClickKeepsStage, DecidesInTheStageSeen
  <2>2. ReadSoFar /\ ShowsItsHash
    BY DEF PagesInit, ReadSoFar, ShowsItsHash
  <2>3. RowSoFar /\ KeepsTrueRow /\ RemovesWhatWasAsked
    BY DEF PagesInit, NoReading, RowSoFar, KeepsTrueRow, Kept, RemovesWhatWasAsked
  <2> QED
    BY <2>1, <2>2, <2>3 DEF PagesInv
<1>2. PagesTypeOK /\ PagesInv /\ [PagesNext]_pagesVars => PagesInv'
  <2>1. ASSUME PagesInv, UNCHANGED pagesVars PROVE PagesInv'
    <3>1. RunTold' /\ ReadSoFar' /\ ClickKeepsStage' /\ DecidesInTheStageSeen' /\ RowSoFar' /\ RemovesWhatWasAsked'
      BY <2>1 DEF pagesVars, run, PagesInv, RunTold, ReadSoFar, ClickKeepsStage, DecidesInTheStageSeen,
                  RowSoFar, RemovesWhatWasAsked
    <3>2. ShowsItsHash' /\ KeepsTrueRow'
      BY <2>1 DEF pagesVars, run, PagesInv, ShowsItsHash, KeepsTrueRow, Kept, Reading
    <3> QED
      BY <3>1, <3>2 DEF PagesInv
  <2> QED
    BY <2>1, RunKeepsInv, RunPageKeepsInv, HomePageKeepsInv DEF PagesNext
<1> QED
  BY <1>1, <1>2, PagesTypeCorrect, PTL DEF PagesSpec

\* A page at rest under the folder's own hash shows the folder, but for what no hashed file tells
\* and what changed while it was built (`S._apply`, model.py `refresh_hash`).
THEOREM PageIsCurrent == PagesSpec => []PageShowsItsHash
<1>1. PagesInv => PageShowsItsHash
  BY DEF PagesInv, ShowsItsHash, PageShowsItsHash
<1> QED
  BY <1>1, PagesInvariant, PTL

\* Whatever happens while a click is on its way, a person who picked a stage decides a gate of it
\* (`S.decide`, `S.selected`).
THEOREM ClicksKeepTheirStage == PagesSpec => []DecidesInTheStageSeen
<1>1. PagesInv => DecidesInTheStageSeen
  BY DEF PagesInv
<1> QED
  BY <1>1, PagesInvariant, PTL

\* No write slips in between a row's key and the row (home.py `row_for`).
THEOREM KeptRowsAreTrue == PagesSpec => []KeptRowIsTrue
<1>1. PagesInv => KeptRowIsTrue
  BY DEF PagesInv, KeepsTrueRow, KeptRowIsTrue
<1> QED
  BY <1>1, PagesInvariant, PTL

\* The second click removes nothing the first was not asked for (`H.remove_selected`).
THEOREM RemovalIsAsked == PagesSpec => []RemovesWhatWasAsked
<1>1. PagesInv => RemovesWhatWasAsked
  BY DEF PagesInv
<1> QED
  BY <1>1, PagesInvariant, PTL
================================================================================
