-------------------------------- MODULE Driver --------------------------------
(***************************************************************************)
(* The drive loop of one run (driver/driver.py, driver/runner.py,          *)
(* driver/halt.py).  The program's steps are derived from the files on     *)
(* disk; `next` issues the ready ones, a round executes them one by one or *)
(* in a pool of threads, `done` accepts a step whose deliverables exist,   *)
(* and any refusal, failure or STOP file ends the loop with a halt report. *)
(* The process may die between any two steps and be started again; a       *)
(* person may remove a file, ask for a stop, or undo a step.               *)
(*                                                                         *)
(* Steps are numbered in the order the program lists them.  One call of    *)
(* `RunState.update` is one step here, as StateRecordProofs justifies.     *)
(* halt.json is written with no lock, so its staging is kept.              *)
(*                                                                         *)
(* A definition marked (mutant) is used by no specification: it is a       *)
(* plausible mistake in the definition below it, which a property must     *)
(* refuse.                                                                 *)
(***************************************************************************)
EXTENDS Integers, FiniteSets

CONSTANTS NSteps,        \* the steps are 1..NSteps
          Files,         \* the files of the run folder the program looks at
          After,         \* After[s]: the steps s waits for
          Lists,         \* Lists[S]: the steps the program lists when the files S exist
          Deliverables,  \* Deliverables[s]: the files step s declares
          Lands,         \* Lands[s]: the files its execution writes
          Authors,       \* the steps a model answers: they name what they landed
          Gates,         \* the steps that wait for a person's decision
          Parallel,      \* the pool's size; 1 is one step at a time
          MaxFaults      \* bound: deaths, failures, stops, removals and undos together

Steps == 1..NSteps

ASSUME NStepsAssumption == NSteps \in Nat \ {0}
ASSUME ParallelAssumption == Parallel \in Nat \ {0}
ASSUME MaxFaultsAssumption == MaxFaults \in Nat
ASSUME AfterAssumption == After \in [Steps -> SUBSET Steps]
ASSUME FilesAssumption ==
  /\ Lists \in [SUBSET Files -> SUBSET Steps]
  /\ Deliverables \in [Steps -> SUBSET Files]
  /\ Lands \in [Steps -> SUBSET Files]
ASSUME KindsAssumption == Authors \subseteq Steps /\ Gates \subseteq Steps

VARIABLES
  rec,       \* state.json `steps`: how far each step's record says it is
  proof,     \* state.json: the deliverables recorded with a done step
  status,    \* state.json `status`
  halt,      \* halt.json: absent, or whether it says the run may be resumed
  staged,    \* the temporary file beside halt.json, one name for the whole process
  stop,      \* the STOP file exists
  disk,      \* the files of the run folder
  decided,   \* the gates whose decision file exists
  main,      \* where the drive loop stands
  ending,    \* what `drive` reports and returns
  worker,    \* where the execution of each step of the round stands
  written,   \* what this execution of each step has written
  result,    \* what each execution came to
  seen,      \* (history) the steps listed when `next` found nothing ready
  lost,      \* (history) the files a person or an undo took away, not written again since
  late,      \* (history) the steps started since a STOP file lies there, up to two
  faults     \* (bound) what has gone wrong so far

vars == <<rec, proof, status, halt, staged, stop, disk, decided, main, ending,
          worker, written, result, seen, lost, late, faults>>
stateVars == <<rec, proof, status>>
haltVars == <<halt, staged>>
personVars == <<stop, decided, lost, faults>>
roundVars == <<worker, written, result>>

Begun == {"admit", "start", "work", "stage", "publish", "set"}
HaltKinds == {"resumable", "broke"}
StatusOf(kind) == IF kind = "resumable" THEN "PAUSED" ELSE "FAILED"
Fault == faults < MaxFaults /\ faults' = faults + 1

Idle == [s \in Steps |-> "none"]
Nothing == [s \in Steps |-> {}]

Init ==
  /\ rec = Idle /\ proof = Nothing /\ status = "QUEUED"
  /\ halt = "none" /\ staged = "none"
  /\ stop = FALSE /\ decided = {}
  /\ disk = {} /\ lost = {}
  /\ main = "off" /\ ending = "none"
  /\ worker = Idle /\ written = Nothing /\ result = Idle
  /\ seen = {} /\ late = 0 /\ faults = 0

------------------------------------------------------------------------------
(* What the driver derives from disk. *)

\* `program.steps`: the steps the files on disk call for.  One more file may list more steps,
\* or fewer.
Listed == Lists[disk]

Present(s) == Deliverables[s] \subseteq disk

\* Done is the record and the deliverables; a record without them is open again.
DoneSteps == {s \in Listed : rec[s] = "done" /\ Present(s)}
Reopened == {s \in Listed : rec[s] = "done" /\ ~Present(s)}
\* (mutant) A step no longer listed is not waited for.
ReadyOfListed == {s \in Listed \ DoneSteps : After[s] \intersect Listed \subseteq DoneSteps}

Ready == {s \in Listed \ DoneSteps : After[s] \subseteq DoneSteps}

\* (mutant) Only the steps that have a record are pending.
PendingOfIssued == {s \in Listed : rec[s] \in {"issued", "started"}}

\* `all_pending` asks the record alone.
Pending == {s \in Listed : rec[s] # "done"}

\* What `done` demands: the declared deliverables of a step that is still listed, and what an
\* author's landing says it produced.
Required(s) == (IF s \in Listed THEN Deliverables[s] ELSE {})
               \union (IF s \in Authors THEN Lands[s] ELSE {})

------------------------------------------------------------------------------
(* The loop: begin, STOP, next, the round, finish, the report. *)

\* (mutant) The halt of the last session stays.
BeginKeepsHalt ==
  /\ main = "off"
  /\ main' = "begun" /\ ending' = "none"
  /\ UNCHANGED <<stateVars, haltVars, disk, personVars, roundVars, seen, late>>

\* `begin` clears a halt left by the last session ...
Begin ==
  /\ main = "off"
  /\ main' = "begun" /\ ending' = "none"
  /\ halt' = "none"
  /\ UNCHANGED <<stateVars, staged, disk, personVars, roundVars, seen, late>>

\* ... and marks the run RUNNING.
SetRunning ==
  /\ main = "begun"
  /\ status' = "RUNNING" /\ main' = "top"
  /\ UNCHANGED <<rec, proof, haltVars, ending, disk, personVars, roundVars, seen, late>>

\* (mutant) The STOP file is not consumed.
CheckStopKeepsFile ==
  /\ main = "top"
  /\ IF stop THEN main' = "report" /\ ending' = "resumable" /\ late' = 0
             ELSE main' = "next" /\ UNCHANGED <<ending, late>>
  /\ UNCHANGED <<stateVars, haltVars, disk, personVars, roundVars, seen>>

\* A STOP file is consumed and becomes a resumable halt.
CheckStop ==
  /\ main = "top"
  /\ IF stop THEN main' = "report" /\ ending' = "resumable" /\ late' = 0
             ELSE main' = "next" /\ UNCHANGED <<ending, late>>
  /\ stop' = FALSE
  /\ UNCHANGED <<stateVars, haltVars, disk, decided, lost, faults, roundVars, seen>>

\* `Driver.next`: a done step whose deliverable is missing is opened, a ready step gets a
\* record, and the ready steps are the round.
DriverNext ==
  /\ main = "next"
  /\ rec' = [s \in Steps |-> CASE s \in Reopened -> "started"
                               [] s \in Ready /\ rec[s] = "none" -> "issued"
                               [] OTHER -> rec[s]]
  /\ proof' = [s \in Steps |-> IF s \in Reopened THEN {} ELSE proof[s]]
  /\ worker' = [s \in Steps |-> IF s \in Ready THEN "queued" ELSE "none"]
  /\ written' = Nothing /\ result' = Idle
  /\ main' = IF Ready = {} THEN "finish" ELSE "round"
  /\ seen' = IF Ready = {} THEN Listed ELSE {}
  /\ UNCHANGED <<status, haltVars, ending, disk, personVars, late>>

\* `finish`: complete, or a report that the program is blocked.
Finish ==
  /\ main = "finish"
  /\ IF Pending = {}
       THEN status' = "COMPLETED" /\ ending' = "completed" /\ main' = "close"
       ELSE ending' = "broke" /\ main' = "report" /\ UNCHANGED status
  /\ seen' = {}
  /\ UNCHANGED <<rec, proof, haltVars, disk, personVars, roundVars, late>>

\* The loop's own code raises, the report of a STOP included: `drive` reports that too.
LoopRaises ==
  /\ main \in {"begun", "top", "next", "finish"} \/ (main = "reported" /\ ending = "resumable")
  /\ Fault
  /\ main' = "report" /\ ending' = "broke"
  /\ UNCHANGED <<stateVars, haltVars, disk, stop, decided, lost, roundVars, seen, late>>

\* `_halt` called by the loop: no step runs any more, nobody shares the staging name.
Report ==
  /\ main = "report"
  /\ halt' = ending /\ staged' = "none" /\ main' = "reported"
  /\ UNCHANGED <<stateVars, ending, disk, personVars, roundVars, seen, late>>

SetHalted ==
  /\ main = "reported"
  /\ status' = StatusOf(ending) /\ main' = "close"
  /\ UNCHANGED <<rec, proof, haltVars, ending, disk, personVars, roundVars, seen, late>>

Close ==
  /\ main = "close"
  /\ main' = "off"
  /\ worker' = Idle /\ written' = Nothing /\ result' = Idle
  /\ UNCHANGED <<stateVars, haltVars, ending, disk, personVars, seen, late>>

------------------------------------------------------------------------------
(* The round: `_execute_ready`. *)

Round == {s \in Steps : worker[s] # "none"}
Queued == {s \in Steps : worker[s] = "queued"}
Running == {s \in Steps : worker[s] \in Begun}
OneByOne == Cardinality(Round) = 1 \/ Parallel = 1

FirstIn(s, S) == s \in S /\ \A u \in S : s <= u

\* (mutant) No look for a STOP file between the steps of a round.
TakeBlindly(s) ==
  /\ main = "round" /\ FirstIn(s, Queued) /\ Running = {}
  /\ \A u \in Round : result[u] = "none"
  /\ worker' = [worker EXCEPT ![s] = "admit"]
  /\ UNCHANGED <<stateVars, haltVars, disk, personVars, main, ending, written, result, seen, late>>

\* One by one: the next step begins when the last came to nothing and no STOP lies there;
\* the first begins without that look.
\* In the pool: the next in the list begins when a thread is free.
Take(s) ==
  /\ main = "round" /\ FirstIn(s, Queued)
  /\ IF OneByOne
       THEN /\ Running = {}
            /\ Queued = Round \/ ((\A u \in Round : result[u] = "none") /\ ~stop)
       ELSE Cardinality(Running) < Parallel
  /\ worker' = [worker EXCEPT ![s] = "admit"]
  /\ UNCHANGED <<stateVars, haltVars, disk, personVars, main, ending, written, result, seen, late>>

\* An exception comes out of the pool's results in list order: when it does, what no thread
\* has taken up yet is cancelled.
CancelQueued ==
  /\ main = "round" /\ ~OneByOne /\ Queued # {}
  /\ \E s \in Round : /\ result[s] \in {"raised", "unreported"}
                      /\ \A u \in Round : u <= s => worker[u] = "out"
  /\ worker' = [s \in Steps |-> IF s \in Queued THEN "none" ELSE worker[s]]
  /\ UNCHANGED <<stateVars, haltVars, disk, personVars, main, ending, written, result, seen, late>>

\* (mutant) A halt in one step ends the round at once.
RoundOverAtFirstHalt == (Running = {} /\ Queued = {}) \/ \E s \in Round : result[s] # "none"

\* Nothing runs and nothing more begins: every step of the pool is out; one by one, the rest
\* waits behind a halt or a STOP file.
RoundOver ==
  /\ Running = {}
  /\ \/ Queued = {}
     \/ OneByOne /\ Queued # Round /\ (stop \/ \E s \in Round : result[s] # "none")

\* An exception of a step is the loop's own halt; else the first outcome in list order is
\* returned; else the loop goes on.
Return ==
  /\ main = "round" /\ RoundOver
  /\ LET ended == {s \in Round : result[s] # "none"} IN
       IF \E s \in ended : result[s] \in {"raised", "unreported"}
         THEN main' = "report" /\ ending' = "broke"
         ELSE IF ended = {}
           THEN main' = "top" /\ UNCHANGED ending
           ELSE main' = "close" /\ \E s \in ended : FirstIn(s, ended) /\ ending' = result[s]
  /\ UNCHANGED <<stateVars, haltVars, disk, personVars, roundVars, seen, late>>

------------------------------------------------------------------------------
(* One step: `_execute`. *)

Goto(s, label) == worker' = [worker EXCEPT ![s] = label]

Halted(s, kind) == Goto(s, "stage") /\ result' = [result EXCEPT ![s] = kind]

\* An exception, which `_execute` lets through.
Throws(s) == Fault /\ Goto(s, "out") /\ result' = [result EXCEPT ![s] = "raised"]

\* The ceilings and the policy let the step through ...
Admit(s) ==
  /\ worker[s] = "admit"
  /\ Goto(s, "start")
  /\ UNCHANGED <<stateVars, haltVars, disk, personVars, main, ending, written, result, seen, late>>

\* ... or halt before it starts: a ceiling (only a model's step) may be raised and the run
\* resumed, a denial is final.
Denied(s) ==
  /\ worker[s] = "admit" /\ Fault
  /\ \E kind \in HaltKinds : (kind = "resumable" => s \in Authors) /\ Halted(s, kind)
  /\ UNCHANGED <<stateVars, haltVars, disk, stop, decided, lost, main, ending, written, seen, late>>

\* `Driver.start`, on the record `next` issued.
Start(s) ==
  /\ worker[s] = "start"
  /\ rec' = [rec EXCEPT ![s] = "started"]
  /\ late' = IF stop /\ late < 2 THEN late + 1 ELSE late
  /\ Goto(s, "work")
  /\ UNCHANGED <<proof, status, haltVars, disk, personVars, main, ending, written, result, seen>>

\* The execution writes a file.
Land(s, f) ==
  /\ worker[s] = "work" /\ f \in Lands[s] \ written[s]
  /\ s \in Gates => s \in decided
  /\ written' = [written EXCEPT ![s] = @ \union {f}]
  /\ disk' = disk \union {f} /\ lost' = lost \ {f}
  /\ UNCHANGED <<stateVars, haltVars, stop, decided, faults, main, ending, worker, result, seen, late>>

\* (mutant) The deliverables are recorded and not looked at.
DoneUnchecked(s) ==
  /\ worker[s] = "work" /\ written[s] = Lands[s]
  /\ s \in Gates => s \in decided
  /\ rec' = [rec EXCEPT ![s] = "done"]
  /\ proof' = [proof EXCEPT ![s] = Required(s)]
  /\ Goto(s, "out")
  /\ UNCHANGED <<status, haltVars, disk, personVars, main, ending, written, result, seen, late>>

\* (mutant) A deliverable that is missing is waited for.
DoneWhenThere(s) ==
  /\ worker[s] = "work" /\ written[s] = Lands[s] /\ Required(s) \subseteq disk
  /\ s \in Gates => s \in decided
  /\ rec' = [rec EXCEPT ![s] = "done"]
  /\ proof' = [proof EXCEPT ![s] = Required(s)]
  /\ Goto(s, "out")
  /\ UNCHANGED <<status, haltVars, disk, personVars, main, ending, written, result, seen, late>>

\* `Driver.done`: refused when a deliverable is missing, which halts the step.  Once the record
\* says done the event log may still refuse its line.
Done(s) ==
  /\ worker[s] = "work" /\ written[s] = Lands[s]
  /\ s \in Gates => s \in decided
  /\ IF Required(s) \subseteq disk
       THEN /\ rec' = [rec EXCEPT ![s] = "done"]
            /\ proof' = [proof EXCEPT ![s] = Required(s)]
            /\ Throws(s) \/ (Goto(s, "out") /\ UNCHANGED <<result, faults>>)
       ELSE Halted(s, "resumable") /\ UNCHANGED <<rec, proof, faults>>
  /\ UNCHANGED <<status, haltVars, disk, stop, decided, lost, main, ending, written, seen, late>>

\* A refused answer, a failed command, a check with problems, a gate that timed out: an
\* honest halt.  A refused author has written nothing.  A command the policy denies is final.
Refused(s) ==
  /\ worker[s] = "work" /\ Fault
  /\ s \in Authors => written[s] = {}
  /\ s \in Gates => s \notin decided
  /\ \E kind \in HaltKinds :
       /\ kind = "broke" => s \notin Authors \union Gates /\ written[s] = {}
       /\ Halted(s, kind)
  /\ UNCHANGED <<stateVars, haltVars, disk, stop, decided, lost, main, ending, written, seen, late>>

\* An exception anywhere on the way of a step: a ceiling or a policy that cannot be read, a
\* start that fails, its own code whatever it had written, its halt half reported.
Raises(s) ==
  /\ worker[s] \in Begun /\ Throws(s)
  /\ UNCHANGED <<stateVars, haltVars, disk, stop, decided, lost, main, ending, written, seen, late>>

\* `_halt` in a step's thread: the report is staged under the name all threads share ...
StageHalt(s) ==
  /\ worker[s] = "stage"
  /\ staged' = result[s]
  /\ Goto(s, "publish")
  /\ UNCHANGED <<stateVars, halt, disk, personVars, main, ending, written, result, seen, late>>

\* ... and renamed over halt.json; a thread that finds it gone raises FileNotFoundError.
PublishHalt(s) ==
  /\ worker[s] = "publish"
  /\ IF staged = "none"
       THEN /\ Goto(s, "out") /\ result' = [result EXCEPT ![s] = "unreported"]
            /\ UNCHANGED haltVars
       ELSE /\ halt' = staged /\ staged' = "none"
            /\ Goto(s, "set") /\ UNCHANGED result
  /\ UNCHANGED <<stateVars, disk, personVars, main, ending, written, seen, late>>

SetStepHalted(s) ==
  /\ worker[s] = "set"
  /\ status' = StatusOf(result[s])
  /\ Goto(s, "out")
  /\ UNCHANGED <<rec, proof, haltVars, disk, personVars, main, ending, written, result, seen, late>>

------------------------------------------------------------------------------
(* What happens to a run. *)

\* The process dies; the files stay as they are.
Die ==
  /\ main # "off" /\ Fault
  /\ main' = "off" /\ ending' = "none"
  /\ worker' = Idle /\ written' = Nothing /\ result' = Idle
  /\ UNCHANGED <<stateVars, haltVars, disk, stop, decided, lost, seen, late>>

Lose(f) ==
  /\ f \in disk /\ Fault
  /\ disk' = disk \ {f} /\ lost' = lost \union {f}
  /\ UNCHANGED <<stateVars, haltVars, stop, decided, main, ending, roundVars, seen, late>>

\* `cancel` and `pause`: a STOP file, whatever the run is doing.
Cancel ==
  /\ ~stop /\ Fault
  /\ stop' = TRUE /\ late' = 0
  /\ UNCHANGED <<stateVars, haltVars, disk, decided, lost, main, ending, roundVars, seen>>

Decide(g) ==
  /\ g \in Gates \ decided /\ worker[g] = "work"
  /\ decided' = decided \union {g}
  /\ UNCHANGED <<stateVars, haltVars, disk, stop, lost, faults, main, ending, roundVars, seen, late>>

\* `Driver.undo`: the record goes, the recorded deliverables move aside.
Undo(s) ==
  /\ main = "off" /\ rec[s] # "none" /\ Fault
  /\ rec' = [rec EXCEPT ![s] = "none"]
  /\ proof' = [proof EXCEPT ![s] = {}]
  /\ disk' = disk \ proof[s] /\ lost' = lost \union (disk \intersect proof[s])
  /\ UNCHANGED <<status, haltVars, stop, decided, main, ending, roundVars, seen, late>>

Loop == SetRunning \/ CheckStop \/ DriverNext \/ Finish \/ LoopRaises \/ Report \/ SetHalted \/ Close
        \/ CancelQueued \/ Return
Execute(s) == \/ Take(s) \/ Admit(s) \/ Denied(s) \/ Start(s) \/ Done(s)
              \/ (\E f \in Files : Land(s, f))
              \/ Refused(s) \/ Raises(s) \/ StageHalt(s) \/ PublishHalt(s) \/ SetStepHalted(s)
World == Die \/ Cancel \/ (\E f \in Files : Lose(f)) \/ (\E s \in Steps : Undo(s))

Next == Begin \/ Loop \/ (\E s \in Steps : Execute(s)) \/ (\E g \in Gates : Decide(g)) \/ World

Spec == Init /\ [][Next]_vars

\* A live process keeps running: the loop and each thread of the pool.
LiveSpec == Spec /\ WF_vars(Loop) /\ \A s \in Steps : WF_vars(Execute(s))

\* And people do their part: they answer the gates and resume a run that is not complete.
PeopleSpec == /\ LiveSpec
              /\ WF_vars(status # "COMPLETED" /\ Begin)
              /\ \A g \in Gates : WF_vars(Decide(g))

------------------------------------------------------------------------------
(* Properties. *)

RecordStates == {"none", "issued", "started", "done"}

\* Every variable holds a value of its kind.
TypeOK ==
  /\ rec \in [Steps -> RecordStates]
  /\ proof \in [Steps -> SUBSET Files]
  /\ status \in {"QUEUED", "RUNNING", "PAUSED", "FAILED", "COMPLETED"}
  /\ halt \in HaltKinds \union {"none"} /\ staged \in HaltKinds \union {"none"}
  /\ stop \in BOOLEAN /\ decided \subseteq Gates
  /\ disk \subseteq Files /\ lost \subseteq Files /\ seen \subseteq Steps
  /\ main \in {"off", "begun", "top", "next", "round", "finish", "report", "reported", "close"}
  /\ ending \in HaltKinds \union {"none", "completed"}
  /\ worker \in [Steps -> Begun \union {"none", "queued", "out"}]
  /\ written \in [Steps -> SUBSET Files]
  /\ result \in [Steps -> HaltKinds \union {"none", "raised", "unreported"}]
  /\ late \in 0..2 /\ faults \in 0..MaxFaults
  /\ main \in {"report", "reported"} => ending \in HaltKinds
  /\ \A s \in Steps : worker[s] \in {"stage", "publish", "set"} => result[s] \in HaltKinds

\* No step is at work before the steps it waits for are done on record, through deaths,
\* reopened steps and resumes (driver/driver.py `next`).
StartsAfterItsDeps ==
  \A s \in Steps : worker[s] \in Begun => \A a \in After[s] : rec[a] = "done"

\* A step at work is open on record: were it done already, a death in the middle of the second
\* execution would leave a record that vouches for half-written files (driver/driver.py `next`,
\* which opens the record before the step runs again).
NothingDoneIsRedone == \A s \in Steps : worker[s] \in Begun => rec[s] # "done"

\* The two together: what is at work is due, once (driver/driver.py `next`).
WorkIsInOrder == StartsAfterItsDeps /\ NothingDoneIsRedone

\* The deliverables recorded with a done step are on disk, unless somebody took them away
\* (driver/driver.py `done`: it refuses a step whose deliverables are missing).
DoneIsProved == \A s \in Steps : rec[s] = "done" => proof[s] \subseteq disk \union lost

\* Finished work is not repeated: a step done on record is opened again only because one of
\* its deliverables is gone, or by an undo while nothing runs (state/run.py, header).
ReopenedOnlyIfMissing ==
  [][\A s \in Steps : rec[s] = "done" /\ rec'[s] # "done" => ~Present(s) \/ main = "off"]_vars

\* A run is marked complete only when every step its files call for is done, and those the last
\* look found have their deliverables but for those somebody took away (driver/runner.py
\* `finish`).  A file taken away after that look may list a step again whose `done` had not been
\* asked for deliverables.
CompletesWhenAllIsThere ==
  [][status # "COMPLETED" /\ status' = "COMPLETED" =>
       \A s \in Listed :
         /\ rec[s] = "done"
         /\ s \in seen => Deliverables[s] \subseteq disk \union lost]_vars

\* A halt in one step ends the round only when the others are finished: whatever was started
\* in it is done or has its own halt (driver/runner.py `_execute_ready`).
NoHalfLandedStep ==
  [][main = "round" /\ main' \in {"top", "report", "close"} =>
       \A s \in Round \ Queued : rec[s] = "done" \/ result[s] # "none"]_vars

\* When `drive` returns, the file, the status and the outcome say the same thing: completed
\* without a halt, PAUSED with a halt that may be resumed, FAILED with one that may not; and
\* no step ends in an exception out of its own halt report (driver/runner.py `_halt`,
\* driver/halt.py, state/run.py `RunStatus`).
HaltAgrees ==
  /\ main = "off" /\ ending # "none" =>
       \/ ending = "completed" /\ status = "COMPLETED" /\ halt = "none"
       \/ ending \in HaltKinds /\ halt = ending /\ status = StatusOf(ending)
  /\ \A s \in Steps : result[s] # "unreported"

\* A run that goes one step at a time starts at most one more step after the STOP file was
\* written (driver/runner.py `_execute_ready`, layers/runner.py `cancel`).
StopWithinOneStep == late < 2

\* `drive` comes to an end, or waits at a gate nobody answers (driver/runner.py `drive`).
DriveEnds ==
  main # "off" ~> (main = "off" \/ \E g \in Gates \ decided : worker[g] = "work")

\* However often it died, was stopped, refused an answer or lost a file: a run that is resumed
\* and whose gates are answered completes (driver/driver.py: resume from disk).
ResumedRunCompletes == []<>(status = "COMPLETED")

==============================================================================
