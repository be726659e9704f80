# Formal models of code_steer_model_write

The program (`src/code_steer_model_write`) steers language models through the building of
software, or through a debate, by a *program of steps that is derived from the files of a run
folder*. A driver asks which steps are ready, executes them in threads, accepts a step when its
deliverables exist, and stops with a report whenever something is refused. Everything a run knows
is on disk, so that a process may die at any instant and another may go on.

This directory holds TLA+ models of the parts that make this work, the TLC configurations that
check them on small instances, and theorems about them that TLAPS has checked for every value of
the constants. Every definition is taken from the source; `PROJECT.json` names, for each one, the
lines it stands for.

    tlc  -workers 2 -config Gate.cfg GateMC.tla     # check one run
    tlapm GateProofs.tla                            # check one module of proofs

Paths below are relative to `src/code_steer_model_write` unless they begin with `dashboard/`,
`docs/` or `tests/`.

## 1. The system

### Components

| component | state it keeps | operations | model |
|---|---|---|---|
| run record (`state/lock.py`, `state/run.py`) | `state.json`, its lock file, a staged file per process | load, update, save | **StateRecord**, AtomicRecord |
| drive loop (`driver/*.py`) | step records, `halt.json`, `STOP`, deliverables | begin, next, start, done, undo, finish, halt, `_execute_ready` | **Driver** |
| run control (`layers/runner.py`, `driver/runner.py`, `cli.py`) | `runner.json`, heartbeat, status, exit code | submit, resume, begin, heartbeat, cancel, pause, delete, report | **RunControl** |
| gates (`gates/gate.py`, the dashboard's `decide`) | ask, decision and `.folded` files, `decisions.json` | write the ask, poll, answer by code, fold, mark, submit | **Gate** |
| review loop (`review/rounds.py`, `spec/findings.py`) | findings, arbitrations, versions | the steps a loop lists, file, decide, store, record, undo | **ReviewLoop** |
| code builder (`recipes/code_builder`) | the run's artifacts, freeze, rulings, results, report | the program, its landings, checks and gates, triage cycles | **Recipe**, **CodeBuilder**, **Recipes** |
| debate (`recipes/debate`) | hypotheses, cases, rebuttal, verdict, report | the program and its landings | **Recipe**, **Debate**, **Recipes** |
| artifact store (`artifacts/store.py`) | versions `vNNN` | write, latest | in ReviewLoop, Recipe and Documents |
| artifact types (`artifacts/*.py`, `ids.py`) | ids, keys, retired ids | `with_ids`, `semantic_problems`, coverage, report | **Documents**, **Verification** |
| checks (`checks/*.py`) | none | repeated runs, the null implementation, ownership | **Verification**, CodeBuilder |
| ask loop (`ask.py`, `prompts.py`) | attempts, earlier problems, tokens | ask, validate, ask again, give up | **Call** |
| model backends (`backends/*.py`) | a child process, its stream, a clock; a conversation | start, read, stall, kill, join; tools | **Call** |
| policy, rails, tools (`layers/*.py`) | role grants, ceilings | decide, check, call | **Layers**, Call |
| gateway (`gateway/api.py`) | folders of runs | run, run again, list, delete, forget, raise a ceiling; cancel, resume | **Gateway**, RunControl |
| run registry (`layers/registry.py`) | a table of rows | register, scan, refresh, forget, remember, drop | **Gateway** |
| dashboard (`dashboard/*.py`) | a view of the files, a hash, picks and ticks | build, poll, decide, stop, resume, filter, remove | **RunView**, **Dashboard**, Gate |
| event log (`events.py`) | `events.jsonl` | append under a lock, read | not modelled (section 7) |
| Prefect runner, sandbox, providers, observability, settings form, walk, figures, doctor | external, or nothing a run reads back | | not modelled (section 7) |

### How they interact

There is one channel, the run folder, and four ways to be careful with it: `flock` on a file
beside the target (`state.json`, `decisions.json`, `events.jsonl`), a rename over the target
(everything JSON), a file whose existence is the message (`STOP`, `.folded`, an ask), and nothing
(`runner.json`, `halt.json` and `STOP` have no lock). The runner process has a heartbeat thread
and, in a round of several ready steps, a pool of step threads; each step that asks a model has a
child process with a reader thread, or a conversation. Other processes write into the same folder:
the gateway (a raised ceiling, a STOP, a delete), the dashboard (a decision), a second runner. The
index of runs is one SQLite file that pages, servers and shells share; it is a view of the folders
and is brought up to date by whoever looks.

### What is hard

* Threads of one process and other processes write `state.json`; a process may die in the middle.
* The program is derived anew in each round: a file that disappears opens finished work again,
  and a step may be on record and no longer listed.
* Steps of one pool halt, raise and land in any order; `halt.json` has no lock.
* Two runners, a suspended one, a heartbeat that comes late, a delete: who drives is decided by a
  file read and later written.
* A gate's three files are written one after the other; two tabs and the code may answer at once.
* An arbitration is three files; a step that died between two of them is asked again.
* Ids are taken from what lies in the folder, without a lock, by steps of one pool.
* A model's process may be silent, deaf to SIGTERM, or leave its output open; a write outside its
  scope may be seen after its answer.
* A page is built from a dozen files that change meanwhile, and a click acts on an older page.
* Folders and index rows are changed by several processes with no lock over both.

### What makes each component correct

* *run record*: an update is one indivisible change; the file is never torn; the lock comes back.
* *drive loop*: no step before its dependencies; done means the deliverables are there; finished
  work is not repeated; a round ends whole; a completed run has everything; the halt, the status
  and the outcome agree; the loop ends, and a run that is resumed completes.
* *run control*: one driver; a driven run never looks stale, a dead one never looks driven; the
  report at rest agrees with the status; a STOP is honoured; a dead runner does not hold a run.
* *gates*: what passes is recorded, as decided, once; code never answers for a person; folds lose
  nothing; an answered gate passes.
* *review loop*: nothing is argued a third time, nothing is open or unread at the end, what the
  author accepted is in the version it names, the loop ends.
* *recipes*: what is built is what was frozen, a ruling reads fresh results, an id is one thing's,
  the report is of the end, the run comes to its report.
* *artifact types*: a clause's id is that clause's for ever; no clause is lost from the report.
* *ask loop and backends*: a re-ask is progress, a stray call counts for nothing, what answers is
  billed, a ceiling is kept, a call ends. *policy*: two engines, one rule set.
* *gateway and registry*: a run's record is written over only when it came in after the writer's
  last look; a listing is complete; a row without a folder has a cause that is known; what was
  forgotten stays so.
* *dashboard*: the page shows what it hashed, a person decides in the stage they picked, a kept row is
  true, what is removed was asked for.

`PROJECT.json` lists the hazards behind these, each at its line, with the properties that cover
it or the reason why none does.

## 2. The plan

Built and checked, in this order: `StateRecord` over `AtomicRecord`, `Driver`, `RunControl`, `Gate`
(these four with their proofs), then `ReviewLoop`, `Recipe` with `CodeBuilder`, `Debate` and
`Recipes`, `Layers` with `Call`, `Gateway`, `RunView` with `Dashboard`, and two modules of data,
`Documents` and `Verification`. Every safety property that a passing run checks is now a theorem
as well (section 5).

What is left, in the order of its worth:

1. Composition as a proof: Driver's `CompletionIsProved` with `CodeBuilder`'s listing in the place
   of `Lists` and `After`. The code builder's files are not lost in `Recipes`; with the losses of
   Driver the instance outgrows TLC. With it, `Gate` as a refinement of what Driver calls the work
   of a gate step, and `ReviewLoop` of the one step Recipes makes of it.
2. `EventLog`: the append, the read of the tail, torn and long lines, refining a sequence that
   only grows.
3. The settings of a run (`config.py`, the form) as a function of three layers of values.

## 3. The modules

A definition marked *(mutant)* belongs to no specification. It is a plausible mistake in the
definition that follows it, kept to show that a property tells the two apart. A variable marked
*(history)* is read by properties alone, or by the bound it names.

### StateRecord and AtomicRecord

A record is the set of *changes* it holds; a change is a pair of a thread and the number of its
call, so no two calls make the same one. `Update`, `Lock`, `Load`, `Mutate`, `Stage`, `Write`,
`Replace`, `Unlock` are the lines of `RunState.update`, `locked` and `atomic_write_text` in their
order, one step per system call that others can see. The staged file's name holds the process id
only, so `staged` is one per process and its threads share it. `Snapshot` and `Save` are the
caller of `RunState.save`: a copy is loaded with no lock when the step's context is made, changed
in memory, and written under the lock (which `save` does take). `Raise` is an exception in `fn` or
a write refused by the disk. `Die` ends all threads of a process; the kernel drops its lock and
the staged file stays.

`AtomicRecord` is what the module promises: one indivisible change per update, no change from a
call that raised, and a save that overwrites. `ImplementsAtomic` is the refinement, with the file
as the record and the program counter folded into the phase of a call.

### Driver

`rec`, `proof` and `status` are `state.json`; `halt`, `staged`, `stop` and `disk` are files;
`main` is where `drive` stands, `worker` where `_execute` stands for each step of the round. The
program is four functions: `Lists` (the steps it lists when given files exist; more files may list
more steps, or fewer),
`After` (its dependencies), `Deliverables` (what it declares), `Lands` (what its execution
writes). `Listed`, `DoneSteps`, `Reopened`, `Ready` and `Pending` are the comprehensions of
`Driver.next` and `all_pending`. An update of `state.json` is one step, which the refinement of
AtomicRecord justifies. `halt.json` has no lock, so a halt by a step's thread is `StageHalt`,
`PublishHalt`, `SetStepHalted`; the halts of the loop itself (`Report`) run when no other thread
does. In that staging, opening and filling the temporary file are one step: what matters is the
name that is missing at the rename, which is there either way. `Take`, `CancelQueued`, `RoundOver`
and `Return` are `_execute_ready`, one by one and in the pool. `Denied`, `Refused` and `Raises`
are the ways a step does not get done; an exception may come anywhere on the way of a step, and
`LoopRaises` is one of the loop itself. An exception out of the last report of `drive` (the disk is
full) escapes as a death does and is not told apart from `Die`. `seen` (history) is what the last
empty-handed `next` listed. `Cancel`, `Lose`, `Undo`, `Decide` and `Die` are people and
machines. Evals, tracing and events change nothing the loop reads.

### RunControl

A process `csmw resume` is started once and goes through `CheckAlive`, `TakeRecord`, `ClearHalt`,
`MarkRunning` (the four steps of `begin`), rounds, an end, `CloseRecord` and `Exit`. Before each
round it looks at STOP (`Boundary`, `Round`); what happens inside a round is Driver's, except that a
round may stand at a gate (`WaitAtGate`), where `_gate` polls and looks at no STOP. `record` is `runner.json`, `fresh` whether its
heartbeat is at most thirty seconds old; `Alive` is `runner_alive`, `Reported` is `_handle`.
Timing is explicit: `Accidents` names what the run admits of two starts in one window, a
suspended process, a heartbeat held up between building and renaming its text, and a delete.
`lapse` (history) names the drivers that lost their hold on the record, and why two may drive.

### Gate

Per gate: the ask, the decision, the `.folded` marker, the thread's place, what it holds. A
decision is nothing, code's, or a person's n-th form; a fold appends one row per question of the
gate (`Questions`, `NewRows`), none for a gate that asks nothing. `Look`, `AutoDecide`, `FoldRead`,
`FoldWrite`, `Mark`, `Pass` are `make_waiter`, `fold` and the done of `_gate`; the path of code
leaves no marker, as in the source. `OpenForm`, `Submit` and `Leave` are a tab of the dashboard;
the decision is a whole file because it is written by a rename. `Remove` and `UndoGate` take the
decision away and leave the ask and the marker.

### ReviewLoop

`filed`, `arbitrated` and `versions` are the files of one loop: per round its findings and its
arbitration, and the artifact's versions. `Listed` and `After` are `steps`: which reviews and
arbitrations the files call for. `File` is a review's landing: ids after the largest taken in the
run, and `StatusOf`, the state machine of a finding at its birth (open; escalated when the same
point was rejected twice; carried in the closing read). An arbitration is three files, and so
three steps: `Decide` (the findings, with the author's decision on each), `StoreVersion`,
`Record`; then `MarkDone`. `Die` may fall between any two; `Undo` moves aside what a step
delivered. `Verdict` is `Verdict.of`. What a version says is known by the answers whose changes it
holds: an author emits the version it was handed again, with its changes (`Held`). So
`AcceptedIsStored` sees whether the answer that accepted (`decider`) is in the version that is named,
also when the author was asked again after a death. `lost` are the rounds where a death between the
findings and the version, or an undo, took the artifact and left the decisions: there the accepted
change is missing, and what holds is that each later reviewer has read that version or a newer one.

### Recipe, CodeBuilder, Debate and Recipes

`Recipe` holds the files the two programs are derived from, and the form of a line of the
program: a step shows when everything before it has left its file. `CodeBuilder` and `Debate` are
the two derivations, with steps named by their kind and subject: the design line up to the tasks,
the gates that may send the blocks back, the freeze with or without open tolerances, the two
files of the build, verification, cycles of triage, fixes and the report; and the two cases,
rebuttal, judge and the person's verdict. `Recipes` runs them: `Round` takes all ready steps (one
by one, or in a pool), and each kind of step leaves its files by its own actions, split wherever
the code writes two files (`Fill`, `FreezeAgain`, `Mark`) or reads before it writes (`RulingRead`,
`RulingWrite`, `CaseRead`, `CaseWrite`). A review loop is one step here, a gate is its answer:
their insides are ReviewLoop and Gate. A file of the build is `written`, and `current` in a
version of the results says that it still is the file that was verified. `Die` forgets the round
and nothing else; `Refuse` is an answer refused for good, after which the run is resumed.

### Layers and Call

`Layers` is a request as the runtime makes it, and the answer of both engines: `StepAllows` takes
the rules in order, `CedarAllows` is the disjunction of Cedar's permits. `Call` is one step that
asks a model: `Issue` (ceiling, closed list of tools, policy), `BeforePrompt` (the rail), attempts,
`Judge` (the validator; problems seen before, or the last attempt, halt the step), `Again` (a
person resumes). Under it are two kinds of backend. A command-line process speaks lines into a
pipe; `Read` is the reader thread, which kills the process when it sees a write outside the
folder; the main thread watches: `SeeExit`, `Stall`, `Reap` (SIGKILL after SIGTERM), `Join` (two
seconds for the reader); `Verdict` is `complete`, for claude and for codex. A conversation has
turns: `Answer`, `AskForTool`, `Raise`, and the chain `Decide` (policy), `BeforeToolCall` (rail),
`Run` (sandbox). Tokens are units: a process uses one, a conversation one a turn; `counted` is what
the role's `call.usage` events say, `unbilled` what this call used and no event says. The backend
takes the usage of a conversation's last turn only, so a tool turn before it is on no record. Other
steps of the role are at work in the same pool (`beside`) and have bills to send (`owing`): each
looks at the ceiling for itself (`IssueBeside`), an attempt is billed (`BillBeside`), it ends
(`EndBeside`). Whether the step gives its process a folder to stay in (`scope_root`) is `Scoped`.

### Gateway

Folders of one task's names, the run in each, and the index row of each. A start looks for a free
name (`Look`, `Free`), looks once more (`Create`), writes the record (`Write`), reads it for the
index (`Register`), enters the row (`Enter`) and hands the run over (`Submit`), and others act
between any two of these; a listing is `scan` folder by folder (`Scan`, `ScanEnter`), then `Rows`
and a look at each run's record (`refresh`); a delete is the folder (`DeleteFolder`), then the row
(`DropRow`), and may raise or die before either (`DeleteCut`). A raised ceiling reads the record
under its lock (`RaiseCeiling`) and writes it (`WriteCeiling`), in a folder made again if a delete
took it; the lock is a file of that folder, so it excludes nobody from the folder that follows
(`Locked`). One SQL statement is one step; one look at a file is one. `Forget` and `Remember` hide
and show a row, `RunByHand` starts a run from the shell (`Create` and `Write` of the same calls, no
row), `RemoveByHand` is a person who removes a folder. `lost` holds the runs whose record another's
replaced, `together` those that came into a folder somebody was about to write to; `raced`, `taken`
and `cut` are the folders that went under a late entry, by hand, or by a delete that came no
further, each until a record is written there again. Whether a run is alive is
RunControl's; here every delete is allowed, which is more than the code allows.

### RunView and Dashboard

`RunView` is what the pages make of a reading of the files: the `Facts` of the event log, the rail
and its stages, the timeline's bars, the state with its dot, the control and its verb, a row of the
start page and its bucket and buttons. `Dashboard` puts the pages beside a run that goes on: `Run`
is the session and other hands, each changing its files in the code's order; a page build is
`LookAtState`, `LookAtRest`, `Show`, with changes in between; `stale` is "a hashed file changed
since the hash was taken", which is exact except that a change between the first look and the hash
is in the hash and not on the page (`torn`). `ClickDecide` and `Decide` are the click and its
arrival. The home page takes its key first and reads after (`TakeKey`, `ReadRecord`, `ReadRest`),
keeps a row while the key stands, and removes what is ticked in two clicks.

### Documents and Verification

`Documents` is the ids of plan and contract over all their versions: `Numberings`, the numbers right
above those taken in a namespace, `with_ids` as `Version` with what it retires, the soundness checks
of a first document, and revisions, which are stored without them. `shadowed` are the ids that
`key_to_id` passes over because a step has the clause's key. `Verification` is pure: what a
verification specification must satisfy, the rows and files of the build, what the repeated runs and
the run against a null implementation of every property come to, and the report. Neither has a run:
what they say holds for every input and is proved (section 5); their numberings are sets of
functions too large for TLC to enumerate.

### How they compose

StateRecord's refinement lets Driver, Gate and Recipes treat an update as one step. Driver's
`DriveEnds` is what RunControl's fairness rests on: a round ends or stands at a gate. Gate
refines what Driver calls the work of a gate step: `Decide` there is `Submit` or `AutoDecide` here,
and `AnsweredGatePasses` is why a decided gate's step gets done. Call refines the work of an
author's step in the same way (`CallEnds`), ReviewLoop that of a loop step of Recipes (`LoopEnds`),
and Recipes' `Listed` is a program in the place of Driver's. `Call` extends `Layers`, `Recipes`
extends both programs, `Dashboard` extends `RunView`. The refinement of AtomicRecord is checked and
proved; the other correspondences are arguments.

## 4. The runs

| run | what it asks | instance |
|---|---|---|
| StateRecord | whole file, atomic update, the lock comes back | 2 processes, 3 threads (one saves), 2 calls each, 1 death |
| DriverParallel | order of work, done, complete, whole rounds, `drive` ends | 5 steps, 4 files, pool of 2, 3 faults |
| DriverOneByOne | halt, status and outcome agree; STOP; a resumed run completes | 3 steps with a gate, one by one, 3 faults |
| RunControlOrderly | what is reported is true, STOP | 3 processes, no accidents |
| RunControlRough | one driver or a named reason, a session that is over does not hold the run | 2 processes, every accident |
| Gate | recorded as decided, by whom, folds grow, an answer passes | 2 gates (person, 2 questions; code, 1), 2 tabs, 2 forms, 2 faults |
| ReviewLoop | no third exchange, reviewed at the end, accepted is stored, the loop ends | 2 points (one blocking), 3 rounds and the closing read, 2 faults |
| Recipes | frozen is built, triage is fresh, ids, report, the run completes | both recipes, 2 properties, 2 fix rounds, 1 revision, pool or not, 1 fault |
| RecipesHidden | *violation*: the unresolved is carried into the report | same |
| Call | re-asks progress, strays, tools, bill, ceiling, calls end | 3 backends, 2 problem sets, 4 attempts, ceiling 2, pool of 2, 2 turns, 2 lines, 2 issues, 2 tools (1 allowed) |
| Gateway | what replaces a record, a listing complete, rows without a folder | 2 starters, 2 folders, 2 runs, 2 listings or deletes, 2 hands |
| Dashboard | the page and its hash, decisions in the stage picked, rows, removals | 3 steps with a gate each in 2 stages, the first of two steps; 2 sessions, 1 turn of fate |

**Bounds.** `MaxCalls`, `MaxCrashes`, `MaxFaults`, `MaxAnswers`, `MaxRevise`, `MayFail`,
`MaxLines`, `MaxIssues`, `MaxRuns`, `MaxLists`, `MaxHands`, `MaxSessions` and `MaxTurns` count
things the world does, never what the program does; `Cap`, `FixRounds`, `ReAskMax`, `Ceiling` and
`Parallel` are settings of the program.

Two calls of a thread are needed for a change that returned to be lost while the same thread goes
on; one death leaves a staged file for a later call. In DriverParallel the five steps are chosen
so that there are: a file two steps deal with, a step that disappears from the list when a file is
lost, two that disappear when another step lands a file, a step without files, more ready steps than threads, and a dependency between steps that are
listed by different files; three faults allow a death, a lost file and an undo or a stop in one
behaviour. In DriverOneByOne a STOP, a refusal and a death may follow each other. Three processes
in RunControlOrderly allow a dead holder, a driver and one that is refused. In Gate, two forms
suffice for two tabs that answer the same gate, and a death with an undo or a removal shows what
the marker does. Three rounds are the fewest in which a point is rejected twice and filed again; two
faults are the fewest in which both a review and an arbitration are undone, which is where the two
halves of `EndsReviewed` part. In Recipes two properties make two rulings at once, `MayFail` lets
one fail at first and both after the first fix, and a run that comes to the last verification has
used up its two fix rounds and is left with a failure (one that passes exactly there is not in the
run). In Call, four
attempts are more than there are problem sets, so that both ends of the re-ask loop are met, and a
second issue meets the ceiling; a pool of two is the least in which two steps find it not reached
before either is billed. In Gateway two folders and two runs allow a folder to be used
again after a delete, beside a start that looked before and a raised ceiling that read the old run. In Dashboard two sessions allow a resume
between a page and its click, one turn is one failure, death, late heartbeat, removal or act from elsewhere, and a stage of two steps has two gates, the least for which deciding
in the stage picked is not deciding the gate seen. What holds only for these sizes is what section 5 does not prove.

Symmetry is used in Gateway alone, over the starters: the other sets are told apart by their roles,
or the run has a liveness property.

**Fairness.** In StateRecord, a thread inside the lock keeps running while its process lives; no
other thread needs to. In Driver (`LiveSpec`) the loop and each thread of the pool keep running,
weakly fair: the operating system schedules threads and each has its own. Nobody is obliged to
answer a gate, so `DriveEnds` admits a loop that waits at one; `PeopleSpec` adds that people
answer gates and resume a run, and that is needed for `ResumedRunCompletes` only. In RunControl a
live process makes its next step, a round ends unless it stands at a gate, a sleeper wakes, and
thirty seconds pass; no session has to complete and no gate to be answered, so that `StopIsHonoured`
says of a session under a STOP that it ends or stays at a gate for ever. In Gate the run is resumed after a death and its threads run; no form has to be
submitted. In ReviewLoop and Recipes a run that stopped is resumed and goes on; in Recipes that is
the weak fairness of `Work`, with its guard written out (`Busy`) so that TLC need not enumerate
it, and gates are answered. In Call the main thread runs and time passes; nothing is assumed of
the vendor's process, of the thread that reads it, nor of the steps beside, since the stall clock, SIGKILL and the
bounded join exist for exactly that. Gateway and Dashboard state no liveness: nobody has to look.
Faults are never fair.

**Deadlock** checking is off: in each model the system may stop for good, since a run completes
or waits for a person, processes are started once, and the bounded calls and faults are used up.

## 5. The proofs

The theorems hold for every number of steps, threads, processes, gates, tabs and folders, for
every program and for every bound. They rest only on the ASSUMEs of the modules (kinds of the
constants, a positive pool size) and on the restrictions named here.

* **StateRecordProofs.** `TypeCorrect`, `MutualExclusion` and `WholeFile` follow from `SafeInv`:
  the lock belongs to the thread at work, and when a thread is about to rename, the staged file
  of its process is whole and holds its copy. Without the clause on the staged file,
  `NeverTorn` is not inductive: a rename publishes whatever another thread of the process staged.
  `UpdateIsAtomic` proves the refinement step by step, with `CopyIsCurrent`: between `Load` and
  `Replace` of an update the copy is the file, with or without the call's own change.
  `NoUpdateIsLost` holds with savers at work: a returned change is in the record or in `gone`, which
  collects what the rename of a save takes out of the file.
* **DriverProofs.** The strengthening `IInv` is `Quiescent` (no thread outlives the round),
  `RoundIsOpen` (a step of a round is open and its dependencies are done on record),
  `OutIsAnswered` (a step that is out is done or has its halt), `DoneIsProved` and
  `FinishIsProved` (once nothing is ready, the done steps that were listed have their deliverables).
  They hold for any program: `Lists` may be any function of the files.
  `WorkIsInOrder` needs `RoundIsOpen` for the queued steps too, since the round is made once and
  its steps begin later. `ReportsAgree` and `StopIsHeard` hold for a pool of one (`Parallel = 1`):
  two steps of a pool share the staging name of `halt.json`, and several of them begin after a STOP
  (section 6). Their invariant `Solo` follows the one step at work: what it staged, what is in the
  file, what is in the status (`SoloHalt`); the loop's own report from the file to the close
  (`SoloEnd`); and the one step that may still begin under a STOP (`SoloStop`).
* **RunControlProofs.** `OneDriverAtATime` holds under every accident: where two drive, one of them
  is in `lapse`. Its invariant `Hold` says that a driver which did not lapse is awake and owns a
  fresh record, and that whoever has looked and not been refused has only lapsed drivers before it;
  so two that did not lapse would own one record. `ReportCanBeTrusted` assumes `Accidents = {}`: no
  two starts in the window of `begin`, no suspended process, no late heartbeat, no delete. The
  invariant `Orderly` says that one process at most is between its start and its end, that a look
  at the record still holds when the record is taken, and that the record of a driver is its own,
  open and fresh; `Told` adds how far the halt, the status and the kind of the session agree at
  each label.
* **GateProofs.** `IInv` adds to the type: the thread inside the lock holds the current list
  (`FreshCopy`), a thread past the fold has its row (`PastFold`), a held decision is the file's
  unless somebody changed it (`HeldAgrees`), a row agrees with its file (`RowAgrees`), and no code
  path is taken for a person's gate (`NoCodeForPeople`). From it: a gate that passed has a row for
  each question, which says what the file says; people's gates are answered by people; and folds
  only add. The theorems hold for any number of questions; that a gate may ask none is proved only,
  the run has none of that kind.
* **ReviewLoopProofs.** The type holds only together with two bounds, `IdsBounded` and
  `NumbersBounded`: the next id and version are the largest plus one, and an unbounded set has no
  largest. `RoundsInv` orders the rounds as long as no review is undone: a round on file comes after
  rounds that were read, had findings, and had every one decided (`EarlierIsOver`). From it
  `TwoRejectionsAreEnough`, whose premise, that no earlier review was undone, came out of the proof:
  without it the invariant is false (section 6). `ReadInv` says the same of the arbitrations and
  what was read, and with `RoundsInv` gives `LoopEndsReviewed`. `StoreInv` follows the answer that
  decided a round to a version that holds it (`DecidedIsHeld`): versions only grow in what they hold
  (`HoldsGrow`), those named are kept apart (`VersionsAreNamed`), and who files later has read the
  one named (`ReadersSee`), which needs the order of the arbitrations (`ArbitratedBefore`). Together
  they give `AcceptedIsInTheVersion`.
* **GatewayProofs.** `RunIsNeverReplaced` is strengthened by `ReplacedIsRaced`: when a start or a
  raised ceiling is about to write into a folder that has another run, that run is in `together`,
  since it came in after the last look, and by `NewReadNothing`: only a raised ceiling holds a run
  it read (`RaisedIsARun`). `GhostsHaveCauses` is strengthened by `EntryIsRaced`: whoever is about
  to enter a row, a start or a scan, has its folder there, or that folder is in `raced` or `taken`.
  `ForgottenStays` is an action property and needs no more than the type. `ListingIsComplete` needs
  `ThereIsSeen`: a run that was in place all along has a row as soon as the scan has passed its
  folder (`Passed`). The module also holds the proofs of the dashboard, from `RunViewAssumption`
  (steps and stages are numbered, every step has a stage) and `PagesInv`: what a build has read is
  what is there unless a hashed file changed since it began (`ReadSoFar`, `RowSoFar`), what it shows
  is a view of that (`ShowsItsHash`, `KeepsTrueRow`), a click on its way keeps its stage
  (`ClickKeepsStage`), and a queued run asks nothing (`RunTold`). `RunIsNoticed` is the fact all of
  it rests on: whatever a session or a person does to a hashed file marks the pages stale.
* **CallProofs.** The type invariant has two parts that the rest stands on: `Attempts` (how many
  attempts there are at each place) and `Alone` (no reader and no process outlive the main thread's
  wait, and once the reader is over and nothing was killed, the pipe is empty and the process
  gone). `CallIsConfined` is strengthened by `Confined`: a process that strayed was killed, and past
  the policy the declared tools are allowed. `AnswersAreBilled` needs
  `Bill`: a process has its last words once and says nothing after them, codex leaves its file only
  when it says so (`LastWordsAreLast`), and what a call used is unbilled until its bill is read, a
  conversation's turns one by one (`OwedInCall`). `CeilingIsKept` needs `WithinBudget`: what is
  counted and what the steps beside may still send is less, after `a` attempts of this step, than
  the ceiling, the attempts of the rest of the pool, and `a` (`Budget`): a step is issued, here or
  beside, only while the ceiling is not reached, and the bills of the steps beside never exceed
  their share of the pool (`RoomInPool`). `OneRuleSet`, about `Layers`, goes through the eight actions of a request; it
  needs the schema's restriction of author, judge and tool to sides.
* **RecipesProofs.** The invariant `RunInv` of both programs has these parts. The round: a step is
  in one hand, not done, and where its kind can be (`HandsApart`, `OneAtATime`, `PcsFit`). The
  numbers: what a landing has read is above every id given (`NumbersAbove`), one at a time; it gives
  `IdsAreApart`. The answers: one per gate, and the blocks are sent back gate after gate without a
  gap (`AnswersAreSingle`, `RevisesAreCounted`, `SentIsPrefix`), so that the design line, whose length
  depends on them, only grows at its place. The contract: which steps are done when another is begun
  (`ContractOrder`), that nothing stores it once it is behind (`ContractIsOver`), and that it is
  hashed from the freeze on, except while it is filled (`FillIsDue`, `Hashed`); it gives
  `FrozenContractIsBuilt`. The cycles: a verification is begun when every earlier cycle is ruled on,
  asked for fixes and has them (`CycleOrder`), its number is that of its results
  (`CountOfResults`), and results are current until their cycle is settled (`Freshness`); it gives
  `RulingsAreFresh`. The induction needs to know what the program lists, so `DesignSteps`,
  `BuildStepsAre` and `DebateStepsAre` first say what a listed step can be and what it waits for.
  `ReportIsOfTheDelivered` needs `EndInv`: a step that is over left its file, and the file stays
  (`RestLeft`); a ruling on file is that of a step that is over, unless a death met it
  (`RulingsStand`); the last results are current or a fix is asked for (`Latest`); and the report was
  written behind the last cycle, or the verdict's gate (`ReportStands`, `VerdictStands`). That a
  complete run has a report at all is `BuildIsReported`: take the largest cycle the program walks;
  everything it lists is done and left its file, so its rulings are in, and if they asked for a fix
  the next cycle would be walked too. The proofs assume that None, the absent file, is none of the
  answers (`RecipeAssumption`).
  The module goes on with the documents. New ids lie above all that are taken (`NewIdIsFree`), so two
  keys of a version never share one (`KeysAreToldApart`, for plan and contract). A revision
  may bring a key twice, and then not every id of the contract is retired. `NamesInv` says what is
  left: an id given to a clause or step is still given to the same key, or not above those that are
  taken, or it was shadowed: its clause's key was that of a step of the version too
  (`NamesAreTaken`). From it, of every run of the contract's versions, `OnlyShadowedIdsAreReused`:
  only such an id is ever given to another clause (section 6). `NoClauseIsLost`, of
  Verification, follows a checkable clause to one of its ends: a gap of the specification, a gap of
  the report, or a property that cites it and that held, is reported, or has no test. `APassIsWhole`
  and `SidesWriteApart` are what the runs and the two rows contribute.

The type invariants of StateRecord, Driver, RunControl, Gate, ReviewLoop, Recipes, Call, Gateway and
Dashboard are theorems (`TypeCorrect`, `PagesTypeCorrect`), so no run repeats them.

**Model-checked only.** Liveness under fairness is out of the prover's reach: `LockGivenBack`,
`DriveEnds`, `ResumedRunCompletes`, `StopIsHonoured`, `NotHeldByTheDead`, `AnsweredGatePasses`,
`LoopEnds`, `RunCompletes`, `CallEnds`. Induction over data and recursive operators are too; the
modules with proofs use none. Every other property of a passing run is stated by a theorem.

## 6. What the models found

**RecipesHidden.** The repository's `README.md:171-172` says: "The unresolved is carried into the
report, never hidden". The report's step waits for the last ruling's step, but it is *listed* by the
files. When the process dies after a ruling's file landed and before its step is done, the next
session finds both the ruling, to be made again, and the report ready in one round. The repeated
ruling may find a bug in the implementation; its fix is made and verified, the report is done
already, and the run completes with a report of the earlier results. TLC shows a property that fails
in the last results and is not in the report.

What follows is described by the models as well, and no run judges it: each either contradicts no
sentence of the source, or is excluded by a named constant or history variable of a passing run.

* *StateRecord*: a change whose call returned can be lost to `RunState.save`, whose copy was loaded
  without the lock, as both recipes' reports do; nothing else loses one (`NoUpdateIsLost`).
* *Driver*: `undo` of a step that landed and was not done moves nothing aside
  (`driver/driver.py:118`; its header says otherwise). Two steps of the pool that halt at once share
  a staging name, and one of the halts raises (`driver/halt.py:1` says a halt is never a crash). In
  a pool, halt file, status and outcome may be of different steps. A step that another step's files
  took off the list while it worked is accepted without a look for its deliverables
  (`driver/driver.py:94-95`); it matters only when a file is taken away after the last look of
  `next`, and CompletesWhenAllIsThere excludes that by `seen`.
* *RunControl*: two runners started together both drive (`tests/test_driver.py:174`: "a live runner
  refuses a second driver", tested one after the other). A delete passes its check and a process
  makes the folder again (`gateway/api.py:203-204`). A refused runner exits with code 0 (`cli.py:1`).
  A STOP laid down while nobody drives stops the next session. A session that waits at a gate does
  not look at STOP (`driver/runner.py:470-479`): it ends when the gate is answered, or when the wait
  was given a limit, which by default it is not.
* *Gate*: a gate whose decision was removed or undone keeps its marker, and the new decision is
  never folded.
* *ReviewLoop*: a death between the findings and the version (`review/rounds.py:386-390`) loses what
  the author accepted: asked again, it decides nothing, and the findings say "accepted" of a version
  without the change. An arbitration that is undone and made again may leave its revision unreviewed
  (`NeverUnreviewed`; the repository's `README.md:172` says that the last revision always gets a
  closing read). A review that is undone and made again files its findings anew, so that a point
  rejected twice before can come to its author a third time in a later round that stands.
* *Recipes*: in a pool two rulings, or two sides, may take one id; a death between the results and
  the done makes the verification twice, so that cycle and version come apart; a death between the
  filled contract and its hash leaves the old hash for good.
* *Call*: the tokens of a call that failed are not billed, nor are the tool turns of a conversation
  before its last, since `complete` takes the usage of the last result alone; a ceiling is looked at
  before a step and not between its attempts, and the steps of one role in a pool all look before
  the first is billed, so that a role goes over by a pool's attempts, not one step's; a process that
  goes on writing is never stopped, whatever it writes, since each line resets the stall clock.
* *Gateway*: two starts that both looked take one folder, and one record replaces the other. A
  raised ceiling that read the record before a delete makes the folder again, over the run that has
  taken its name meanwhile. A delete that dies or raises between the folder and the row
  (`gateway/api.py:263-265`) leaves a row that no later delete finds, although its docstring says
  that nothing in it is partial (`gateway/api.py:205`). A forgotten folder hides the next run that takes its name. `list_runs` raises when a
  folder goes between its look and its load. `register` keeps run id, task and recipe of the row
  that is there.
* *Dashboard*: the page that follows the run may decide another gate than the one seen (`astray`), and a
  page on which a stage was picked may decide another gate of that stage: the click names the stage,
  and the gate is the one open in it when the click arrives.
  When the status and the close of a run land between the first look and the hash, the page goes on
  showing RUNNING. That the runner is dead, or that a STOP was laid down, is in no hashed file, so a
  poll does not show it, although `docs/PLAN.md:757-759` and `:928` say that the hash covers every
  live file. An exception ends a poller for good. Ticked runs stay ticked when the filter hides them.
* *Documents*: a plan does not keep what it retired, so that a block's id may be given again
  (`artifacts/plan.py:43`; `ids.py:61` and `docs/RELIABILITY.md:199-200` say never), and likewise the
  gaps of a verification specification (`recipes/code_builder/recipe.py:323-325`). The answer of an
  arbitration is checked for its decisions and not for the artifact in it
  (`spec/findings.py:125-158`); a key shared by a clause and a step then loses the clause's id
  (`artifacts/contract.py:131-134`), which the next clause may be given; `OnlyShadowedIdsAreReused` proves
  that there is no other way.
* *Verification*: nothing checks that every property has a test
  (`recipes/code_builder/recipe.py:957-965`, `:1221-1223`), and a "missing" outcome against the null
  implementation is accepted (`:1233-1242`).
* *Layers*: outside Cedar's schema the engines differ; the runtime makes no such request.

## 7. Not modelled

* **Event log** (`events.py`). Its appends take the lock modelled in StateRecord; nothing the loop
  decides reads the log back, except the tokens counted against a ceiling, which Call keeps as
  `counted`. The tail read is a hazard without a property (`PROJECT.json`), and the plan's next
  module.
* **Prefect runner** (`layers/prefect_runner.py`, `workflow/flows.py`). It runs Driver's rounds
  inside an external server; in which order that server starts, retries and cancels tasks is not in
  the sources.
* **Sandbox**. Call has its place in the chain of a tool call and its refusals; the limits it sets
  are the operating system's. The step that runs the tests sets no time limit of its own.
* **Providers, observability, figures, doctor, walk**: probes, views, drawings and test drivers that
  keep no state of a run. **Settings form**: a form over values; only the arithmetic of the rounds
  matters to a run, and it is in ReviewLoop.
* **The dashboard's start form, file browser and layout**, and of the backends the other vendors'
  clients and the fake: one interface, external calls.
* The contents of prompts, answers and artifacts beyond their ids, citations and coverage; wording
  and rendering.
* Loss of the code builder's files while it runs (Driver loses files; together the instance is too
  large), and of power: the code does not sync and promises nothing.
* The file system below `open`, `rename` and `flock`: a rename is atomic, a lock dies with its
  holder. Time, other than the heartbeat's limit, the gates' timeout and the stall clock, which are
  nondeterministic.
