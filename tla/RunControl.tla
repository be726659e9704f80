------------------------------ MODULE RunControl ------------------------------
(***************************************************************************)
(* Who drives a run (driver/runner.py `begin`, `_heartbeat`,               *)
(* `_close_record`; state/run.py `runner_alive`; layers/runner.py;         *)
(* gateway/api.py `cancel`, `resume`, `delete`; cli.py `cmd_resume`).  A   *)
(* runner is a process `csmw resume`.  It refuses to begin when            *)
(* runner.json names a live, fresh, open runner; otherwise it writes its   *)
(* own record, refreshed by a heartbeat thread and closed at the end.      *)
(* runner.json, halt.json and STOP are read and written with no lock.      *)
(*                                                                         *)
(* The work between two step boundaries is Driver's; here a session is     *)
(* begin, rounds with a look at STOP before each, an end, the closed       *)
(* record and the exit code.  A round may stand at a gate until somebody   *)
(* answers: `_gate` polls and does not look at STOP.                       *)
(*                                                                         *)
(* A definition marked (mutant) is used by no specification: it is a       *)
(* plausible mistake in the definition below it, which a property must     *)
(* refuse.                                                                 *)
(***************************************************************************)
EXTENDS Naturals, FiniteSets

CONSTANTS Runners,    \* the processes started over time, each once
          Accidents,  \* what timing the run admits, see below
          Nobody

(* "race"     two runners are started before either has written its record *)
(* "suspend"  a process is stopped for longer than the heartbeat limit and *)
(*            goes on later (a laptop asleep)                              *)
(* "latebeat" the heartbeat thread is held up between building its text    *)
(*            and renaming it                                              *)
(* "delete"   a person deletes the run                                     *)
ASSUME AccidentsAssumption == Accidents \subseteq {"race", "suspend", "latebeat", "delete"}
ASSUME NobodyAssumption == Nobody \notin Runners

VARIABLES
  pc,         \* where each process stands
  suspended,  \* the processes that do not run for the moment
  beat,       \* the heartbeat threads that hold a text not yet renamed
  record,     \* runner.json: whose it is and whether it is open
  fresh,      \* its alive_at is at most 30 seconds old
  status,     \* state.json `status`
  halt,       \* halt.json: absent, resumable, broke
  stop,       \* the STOP file
  folder,     \* the run folder exists
  deleting,   \* a delete has passed its check and erases the mirrors
  kind,       \* what each process's session ended with
  exit,       \* the exit code of each process
  lapse       \* (history) the drivers that lost their hold on the record, see OneDriver

vars == <<pc, suspended, beat, record, fresh, status, halt, stop, folder, deleting,
          kind, exit, lapse>>
fileVars == <<status, halt, stop>>
folderVars == <<folder, deleting>>

Looping == {"running", "working", "gate"}   \* before a look at STOP, in a round, in its gate
Driving == Looping \union {"taken", "cleared", "halting", "halted", "ended"}
Present == Driving \union {"spawned", "checked", "refused", "exiting"}
Drivers == {p \in Runners : pc[p] \in Driving}
HaltKinds == {"resumable", "broke"}
NoCode == 9   \* a process that has not exited, or was killed

\* A write of p's record is made over that of whoever drives beside p.
Overwrites(p) == lapse' = lapse \union (Drivers \ {p})

Goto(p, label) == pc' = [pc EXCEPT ![p] = label]
Awake(p, label) == pc[p] = label /\ p \notin suspended

Init ==
  /\ pc = [p \in Runners |-> "off"]
  /\ suspended = {} /\ beat = {}
  /\ record = [pid |-> Nobody, open |-> FALSE] /\ fresh = FALSE
  /\ status = "QUEUED" /\ halt = "none" /\ stop = FALSE
  /\ folder = TRUE /\ deleting = FALSE
  /\ kind = [p \in Runners |-> "none"]
  /\ exit = [p \in Runners |-> NoCode]
  /\ lapse = {}

\* (mutant) A runner counts from the moment the status says RUNNING.
AliveByStatus == folder /\ record.open /\ record.pid # Nobody /\ status = "RUNNING"
                 /\ pc[record.pid] \in Present /\ fresh

\* (mutant) An open record holds the run.
AliveByOpenRecord == folder /\ record.open /\ record.pid # Nobody

\* `runner_alive`: the record is open, its process lives, its heartbeat is fresh.
Alive == /\ folder /\ record.open /\ record.pid # Nobody
         /\ pc[record.pid] \in Present
         /\ fresh

\* (mutant) The status is taken at its word.
ReportedByStatus == status

\* `_handle`: a RUNNING state whose runner is gone reads STALE.
Reported == IF status = "RUNNING" /\ ~Alive THEN "STALE" ELSE status

------------------------------------------------------------------------------
(* A session. *)

\* `submit` and `resume`: nothing is started while a runner is alive.
Submit(p) ==
  /\ pc[p] = "off" /\ folder /\ ~Alive
  /\ "race" \in Accidents \/ \A q \in Runners : pc[q] \notin {"spawned", "checked"}
  /\ Goto(p, "spawned")
  /\ UNCHANGED <<suspended, beat, record, fresh, fileVars, folderVars, kind, exit, lapse>>

\* `csmw resume` typed by a person: no look before the process starts.
Resume(p) ==
  /\ pc[p] = "off" /\ folder
  /\ "race" \in Accidents \/ \A q \in Runners : pc[q] \notin {"spawned", "checked"}
  /\ Goto(p, "spawned")
  /\ UNCHANGED <<suspended, beat, record, fresh, fileVars, folderVars, kind, exit, lapse>>

\* `begin` looks whether another runner holds the run; `runner_for` could not load a run
\* that is gone.
CheckAlive(p) ==
  /\ Awake(p, "spawned")
  /\ IF ~folder THEN Goto(p, "gone") /\ exit' = [exit EXCEPT ![p] = 1]
     ELSE Goto(p, IF Alive THEN "refused" ELSE "checked") /\ UNCHANGED exit
  /\ UNCHANGED <<suspended, beat, record, fresh, fileVars, folderVars, kind, lapse>>

\* ... and takes the record.  Who else has looked by now does not look again.
TakeRecord(p) ==
  /\ Awake(p, "checked")
  /\ record' = [pid |-> p, open |-> TRUE] /\ fresh' = TRUE
  /\ lapse' = LET looked == {q \in Runners : pc[q] = "checked"}
              IN  IF looked = {p} THEN lapse ELSE lapse \union looked
  /\ Goto(p, "taken")
  /\ UNCHANGED <<suspended, beat, fileVars, folderVars, kind, exit>>

\* The halt of the last session is cleared ...
ClearHalt(p) ==
  /\ Awake(p, "taken")
  /\ halt' = "none"
  /\ Goto(p, "cleared")
  /\ UNCHANGED <<suspended, beat, record, fresh, status, stop, folderVars, kind, exit, lapse>>

\* ... and the run marked RUNNING; without its state.json the update raises.
MarkRunning(p) ==
  /\ Awake(p, "cleared")
  /\ IF folder THEN status' = "RUNNING" /\ Goto(p, "running") /\ UNCHANGED kind
               ELSE /\ Goto(p, "halting") /\ kind' = [kind EXCEPT ![p] = "broke"]
                    /\ UNCHANGED status
  /\ UNCHANGED <<suspended, beat, record, fresh, halt, stop, folderVars, exit, lapse>>

\* (mutant) The STOP file is consumed and the session goes on.
BoundaryGoesOn(p) ==
  /\ Awake(p, "running") /\ folder /\ stop
  /\ stop' = FALSE /\ Goto(p, "working")
  /\ UNCHANGED <<suspended, beat, record, fresh, status, halt, folderVars, kind, exit, lapse>>

\* A step boundary with a STOP file: consumed, and the session halts.
Boundary(p) ==
  /\ Awake(p, "running") /\ folder /\ stop
  /\ stop' = FALSE
  /\ kind' = [kind EXCEPT ![p] = "resumable"] /\ Goto(p, "halting")
  /\ UNCHANGED <<suspended, beat, record, fresh, status, halt, folderVars, exit, lapse>>

\* No STOP file, or no folder: what is ready is begun.
Round(p) ==
  /\ Awake(p, "running") /\ ~(folder /\ stop)
  /\ Goto(p, "working")
  /\ UNCHANGED <<suspended, beat, record, fresh, fileVars, folderVars, kind, exit, lapse>>

\* The steps of the round are done.
RoundDone(p) ==
  /\ Awake(p, "working") /\ folder
  /\ Goto(p, "running")
  /\ UNCHANGED <<suspended, beat, record, fresh, fileVars, folderVars, kind, exit, lapse>>

\* `_gate`: one of them waits for a decision, without a look at STOP ...
WaitAtGate(p) ==
  /\ Awake(p, "working") /\ folder
  /\ Goto(p, "gate")
  /\ UNCHANGED <<suspended, beat, record, fresh, fileVars, folderVars, kind, exit, lapse>>

\* ... which somebody gives, or nobody.
GateAnswered(p) ==
  /\ Awake(p, "gate") /\ folder
  /\ Goto(p, "running")
  /\ UNCHANGED <<suspended, beat, record, fresh, fileVars, folderVars, kind, exit, lapse>>

\* Nothing is ready and the program is complete.
Complete(p) ==
  /\ Awake(p, "working") /\ folder
  /\ status' = "COMPLETED"
  /\ kind' = [kind EXCEPT ![p] = "completed"] /\ Goto(p, "ended")
  /\ UNCHANGED <<suspended, beat, record, fresh, halt, stop, folderVars, exit, lapse>>

\* A step halts (a gate when its time is over, if it was given one), or the loop breaks: the
\* only way on when the folder is gone.
Halts(p) ==
  /\ pc[p] \in {"working", "gate"} /\ p \notin suspended
  /\ \E k \in HaltKinds : (~folder => k = "broke") /\ kind' = [kind EXCEPT ![p] = k]
  /\ Goto(p, "halting")
  /\ UNCHANGED <<suspended, beat, record, fresh, fileVars, folderVars, exit, lapse>>

WriteHalt(p) ==
  /\ Awake(p, "halting")
  /\ halt' = kind[p]
  /\ Goto(p, "halted")
  /\ UNCHANGED <<suspended, beat, record, fresh, status, stop, folderVars, kind, exit, lapse>>

SetHalted(p) ==
  /\ Awake(p, "halted")
  /\ status' = IF ~folder THEN status ELSE IF kind[p] = "resumable" THEN "PAUSED" ELSE "FAILED"
  /\ Goto(p, "ended")
  /\ UNCHANGED <<suspended, beat, record, fresh, halt, stop, folderVars, kind, exit, lapse>>

\* `_close_record`: the session's own record, closed, over whatever runner.json says.
CloseRecord(p) ==
  /\ Awake(p, "ended")
  /\ record' = [pid |-> p, open |-> FALSE] /\ Overwrites(p)
  /\ Goto(p, "exiting")
  /\ UNCHANGED <<suspended, beat, fresh, fileVars, folderVars, kind, exit>>

\* `_report_outcome`: the exit code is read off halt.json, for a session and for a refusal.
Exit(p) ==
  /\ pc[p] \in {"exiting", "refused"} /\ p \notin suspended
  /\ exit' = [exit EXCEPT ![p] =
       IF ~folder THEN 1 ELSE CASE halt = "none" -> 0 [] halt = "resumable" -> 2 [] halt = "broke" -> 1]
  /\ Goto(p, "gone") /\ beat' = beat \ {p}
  /\ UNCHANGED <<suspended, record, fresh, fileVars, folderVars, kind, lapse>>

------------------------------------------------------------------------------
(* The heartbeat thread of a session, and time. *)

Beat(p) ==
  /\ pc[p] \in Driving /\ p \notin suspended
  /\ record' = [pid |-> p, open |-> TRUE] /\ fresh' = TRUE /\ Overwrites(p)
  /\ UNCHANGED <<pc, suspended, beat, fileVars, folderVars, kind, exit>>

\* The text is built while the record is open ...
BeatDump(p) ==
  /\ "latebeat" \in Accidents
  /\ pc[p] \in Driving /\ p \notin suspended
  /\ beat' = beat \union {p}
  /\ UNCHANGED <<pc, suspended, record, fresh, fileVars, folderVars, kind, exit, lapse>>

\* ... and renamed later, maybe after the record was closed.
BeatWrite(p) ==
  /\ p \in beat /\ p \notin suspended
  /\ record' = [pid |-> p, open |-> TRUE] /\ fresh' = TRUE /\ Overwrites(p)
  /\ beat' = beat \ {p}
  /\ UNCHANGED <<pc, suspended, fileVars, folderVars, kind, exit>>

\* Thirty seconds without a heartbeat: only when no thread can beat for this record.
Quiet ==
  /\ fresh
  /\ record.pid # Nobody =>
       record.pid \in suspended \/ pc[record.pid] \notin Driving \/ ~record.open
  /\ fresh' = FALSE
  /\ UNCHANGED <<pc, suspended, beat, record, fileVars, folderVars, kind, exit, lapse>>

------------------------------------------------------------------------------
(* What people and machines do. *)

Suspend(p) ==
  /\ "suspend" \in Accidents
  /\ pc[p] \in Present /\ p \notin suspended
  /\ suspended' = suspended \union {p}
  /\ lapse' = lapse \union (Drivers \intersect {p})
  /\ UNCHANGED <<pc, beat, record, fresh, fileVars, folderVars, kind, exit>>

Wake(p) ==
  /\ p \in suspended
  /\ suspended' = suspended \ {p}
  /\ UNCHANGED <<pc, beat, record, fresh, fileVars, folderVars, kind, exit, lapse>>

Die(p) ==
  /\ pc[p] \in Present
  /\ Goto(p, "gone")
  /\ suspended' = suspended \ {p} /\ beat' = beat \ {p}
  /\ UNCHANGED <<record, fresh, fileVars, folderVars, kind, exit, lapse>>

\* `cancel` and `pause`: a STOP file, whether or not anybody drives.
Cancel ==
  /\ folder /\ ~stop
  /\ stop' = TRUE
  /\ UNCHANGED <<pc, suspended, beat, record, fresh, status, halt, folderVars, kind, exit, lapse>>

\* `delete` looks at the status and the runner, then erases the mirrors ...
DeleteCheck ==
  /\ "delete" \in Accidents /\ folder /\ ~deleting
  /\ ~(status = "RUNNING" /\ Alive)
  /\ deleting' = TRUE
  /\ UNCHANGED <<pc, suspended, beat, record, fresh, fileVars, folder, kind, exit, lapse>>

\* ... and the folder.
DeleteFolder ==
  /\ deleting /\ folder
  /\ folder' = FALSE /\ deleting' = FALSE
  /\ UNCHANGED <<pc, suspended, beat, record, fresh, fileVars, kind, exit, lapse>>

Session(p) == \/ CheckAlive(p) \/ TakeRecord(p) \/ ClearHalt(p) \/ MarkRunning(p)
              \/ Boundary(p) \/ Round(p) \/ RoundDone(p) \/ WaitAtGate(p) \/ GateAnswered(p)
              \/ Complete(p) \/ Halts(p)
              \/ WriteHalt(p) \/ SetHalted(p) \/ CloseRecord(p) \/ Exit(p)

Heartbeat(p) == Beat(p) \/ BeatDump(p) \/ BeatWrite(p)

Next ==
  \/ \E p \in Runners : Submit(p) \/ Resume(p) \/ Session(p) \/ Heartbeat(p)
                        \/ Suspend(p) \/ Wake(p) \/ Die(p)
  \/ Quiet \/ Cancel \/ DeleteCheck \/ DeleteFolder

Spec == Init /\ [][Next]_vars

\* A process that runs makes its next step, and a round ends (Driver's DriveEnds) unless it
\* stands at a gate, which nobody need ever answer; no session need ever complete.  A sleeper wakes,
\* and thirty seconds without a heartbeat pass.
Moves(p) == \/ CheckAlive(p) \/ TakeRecord(p) \/ ClearHalt(p) \/ MarkRunning(p) \/ Boundary(p)
            \/ Round(p) \/ RoundDone(p) \/ WriteHalt(p) \/ SetHalted(p) \/ CloseRecord(p) \/ Exit(p)
FairSpec == Spec /\ WF_vars(Quiet) /\ \A p \in Runners : WF_vars(Moves(p)) /\ WF_vars(Wake(p))

------------------------------------------------------------------------------
(* Properties. *)

PcLabels == Present \union {"off", "gone"}

\* Every variable holds a value of its kind.
TypeOK ==
  /\ pc \in [Runners -> PcLabels]
  /\ suspended \subseteq Runners /\ beat \subseteq Runners
  /\ record \in [pid : Runners \union {Nobody}, open : BOOLEAN] /\ fresh \in BOOLEAN
  /\ status \in {"QUEUED", "RUNNING", "PAUSED", "FAILED", "COMPLETED"}
  /\ halt \in HaltKinds \union {"none"} /\ stop \in BOOLEAN
  /\ folder \in BOOLEAN /\ deleting \in BOOLEAN
  /\ kind \in [Runners -> HaltKinds \union {"none", "completed"}]
  /\ \A p \in Runners : pc[p] \in {"halting", "halted"} => kind[p] \in HaltKinds
  /\ exit \in [Runners -> {NoCode, 0, 1, 2}]
  /\ lapse \subseteq Runners

\* A live runner refuses a second driver.  Where two drive all the same, one of them lost its hold
\* on the record: it was suspended while it drove, or its record was overwritten by a session that
\* was over or that had lost its hold itself, or it took the record while another process had
\* looked and not yet taken it (driver/runner.py `begin`).
OneDriver == \A p, q \in Drivers : p = q \/ p \in lapse \/ q \in lapse

\* A run somebody drives is never reported as stale (layers/runner.py `_handle`).
LiveIsNeverStale == \A p \in Drivers : folder => Alive

\* A run reported RUNNING has a process behind it that drives it: the status left by a dead
\* one is never taken at its word (state/run.py `RunnerRecord`, layers/runner.py `_handle`).
RunningIsDriven == folder /\ Reported = "RUNNING" => Drivers # {}

\* On a run nobody drives, a halt report and the status say the same thing, whatever died in
\* between: a completed run has none, a report left beside PAUSED or FAILED is that of the
\* session that set the status (driver/runner.py `_halt`, `begin`).
RestStateAgrees ==
  folder /\ Drivers = {} =>
    /\ status = "COMPLETED" => halt = "none"
    /\ status = "PAUSED" => halt \in {"resumable", "none"}
    /\ status = "FAILED" => halt \in {"broke", "none"}

\* The three together: what `handle` says of a run is true of its processes and of its files.
ReportIsTrue == LiveIsNeverStale /\ RunningIsDriven /\ RestStateAgrees

\* A STOP file laid down while somebody drives ends that session, also when it would never
\* have ended by itself.  What keeps a session under a STOP is a gate nobody answers, and nothing
\* else (layers/runner.py `cancel`, driver/runner.py `drive`, `_gate`).
StopIsHonoured ==
  \A p \in Runners :
    [](stop /\ pc[p] \in Looping => <>(pc[p] \notin Looping \/ [](pc[p] = "gate")))

\* A session that is over does not hold the run for ever: whatever its heartbeat wrote last, a
\* runner that begins later gets through (state/run.py `runner_alive`).
NotHeldByTheDead == (Alive /\ Drivers = {}) ~> (~Alive \/ Drivers # {})

==============================================================================
