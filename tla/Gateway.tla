-------------------------------- MODULE Gateway --------------------------------
(***************************************************************************)
(* Run folders and their index (gateway/api.py, layers/registry.py).  A    *)
(* run is a folder with a state.json.  The index, one SQLite file for the  *)
(* pages, servers and shells of a person, has a row for each folder.  A    *)
(* start looks for the first free name (t, t-2, t-3, ...), creates the run *)
(* in it, enters it in the index and submits it; a listing enters every    *)
(* folder it finds, takes the rows that are not hidden and reads each      *)
(* run's own record again; a delete removes the folder, then the row; a    *)
(* raised ceiling reads the run's record and writes it again.  A statement *)
(* of SQL is one step, and so is the look at one file: all the rest of     *)
(* these operations interleave.                                            *)
(*                                                                         *)
(* A definition marked (mutant) is used by no specification: it is a       *)
(* plausible mistake in the definition below it, which a property must     *)
(* refuse.                                                                 *)
(***************************************************************************)
EXTENDS Naturals, FiniteSets

CONSTANTS Starters,   \* who starts runs of the task
          MaxFolders, \* names of the task's folders
          MaxRuns,    \* bound: runs ever created
          MaxLists,   \* bound: listings and deletes
          MaxHands    \* bound: what people do to the folders and the rows

ASSUME GatewayAssumption == {MaxFolders, MaxRuns, MaxLists, MaxHands} \subseteq Nat \ {0}

Folders == 1..MaxFolders
None == 0

VARIABLES
  folder,   \* the run that lives in the folder, None without a state.json
  row,      \* of the index: "none", or whether it is "shown" or "hidden"
  starter,  \* each call: where it stands, its folder, the run it read there, whether it made one,
            \* whether it is a shell's, which knows no index
  list,     \* the listing: where it stands, the folder it is at, the rows it took
  del,      \* the delete: where it stands and its folder
  runs, lists, hands,   \* (bounds) what was done so far
  together, \* (history) runs that came into a folder another call was about to write to
  lost,     \* (history) runs whose record another run's replaced
  there,    \* (history) runs in place, and not hidden, since the listing began
  raced,    \* (history) folders that went while somebody was about to enter them
  taken,    \* (history) folders removed by hand
  cut       \* (history) folders whose delete ended before it came to the row

work == <<starter, list, del>>
bounds == <<runs, lists, hands>>
past == <<together, lost, there, raced, taken, cut>>
vars == <<folder, row, work, bounds, past>>

Idle == [pc |-> "idle", at |-> 1, run |-> None, new |-> FALSE, hand |-> FALSE]
NoDelete == [pc |-> "idle", at |-> 1]
Rest == [pc |-> "idle", at |-> 1, rows |-> {}]

Init ==
  /\ folder = [f \in Folders |-> None] /\ row = [f \in Folders |-> "none"]
  /\ starter = [s \in Starters |-> Idle] /\ list = Rest /\ del = NoDelete
  /\ runs = 0 /\ lists = 0 /\ hands = 0
  /\ together = {} /\ lost = {} /\ there = {} /\ raced = {} /\ taken = {} /\ cut = {}

------------------------------------------------------------------------------
(* A row and a folder. *)

\* `register`: a new row is shown; one that is there keeps its mark.
Entered(f) == [row EXCEPT ![f] = IF @ = "none" THEN "shown" ELSE @]

\* Who is about to enter the folder: its record was read, its row is not written.
Entering(f) ==
  \/ \E s \in Starters : starter[s].pc = "enter" /\ starter[s].at = f
  \/ list.pc = "enter" /\ list.at = f

\* A record is written in the folder: what left its row without one is over.
Filled(f) == raced' = raced \ {f} /\ taken' = taken \ {f} /\ cut' = cut \ {f}

\* The folder goes, by a delete or by hand.
Gone(f) ==
  /\ folder' = [folder EXCEPT ![f] = None]
  /\ there' = there \ {folder[f]}
  /\ raced' = IF Entering(f) THEN raced \union {f} ELSE raced

------------------------------------------------------------------------------
(* Starting a run: run, run_again. *)

Set(s, pc) == starter' = [starter EXCEPT ![s] = IF pc = "idle" THEN Idle ELSE [@ EXCEPT !.pc = pc]]

Start(s) ==
  /\ starter[s].pc = "idle"
  /\ starter' = [starter EXCEPT ![s] = [Idle EXCEPT !.pc = "look"]]
  /\ UNCHANGED <<folder, row, list, del, bounds, past>>

Look(s) ==
  /\ starter[s].pc = "look" /\ folder[starter[s].at] # None /\ starter[s].at < MaxFolders
  /\ starter' = [starter EXCEPT ![s].at = @ + 1]
  /\ UNCHANGED <<folder, row, list, del, bounds, past>>

\* The first name without a state.json.
Free(s) ==
  /\ starter[s].pc = "look" /\ folder[starter[s].at] = None
  /\ Set(s, "create")
  /\ UNCHANGED <<folder, row, list, del, bounds, past>>

\* (mutant) The name was free a moment ago.
CreateUnasked(s) ==
  /\ starter[s].pc = "create" /\ Set(s, "write")
  /\ UNCHANGED <<folder, row, list, del, bounds, past>>

\* `RunState.create` looks once more, and raises when a run has come in.
Create(s) ==
  /\ starter[s].pc = "create"
  /\ Set(s, IF folder[starter[s].at] = None THEN "write" ELSE "idle")
  /\ UNCHANGED <<folder, row, list, del, bounds, past>>

\* A call is past its last look at the folder and will write a record there.
Writing(z, f) == starter[z].pc \in {"write", "raise"} /\ starter[z].at = f

\* The lock of the record is held from the read to the write of a raised ceiling.  It is a file
\* of the folder: once that was deleted, it keeps nobody out of the folder that takes its place.
Locked(f) == \E z \in Starters : starter[z].pc = "raise" /\ starter[z].at = f /\ folder[f] = starter[z].run

\* Run r's record is written by s, over another's if that has come after the last look.
Record(s, f, r) ==
  /\ folder' = [folder EXCEPT ![f] = r]
  /\ lost' = lost \union ({folder[f]} \ {None, r})
  /\ together' = together \union IF \E z \in Starters \ {s} : Writing(z, f) THEN {r} ELSE {}
  /\ there' = there \ ({folder[f]} \ {r})
  /\ Filled(f)

\* A new run.  A start from a shell ends here, with no row.
Write(s) ==
  LET f == starter[s].at
  IN /\ starter[s].pc = "write" /\ runs < MaxRuns /\ ~Locked(f)
     /\ runs' = runs + 1
     /\ Record(s, f, runs + 1)
     /\ starter' = [starter EXCEPT ![s] = IF @.hand THEN Idle ELSE [@ EXCEPT !.pc = "register", !.new = TRUE]]
     /\ UNCHANGED <<row, list, del, lists, hands>>

\* Raising a ceiling reads the run's record under its lock,
RaiseCeiling(s, f) ==
  /\ starter[s].pc = "idle" /\ folder[f] # None /\ ~Locked(f)
  /\ starter' = [starter EXCEPT ![s] = [Idle EXCEPT !.pc = "raise", !.at = f, !.run = folder[f]]]
  /\ UNCHANGED <<folder, row, list, del, bounds, past>>

\* and writes it, in a folder that is made again when it has gone; the row is entered next.
WriteCeiling(s) ==
  /\ starter[s].pc = "raise"
  /\ Record(s, starter[s].at, starter[s].run)
  /\ starter' = [starter EXCEPT ![s].pc = "register", ![s].run = None]
  /\ UNCHANGED <<row, list, del, bounds>>

\* The record is read to be entered; a run that is gone by now makes the call raise.
Register(s) ==
  /\ starter[s].pc = "register"
  /\ Set(s, IF folder[starter[s].at] = None THEN "idle" ELSE "enter")
  /\ UNCHANGED <<folder, row, list, del, bounds, past>>

Enter(s) ==
  /\ starter[s].pc = "enter"
  /\ row' = Entered(starter[s].at)
  /\ Set(s, IF starter[s].new THEN "submit" ELSE "idle")
  /\ UNCHANGED <<folder, list, del, bounds, past>>

\* The run is handed to the runner (module RunControl).
Submit(s) ==
  /\ starter[s].pc = "submit"
  /\ Set(s, "idle")
  /\ UNCHANGED <<folder, row, list, del, bounds, past>>

------------------------------------------------------------------------------
(* Listing: scan, then refresh. *)

Living == {folder[f] : f \in Folders} \ {None}
Unhidden == {folder[f] : f \in {g \in Folders : row[g] # "hidden"}} \ {None}

\* (mutant) A listing is a read of the index.
ListUnscanned ==
  /\ list.pc = "idle" /\ lists < MaxLists
  /\ lists' = lists + 1
  /\ list' = [pc |-> "rows", at |-> 1, rows |-> {}] /\ there' = Unhidden
  /\ UNCHANGED <<folder, row, starter, del, runs, hands, together, lost, raced, taken, cut>>

List ==
  /\ list.pc = "idle" /\ lists < MaxLists
  /\ lists' = lists + 1
  /\ list' = [pc |-> "scan", at |-> 1, rows |-> {}] /\ there' = Unhidden
  /\ UNCHANGED <<folder, row, starter, del, runs, hands, together, lost, raced, taken, cut>>

ToNext == IF list.at = MaxFolders
          THEN [list EXCEPT !.pc = "rows", !.at = 1] ELSE [list EXCEPT !.pc = "scan", !.at = @ + 1]

Scan ==
  /\ list.pc = "scan"
  /\ list' = IF folder[list.at] = None THEN ToNext ELSE [list EXCEPT !.pc = "enter"]
  /\ UNCHANGED <<folder, row, starter, del, bounds, past>>

ScanEnter ==
  /\ list.pc = "enter"
  /\ row' = Entered(list.at)
  /\ list' = ToNext
  /\ UNCHANGED <<folder, starter, del, bounds, past>>

\* The rows that are not hidden; each run's record is then read again for its status.
Rows ==
  /\ list.pc = "rows"
  /\ list' = [list EXCEPT !.pc = "listed", !.rows = {f \in Folders : row[f] = "shown"}]
  /\ UNCHANGED <<folder, row, starter, del, bounds, past>>

Listed ==
  /\ list.pc = "listed"
  /\ list' = Rest /\ there' = {}
  /\ UNCHANGED <<folder, row, starter, del, bounds, together, lost, raced, taken, cut>>

------------------------------------------------------------------------------
(* Deleting, forgetting, and what people do by hand. *)

\* A run is found by its folder or by its row; its record must be there.  That it is not running
\* is looked at in module RunControl: here every run may be deleted.
Delete(f) ==
  /\ del.pc = "idle" /\ lists < MaxLists
  /\ folder[f] # None
  /\ lists' = lists + 1
  /\ del' = [pc |-> "folder", at |-> f]
  /\ UNCHANGED <<folder, row, starter, list, runs, hands, past>>

\* A folder that is gone by now makes the delete raise.
DeleteFolder ==
  /\ del.pc = "folder"
  /\ IF folder[del.at] = None
     THEN del' = NoDelete /\ UNCHANGED <<folder, there, raced>>
     ELSE Gone(del.at) /\ del' = [del EXCEPT !.pc = "row"]
  /\ UNCHANGED <<row, starter, list, bounds, together, lost, taken, cut>>

\* The removal raises, or its process dies: before the record is gone, which leaves everything, or
\* after, which leaves the row.
DeleteCut ==
  /\ del.pc \in {"folder", "row"}
  /\ del' = NoDelete
  /\ cut' = IF del.pc = "row" /\ folder[del.at] = None THEN cut \union {del.at} ELSE cut
  /\ UNCHANGED <<folder, row, starter, list, bounds, together, lost, there, raced, taken>>

\* (mutant) The row is left for the next listing.
DropNothing ==
  /\ del.pc = "row"
  /\ del' = NoDelete
  /\ UNCHANGED <<folder, row, starter, list, bounds, past>>

\* The row goes, also when another run has come into the folder since.
DropRow ==
  /\ del.pc = "row"
  /\ row' = [row EXCEPT ![del.at] = "none"]
  /\ del' = NoDelete
  /\ there' = there \ {folder[del.at]}
  /\ IF Entering(del.at) THEN UNCHANGED <<raced, taken, cut>> ELSE Filled(del.at)
  /\ UNCHANGED <<folder, starter, list, bounds, together, lost>>

Forget(f) ==
  /\ hands < MaxHands /\ row[f] = "shown"
  /\ hands' = hands + 1
  /\ row' = [row EXCEPT ![f] = "hidden"]
  /\ there' = there \ {folder[f]}
  /\ UNCHANGED <<folder, work, runs, lists, together, lost, raced, taken, cut>>

Remember(f) ==
  /\ hands < MaxHands /\ row[f] = "hidden"
  /\ hands' = hands + 1
  /\ row' = [row EXCEPT ![f] = "shown"]
  /\ UNCHANGED <<folder, work, runs, lists, past>>

\* A run started from the shell: in a folder of the person's choice, and known to no index.
RunByHand(s, f) ==
  /\ starter[s].pc = "idle" /\ hands < MaxHands
  /\ hands' = hands + 1
  /\ starter' = [starter EXCEPT ![s] = [Idle EXCEPT !.pc = "create", !.at = f, !.hand = TRUE]]
  /\ UNCHANGED <<folder, row, list, del, runs, lists, past>>

\* A person removes the folder, and leaves the row.
RemoveByHand(f) ==
  /\ hands < MaxHands /\ folder[f] # None
  /\ hands' = hands + 1
  /\ Gone(f) /\ taken' = taken \union {f}
  /\ UNCHANGED <<row, work, runs, lists, together, lost, cut>>

Next ==
  \/ \E s \in Starters :
       \/ Start(s) \/ Look(s) \/ Free(s) \/ Create(s) \/ Write(s) \/ WriteCeiling(s)
       \/ Register(s) \/ Enter(s) \/ Submit(s)
       \/ \E f \in Folders : RaiseCeiling(s, f) \/ RunByHand(s, f)
  \/ List \/ Scan \/ ScanEnter \/ Rows \/ Listed
  \/ DeleteFolder \/ DropRow \/ DeleteCut
  \/ \E f \in Folders :
       Delete(f) \/ Forget(f) \/ Remember(f) \/ RemoveByHand(f)

Spec == Init /\ [][Next]_vars

------------------------------------------------------------------------------
(* Properties. *)

\* Every variable holds a value of its kind.
TypeOK ==
  /\ folder \in [Folders -> 0..MaxRuns]
  /\ row \in [Folders -> {"none", "shown", "hidden"}]
  /\ starter \in [Starters -> [pc : {"idle", "look", "create", "write", "raise", "register", "enter", "submit"},
                              at : Folders, run : 0..MaxRuns, new : BOOLEAN, hand : BOOLEAN]]
  /\ list \in [pc : {"idle", "scan", "enter", "rows", "listed"}, at : Folders, rows : SUBSET Folders]
  /\ del \in [pc : {"idle", "folder", "row"}, at : Folders]
  /\ runs \in 0..MaxRuns /\ lists \in 0..MaxLists /\ hands \in 0..MaxHands
  /\ together \subseteq 1..MaxRuns /\ lost \subseteq 1..MaxRuns /\ there \subseteq 1..MaxRuns
  /\ raced \subseteq Folders /\ taken \subseteq Folders /\ cut \subseteq Folders

\* A run's record is written over by another run's only when it came into the folder after the
\* last look of the call that writes: a start, which looks twice, or a raised ceiling whose own
\* run was deleted under it (gateway/api.py `run`, state/run.py `create`, `update`).
RunIsNeverReplaced == lost \subseteq together

\* A listing shows every run that was in place from its beginning to its end, started from
\* wherever, unless its folder was forgotten or a delete of the folder's last run took its row
\* (layers/registry.py `scan`, `refresh`).
ListIsComplete == list.pc = "listed" => there \subseteq {folder[f] : f \in list.rows}

\* A row without a folder, which no delete can find any more, is left only by a removal by hand,
\* by a delete that ended before it came to the row, or by somebody who read the run's record
\* before the folder went and entered it after (gateway/api.py `delete`, layers/registry.py
\* `register`).  None of these is an excuse any longer once a record is written there again.
GhostsHaveCauses ==
  \A f \in Folders : row[f] # "none" /\ folder[f] = None =>
    f \in raced \union taken \union cut \/ (del.pc = "row" /\ del.at = f)

\* What was forgotten stays hidden through every scan, start and change, until it is remembered
\* or deleted (layers/registry.py `forget`).
ForgottenStays ==
  [][\A f \in Folders : row[f] = "hidden" /\ row'[f] # "hidden" =>
       Remember(f) \/ (DropRow /\ del.at = f)]_vars

==============================================================================
