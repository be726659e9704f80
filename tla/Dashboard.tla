------------------------------- MODULE Dashboard -------------------------------
(***************************************************************************)
(* The dashboard (dashboard/dashboard.py, dashboard/home.py) beside a run  *)
(* that goes on.  The run's files change under the hands of its session    *)
(* (modules Driver, Gate and RunControl say how; here it is one step after *)
(* the other, with the order in which the files change).  One tab shows    *)
(* either the run's page or the home page.  A page reads file after file,  *)
(* while the run goes on, and shows the reading if a hash of the files'    *)
(* sizes and times is not the one it has; the home keeps a row as long as  *)
(* such a key stays the same.  What a person clicks arrives later than the *)
(* page they saw.  One tab's handlers and polls exclude each other.        *)
(*                                                                         *)
(* No hash is computed: `stale` tells that a hashed file changed since the *)
(* page took its hash, `old` the same of a key of the home's.              *)
(*                                                                         *)
(* A definition marked (mutant) is used by no specification: it is a       *)
(* plausible mistake in the definition below it, which a property must     *)
(* refuse.                                                                 *)
(***************************************************************************)
EXTENDS RunView

CONSTANTS MaxSessions, \* bound: sessions of the run
          MaxTurns     \* bound: failures, deaths, late heartbeats, removals, and what is done elsewhere

ASSUME DashboardAssumption == MaxSessions \in Nat \ {0} /\ MaxTurns \in Nat

VARIABLES
  files,   \* the run's folder
  session, \* who drives the run: where they stand, the step they are at, a late heartbeat
  used,  \* (bounds) sessions and turns so far
  tab,     \* "run" or "home"
  page,    \* the run page: its build, what it shows, the stage picked, its poller
  click,   \* a decision made on the run page, on its way to the server
  astray,  \* (history) clicks that decided another gate than the person saw
  home     \* the home page: its build, its cache, its rows, the ticks

run == <<files, session, used>>
pagesVars == <<run, tab, page, click, astray, home>>

NoStage == 0
Pending == [k \in Steps |-> "pending"]
NoFiles == [there |-> FALSE, status |-> "QUEUED", steps |-> Pending, log |-> <<>>, halt |-> "none",
            asks |-> {}, decided |-> {}, stop |-> FALSE]
NewFiles == [NoFiles EXCEPT !.there = TRUE]
Off == [pc |-> "off", at |-> NoGate, late |-> FALSE]

\* A live runner: a record that is open, a process, a fresh heartbeat.
Live == session.pc # "off" /\ ~session.late

\* What a build reads of the folder, whole; and what the first look finds.
Reading(live, stop) ==
  [status |-> files.status, steps |-> files.steps, log |-> files.log, halt |-> files.halt,
   asks |-> files.asks, decided |-> files.decided, stop |-> stop,
   stale |-> files.status = "RUNNING" /\ ~live]
NoReading == [status |-> "QUEUED", steps |-> Pending, log |-> <<>>, halt |-> "none",
              asks |-> {}, decided |-> {}, stop |-> FALSE, stale |-> FALSE]

NoRow == Row(NoReading)
NoClick == [saw |-> NoGate, picked |-> FALSE]

PagesInit ==
  /\ files = NewFiles /\ session = Off
  /\ used = [sessions |-> 0, turns |-> 0]
  /\ tab \in {"run", "home"}
  /\ page = [pc |-> "idle", by |-> "none", seen |-> NoReading, shown |-> View(NoReading),
             loaded |-> FALSE, stale |-> FALSE, since |-> FALSE, torn |-> FALSE,
             picked |-> NoStage, polls |-> FALSE]
  /\ click = NoClick /\ astray = {}
  /\ home = [pc |-> "idle", seen |-> NoReading, row |-> NoRow, cached |-> FALSE, old |-> FALSE,
             since |-> FALSE, rows |-> {}, other |-> TRUE, ticked |-> {}, confirm |-> FALSE,
             asked |-> {}, status |-> "all"]

------------------------------------------------------------------------------
(* Files that change, and who notices. *)

\* (mutant) The folder of the questions is left out of the hash.
HashedWithoutGates == {"state", "events", "halt", "runner"}

\* `refresh_hash`: state, events, halt, every .json and .md of the folder (so runner.json too),
\* gates, streams, artifacts; not STOP, which has no suffix.
Hashed == {"state", "events", "halt", "runner", "gates"}

\* `_mtimes`.
Keyed == {"state", "events", "halt", "runner"}

Notice(P, K, changed) ==
  /\ page' = IF tab # "run" \/ changed \intersect Hashed = {} THEN P
             ELSE [P EXCEPT !.stale = TRUE, !.since = P.pc # "idle"]
  /\ home' = IF tab # "home" \/ changed \intersect Keyed = {} THEN K
             ELSE [K EXCEPT !.old = K.cached, !.since = K.pc # "idle"]

Changed(changed) ==
  /\ Notice(page, home, changed)
  /\ UNCHANGED <<tab, click, astray>>

Turn == used.turns < MaxTurns /\ used' = [used EXCEPT !.turns = @ + 1]

------------------------------------------------------------------------------
(* The run: its session, and other hands. *)

At(pc) == session.pc = pc
GoTo(pc) == session' = [session EXCEPT !.pc = pc]
Log(kind, k) == Append(files.log, <<kind, k>>)
Undone == {k \in Steps : files.steps[k] # "done"}
First == IF Undone = {} THEN NoGate ELSE CHOOSE k \in Undone : \A j \in Undone : k <= j

Open ==
  /\ At("off") /\ files.there /\ files.status # "COMPLETED" /\ used.sessions < MaxSessions
  /\ session' = [Off EXCEPT !.pc = "open"] /\ used' = [used EXCEPT !.sessions = @ + 1]
  /\ Changed({"runner"}) /\ UNCHANGED files

ClearHalt ==
  /\ At("open") /\ files.halt # "none"
  /\ files' = [files EXCEPT !.halt = "none"]
  /\ Changed({"halt", "state", "events"}) /\ UNCHANGED <<session, used>>

BeginRunning ==
  /\ At("open") /\ files.halt = "none"
  /\ files' = [files EXCEPT !.status = "RUNNING"] /\ GoTo("next")
  /\ Changed({"state", "events"}) /\ UNCHANGED used

GoToStep == session' = [session EXCEPT !.pc = "start", !.at = First]

\* A step's record and its first event are written once; a resumed run finds them.
Issue ==
  /\ At("next") /\ ~files.stop /\ Undone # {} /\ files.steps[First] = "pending"
  /\ files' = [files EXCEPT !.steps[First] = "running", !.log = Log("issued", First)]
  /\ GoToStep
  /\ Changed({"state", "events"}) /\ UNCHANGED used

IssuedBefore ==
  /\ At("next") /\ ~files.stop /\ Undone # {} /\ files.steps[First] # "pending"
  /\ GoToStep
  /\ Changed({}) /\ UNCHANGED <<files, used>>

StartStep ==
  /\ At("start")
  /\ files' = [files EXCEPT !.log = Log("started", session.at)]
  /\ GoTo("ask")
  /\ Changed({"state", "events"}) /\ UNCHANGED used

\* The ask and its event are written once; a resumed run finds them.
Ask ==
  /\ At("ask") /\ session.at \notin files.asks
  /\ files' = [files EXCEPT !.asks = @ \union {session.at}, !.log = Log("asked", session.at)]
  /\ GoTo("wait")
  /\ Changed({"gates", "events"}) /\ UNCHANGED used

AskedBefore ==
  /\ At("ask") /\ session.at \in files.asks
  /\ GoTo("wait")
  /\ Changed({}) /\ UNCHANGED <<files, used>>

Pass ==
  /\ At("wait") /\ session.at \in files.decided
  /\ files' = [files EXCEPT !.steps[session.at] = "done", !.log = Log("done", session.at)]
  /\ GoTo("next")
  /\ Changed({"state", "events"}) /\ UNCHANGED used

\* `_halt`: the file and the event first, then the status, then the runner's record is closed.
HaltWith(h, k, stop) ==
  /\ files' = [files EXCEPT !.halt = h, !.log = Log("halt", k), !.stop = stop]
  /\ GoTo("halting")
  /\ Changed({"halt", "events"})

Stopped == At("next") /\ files.stop /\ HaltWith("resumable", First, FALSE) /\ UNCHANGED used

Fail ==
  /\ session.pc \in {"ask", "wait"}
  /\ \E h \in {"resumable", "final"} : HaltWith(h, session.at, files.stop)
  /\ Turn

HaltStatus ==
  /\ At("halting")
  /\ files' = [files EXCEPT !.status = IF files.halt = "final" THEN "FAILED" ELSE "PAUSED"]
  /\ GoTo("close")
  /\ Changed({"state", "events"}) /\ UNCHANGED used

Complete ==
  /\ At("next") /\ ~files.stop /\ Undone = {}
  /\ files' = [files EXCEPT !.status = "COMPLETED"] /\ GoTo("close")
  /\ Changed({"state", "events"}) /\ UNCHANGED used

Close ==
  /\ At("close") /\ session' = Off
  /\ Changed({"runner"}) /\ UNCHANGED <<files, used>>

\* A death changes no file, and neither does a heartbeat that does not come.
Die ==
  /\ ~At("off") /\ session' = Off /\ Turn
  /\ Changed({}) /\ UNCHANGED files

Late ==
  /\ ~At("off") /\ ~session.late /\ session' = [session EXCEPT !.late = TRUE] /\ Turn
  /\ Changed({}) /\ UNCHANGED files

Beat ==
  /\ session.late /\ session' = [session EXCEPT !.late = FALSE]
  /\ Changed({"runner"}) /\ UNCHANGED <<files, used>>

\* From the shell, another page, or the gate's own answerer.
DecideElsewhere(k) ==
  /\ files.there /\ k \in files.asks \ files.decided
  /\ files' = [files EXCEPT !.decided = @ \union {k}] /\ Turn
  /\ Changed({"gates"}) /\ UNCHANGED session

StopElsewhere ==
  /\ files.there /\ ~files.stop
  /\ files' = [files EXCEPT !.stop = TRUE] /\ Turn
  /\ Changed({}) /\ UNCHANGED session

Every == {"state", "events", "halt", "runner", "gates"}

DeleteElsewhere ==
  /\ files.there /\ ~Live
  /\ files' = NoFiles /\ session' = Off /\ Turn
  /\ Changed(Every)

\* The start page takes the first name without a state.json: this one, when its run is gone.
StartAgain ==
  /\ ~files.there
  /\ files' = NewFiles
  /\ Changed(Every) /\ UNCHANGED <<session, used>>

Run ==
  \/ Open \/ ClearHalt \/ BeginRunning \/ Issue \/ IssuedBefore \/ StartStep \/ Ask \/ AskedBefore
  \/ Pass \/ Stopped \/ Fail
  \/ HaltStatus \/ Complete \/ Close \/ Die \/ Late \/ Beat
  \/ StopElsewhere \/ DeleteElsewhere \/ StartAgain \/ \E k \in Steps : DecideElsewhere(k)

------------------------------------------------------------------------------
(* The run page's build. *)

OnPage == tab = "run" /\ UNCHANGED <<run, tab, astray, home>>

\* A build begins; the page load and every click forget the hash first.
Building(P, by) ==
  [P EXCEPT !.pc = "state", !.by = by, !.since = FALSE, !.stale = @ \/ by = "person"]

\* A page load starts a poller of its own.
Mount ==
  /\ OnPage /\ page.pc = "idle" /\ ~page.polls /\ files.there
  /\ page' = [Building(page, "person") EXCEPT !.polls = TRUE]
  /\ UNCHANGED click

Poll ==
  /\ OnPage /\ page.pc = "idle" /\ page.polls
  /\ page' = Building(page, "poll")
  /\ UNCHANGED click

\* A folder that is gone makes the build raise; a poller that raises is over.
Broken == [page EXCEPT !.pc = "idle", !.by = "none", !.seen = NoReading, !.since = FALSE,
           !.polls = @ /\ page.by # "poll"]

LookAtState ==
  /\ OnPage /\ page.pc = "state"
  /\ page' = IF ~files.there THEN Broken
             ELSE [page EXCEPT !.pc = "rest", !.seen.status = files.status, !.seen.steps = files.steps]
  /\ UNCHANGED click

\* Events, halt, runner and gates.
LookAtRest ==
  /\ OnPage /\ page.pc = "rest"
  /\ page' = [page EXCEPT !.pc = "show", !.seen.log = files.log, !.seen.halt = files.halt, !.seen.asks = files.asks,
                !.seen.decided = files.decided,
                !.seen.stale = page.seen.status = "RUNNING" /\ ~Live]
  /\ UNCHANGED click

\* The hash comes last, and STOP after it; the same hash leaves the page as it is.
Show ==
  /\ OnPage /\ page.pc = "show"
  /\ page' =
       IF ~files.there THEN Broken
       ELSE IF ~page.stale THEN [page EXCEPT !.pc = "idle", !.by = "none", !.seen = NoReading, !.since = FALSE]
       ELSE [page EXCEPT !.pc = "idle", !.by = "none", !.seen = NoReading, !.loaded = TRUE,
               !.shown = View([page.seen EXCEPT !.stop = files.stop]),
               !.stale = FALSE, !.since = FALSE, !.torn = page.since]
  /\ UNCHANGED click

------------------------------------------------------------------------------
(* The run page's clicks. *)

Selected == IF page.picked # NoStage THEN page.picked ELSE page.shown.current
Still == page.pc = "idle" /\ page.loaded /\ click = NoClick

Pick(s) ==
  /\ OnPage /\ Still /\ page.picked # s
  /\ page' = [page EXCEPT !.picked = s]
  /\ UNCHANGED click

ClickDecide ==
  /\ OnPage /\ Still /\ page.shown.gates[Selected] # NoGate
  /\ click' = [saw |-> page.shown.gates[Selected], picked |-> page.picked # NoStage]
  /\ UNCHANGED page

\* The page acts on a file, and builds anew.
Acts(changed) ==
  LET P == Building(page, "person") IN
  /\ Notice(P, home, changed)
  /\ click' = NoClick
  /\ UNCHANGED <<session, used, tab>>

\* (mutant) The decision is for the stage the run is at.
OfCurrent == page.shown.gates[page.shown.current]

\* The gate of the stage that is selected when the click arrives.
Answered == page.shown.gates[Selected]

Decide ==
  /\ tab = "run" /\ click # NoClick /\ page.pc = "idle"
  /\ IF Answered = NoGate \/ ~files.there
     THEN click' = NoClick /\ UNCHANGED <<run, tab, page, astray, home>>
     ELSE /\ files' = [files EXCEPT !.decided = @ \union {Answered}]
          /\ astray' = astray \union
               IF Answered = click.saw THEN {}
               ELSE {[saw |-> click.saw, picked |-> click.picked, did |-> Answered]}
          /\ Acts({"gates"})

\* `control_click`: the verb of the page as it is when the click arrives.
Clicked(verb) == tab = "run" /\ Still /\ page.shown.control.verb = verb

StopRun ==
  /\ Clicked("stop") /\ files.there
  /\ files' = [files EXCEPT !.stop = TRUE]
  /\ Acts({}) /\ UNCHANGED astray

OpenGate ==
  /\ OnPage /\ Clicked("answer")
  /\ page' = [page EXCEPT !.picked = CHOOSE s \in Stages :
                /\ page.shown.gates[s] # NoGate
                /\ \A t \in Stages : page.shown.gates[t] # NoGate => s <= t]
  /\ UNCHANGED click

RunPage ==
  \/ Mount \/ Poll \/ LookAtState \/ LookAtRest \/ Show
  \/ ClickDecide \/ Decide \/ StopRun \/ OpenGate
  \/ \E s \in Stages \union {NoStage} : Pick(s)

------------------------------------------------------------------------------
(* The home page: two rows, this run's and one of a run that has ended. *)

This == "this"
Other == "other"
AtHome == tab = "home" /\ UNCHANGED <<tab, page, click, astray>>
BucketOf(r) == IF r = This THEN home.row.bucket ELSE "completed"
Visible == {r \in home.rows : home.status \in {"all", BucketOf(r)}}
Others == IF home.other THEN {Other} ELSE {}

\* The key is taken before anything is read; a row that was running is always read again.
Kept == home.cached /\ ~home.old /\ home.row.bucket # "running"

TakeKey ==
  /\ AtHome /\ home.pc = "idle"
  /\ home' = CASE ~files.there -> [home EXCEPT !.rows = Others]
               [] files.there /\ Kept -> [home EXCEPT !.rows = Others \union {This}]
               [] OTHER -> [home EXCEPT !.pc = "state", !.since = FALSE]
  /\ UNCHANGED run

\* A folder that went away meanwhile is skipped.
ReadRecord ==
  /\ AtHome /\ home.pc = "state"
  /\ home' = IF ~files.there THEN [home EXCEPT !.pc = "idle", !.since = FALSE, !.rows = Others]
             ELSE [home EXCEPT !.pc = "rest", !.seen.status = files.status, !.seen.steps = files.steps,
                     !.seen.stale = files.status = "RUNNING" /\ ~Live]
  /\ UNCHANGED run

\* (mutant) The key is taken of the files as they are when the row is ready.
ChangedAfterKey == FALSE

ChangedSinceKey == home.since

ReadRest ==
  /\ AtHome /\ home.pc = "rest"
  /\ home' = [home EXCEPT !.pc = "idle", !.seen = NoReading, !.cached = TRUE, !.old = ChangedSinceKey, !.since = FALSE,
                !.row = Row([home.seen EXCEPT !.halt = files.halt, !.asks = files.asks,
                                              !.decided = files.decided]),
                !.rows = Others \union {This}]
  /\ UNCHANGED run

Filter(w) ==
  /\ AtHome /\ home.pc = "idle" /\ home.status # w
  /\ home' = [home EXCEPT !.status = w]
  /\ UNCHANGED run

\* (mutant) The button goes on asking.
ToggledAsked(ticked) == [home EXCEPT !.ticked = ticked]

\* Whatever is ticked or unticked, the button asks anew.
Toggled(ticked) == [home EXCEPT !.ticked = ticked, !.confirm = FALSE, !.asked = {}]

ToggleSelect(r) ==
  /\ AtHome /\ home.pc = "idle" /\ r \in Visible
  /\ home' = Toggled(IF r \in home.ticked THEN home.ticked \ {r} ELSE home.ticked \union {r})
  /\ UNCHANGED run

SelectAll ==
  /\ AtHome /\ home.pc = "idle"
  /\ \E all \in {Visible, {}} : home' = Toggled(all)
  /\ UNCHANGED run

AskToRemove ==
  /\ AtHome /\ home.pc = "idle" /\ home.ticked # {} /\ ~home.confirm
  /\ home' = [home EXCEPT !.confirm = TRUE, !.asked = home.ticked]
  /\ UNCHANGED run

\* A running run is refused (gateway `delete`), and so is one that is gone already.  A session
\* that was only late ends with its folder (what it may still write: module RunControl).
RemoveSelected ==
  LET gone == home.ticked \intersect ({Other} \union IF files.there /\ ~Live THEN {This} ELSE {})
      K == [home EXCEPT !.ticked = {}, !.confirm = FALSE, !.asked = {},
                        !.other = @ /\ Other \notin gone]
  IN /\ tab = "home" /\ home.pc = "idle" /\ home.confirm
     /\ files' = IF This \in gone THEN NoFiles ELSE files
     /\ session' = IF This \in gone THEN Off ELSE session
     /\ Notice(page, K, IF This \in gone THEN Every ELSE {})
     /\ IF gone = {} THEN UNCHANGED used ELSE Turn
     /\ UNCHANGED <<tab, click, astray>>

\* A row's STOP, where it has one.
StopRow ==
  /\ tab = "home" /\ home.pc = "idle" /\ This \in Visible
  /\ Buttons(home.row).stop /\ files.there /\ ~files.stop
  /\ files' = [files EXCEPT !.stop = TRUE]
  /\ Changed({}) /\ UNCHANGED <<session, used>>

\* A row opens the run's page, which mounts.
OpenRow ==
  /\ tab = "home" /\ home.pc = "idle" /\ This \in Visible /\ files.there
  /\ tab' = "run" /\ page' = [Building(page, "person") EXCEPT !.polls = TRUE, !.picked = NoStage]
  /\ home' = [home EXCEPT !.rows = {}, !.row = NoRow, !.cached = FALSE, !.old = FALSE, !.since = FALSE,
                !.ticked = {}, !.confirm = FALSE, !.asked = {}, !.status = "all"]
  /\ UNCHANGED <<run, click, astray>>

HomePage ==
  \/ TakeKey \/ ReadRecord \/ ReadRest \/ SelectAll \/ AskToRemove \/ RemoveSelected
  \/ StopRow \/ OpenRow
  \/ \E w \in {"all", "completed"} : Filter(w)
  \/ \E r \in {This, Other} : ToggleSelect(r)

PagesNext == Run \/ RunPage \/ HomePage

PagesSpec == PagesInit /\ [][PagesNext]_pagesVars

------------------------------------------------------------------------------
(* Properties. *)

\* A page at rest with the folder's own hash shows the folder as it is (`S._apply`,
\* model.py `refresh_hash`, `build_view`): all that it may miss is what no hashed file tells,
\* that the runner is gone or late and that a STOP was written, and, when the run changed while
\* the page was being built, the change that the hash taken last had seen already.
PageShowsItsHash ==
  page.pc = "idle" /\ page.loaded /\ ~page.stale /\ ~page.torn =>
    \E live, stop \in BOOLEAN : page.shown = View(Reading(live, stop))

\* A person who picked a stage decides a gate of that stage, or none, whatever the run and others
\* did while the click was on its way (`S.decide`, `S.selected`): where a stage asks more than once
\* it need not be the gate they saw, and the page that follows the run promises nothing.
DecidesInTheStageSeen == \A c \in astray : c.picked => StageOf[c.did] = StageOf[c.saw]

\* A row that will be shown again unread is the run's row now (home.py `row_for`, `_mtimes`):
\* no write slips in between the key and the files it stands for.
KeptRowIsTrue ==
  Kept /\ files.there /\ home.pc = "idle" => \E live \in BOOLEAN : home.row = Row(Reading(live, FALSE))

\* The button that asks before it removes asks about what is ticked: the second click removes
\* nothing the first was not asked for (`H.remove_selected`, `H.toggle_select`, `H.select_all`).
RemovesWhatWasAsked == home.confirm => home.ticked = home.asked
==============================================================================
