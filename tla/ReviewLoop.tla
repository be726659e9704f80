------------------------------ MODULE ReviewLoop ------------------------------
(***************************************************************************)
(* The review loop (review/rounds.py, spec/findings.py).  A reviewer files *)
(* findings on the current version of an artifact; its author decides each *)
(* by id and emits the whole artifact again, which the store keeps as the  *)
(* next version.  Rounds 1..Cap are answered; round Cap+1 is the closing   *)
(* read, whose findings are carried into the report.  Which step comes     *)
(* next is read from the files of the rounds, never remembered: the        *)
(* process may die between any two of them, and a step that was not marked *)
(* done is asked again.                                                    *)
(*                                                                         *)
(* A point is what the code takes for the same finding filed again: equal  *)
(* cites, equal severity.  What a version says is known by the answers     *)
(* whose changes it holds: the author emits the version it was handed      *)
(* again, with its changes.                                                *)
(*                                                                         *)
(* A definition marked (mutant) is used by no specification: it is a       *)
(* plausible mistake in the definition below it, which a property must     *)
(* refuse.                                                                 *)
(***************************************************************************)
EXTENDS Integers, Sequences, FiniteSets, FiniteSetsExt

CONSTANTS Points,      \* what a finding can be about
          Blocking,    \* the points of blocking severity
          Cap,         \* the answered rounds
          None,        \* a file that does not exist
          Filings,     \* bound: the points a reviewer may file in one answer, in order
          MaxFaults    \* bound: deaths of the process and undone steps together

ASSUME CapAssumption == Cap \in Nat \ {0}
ASSUME PointsAssumption == Blocking \subseteq Points
ASSUME BoundsAssumption == Filings \subseteq Seq(Points) /\ MaxFaults \in Nat

VARIABLES
  filed,       \* round -> what its findings file holds
  arbitrated,  \* round -> what its arbitration file holds
  versions,    \* the versions in the store: their number and the answers whose changes they hold
  done,        \* the steps marked done
  step,        \* the step that is at work
  pc,          \* where it stands
  answers,     \* the answers the author gave so far
  read,        \* (history) round -> the version its reviewer was handed
  decider,     \* (history) round -> the answer that decided its findings
  lost,        \* (history) rounds whose decisions outlived the version they came with
  undone,      \* (history) the steps that were undone
  faults       \* (bound) deaths and undone steps

vars == <<filed, arbitrated, versions, done, step, pc, answers, read, decider, lost, undone, faults>>
faultVars == <<undone, faults>>

Rounds == 1..(Cap + 1)
Steps == {"review", "arbitrate"} \X Rounds
Closing(n) == n = Cap + 1
Missing(n) == filed[n] = None

Init ==
  /\ filed = [n \in Rounds |-> None] /\ arbitrated = [n \in Rounds |-> None]
  /\ versions = {[number |-> 1, holds |-> {}]}
  /\ done = {} /\ step = <<"review", 1>> /\ pc = "idle"
  /\ answers = 0
  /\ read = [n \in Rounds |-> 0] /\ decider = [n \in Rounds |-> 0] /\ lost = {}
  /\ undone = {} /\ faults = 0

------------------------------------------------------------------------------
(* What the code computes from the files. *)

Latest == Max({v.number : v \in versions} \union {0})

\* `rounds_filed`: the rounds before the first one with no file.
RoundsFiled == {n \in Rounds : \A k \in 1..n : ~Missing(k)}

Finding == [id : Nat \ {0}, point : Points, status : {"open", "accepted", "rejected", "escalated", "carried"}]
ASSUME NoneAssumption == None \notin Seq(Finding) /\ None \notin Nat

FindingsOf(n) == IF Missing(n) THEN {} ELSE {filed[n][i] : i \in DOMAIN filed[n]}
AllFindings == UNION {FindingsOf(n) : n \in RoundsFiled}

\* Every loop's files, so that an id is never given twice.
AllRunFindings == UNION {FindingsOf(n) : n \in Rounds}

Converged == \E n \in RoundsFiled : filed[n] = <<>>
IsDone == Converged \/ Cap + 1 \in RoundsFiled

\* `Verdict.of`: where graded findings send the artifact.
Verdict ==
  LET unsettled == {f \in AllFindings : f.status \in {"open", "carried", "escalated"}}
      closed == Cap + 1 \in RoundsFiled
  IN CASE unsettled = {} -> "pass"
       [] \/ \E f \in unsettled : f.status = "escalated"
          \/ closed /\ \E f \in unsettled : f.point \in Blocking -> "escalate"
       [] OTHER -> IF closed THEN "carry" ELSE "revise"

\* A round is reached when every earlier one is filed, not empty, and arbitrated.
Reached(n) ==
  \A k \in 1..(n - 1) : ~Missing(k) /\ filed[k] # <<>> /\ arbitrated[k] # None

\* (mutant) A round in which nothing is open is not arbitrated.
ListedIfOpen ==
  {<<"review", n>> : n \in {k \in Rounds : Reached(k)}}
    \union {<<"arbitrate", n>> :
              n \in {k \in 1..Cap : Reached(k) /\ \E f \in FindingsOf(k) : f.status = "open"}}

\* `steps`: every step of the loop the files call for, done or pending.
Listed ==
  {<<"review", n>> : n \in {k \in Rounds : Reached(k)}}
    \union {<<"arbitrate", n>> : n \in {k \in 1..Cap : Reached(k) /\ ~Missing(k) /\ filed[k] # <<>>}}

\* (mutant) A review waits for the review before it.
AfterReview(s) == IF s[1] = "review" /\ s[2] = 1 THEN {}
                  ELSE {<<"review", IF s[1] = "arbitrate" THEN s[2] ELSE s[2] - 1>>}

\* `after`: what a step waits for.
After(s) == IF s[1] = "arbitrate" THEN {<<"review", s[2]>>}
            ELSE IF s[2] = 1 THEN {} ELSE {<<"arbitrate", s[2] - 1>>}

Ready(s) == s \in Listed \ done /\ After(s) \subseteq done

------------------------------------------------------------------------------
(* The review step. *)

Rejections(p) == Cardinality({f \in AllFindings : f.point = p /\ f.status = "rejected"})

\* (mutant) A point goes to the author a third time.
StatusLate(n, p) == IF Closing(n) THEN "carried" ELSE IF Rejections(p) > 2 THEN "escalated" ELSE "open"

\* Two rejections of the same point are enough: a person must weigh it.
StatusOf(n, p) ==
  IF Closing(n) THEN "carried" ELSE IF Rejections(p) >= 2 THEN "escalated" ELSE "open"

\* `next_id`: the largest id taken plus one.
FirstId == 1 + Max({f.id : f \in AllRunFindings} \union {0})

\* The reviewer reads the packet and answers; the findings get their ids and their status and
\* are written as one file.
File(n, points) ==
  /\ pc = "idle" /\ Ready(<<"review", n>>)
  /\ filed' = [filed EXCEPT ![n] = [i \in DOMAIN points |->
       [id |-> FirstId + i - 1, point |-> points[i], status |-> StatusOf(n, points[i])]]]
  /\ read' = [read EXCEPT ![n] = Latest]
  /\ step' = <<"review", n>> /\ pc' = "landed"
  /\ UNCHANGED <<arbitrated, versions, done, answers, decider, lost, faultVars>>

------------------------------------------------------------------------------
(* The arbitration step: three files, one after the other. *)

OpenIn(n) == {f.id : f \in {g \in FindingsOf(n) : g.status = "open"}}

Settle(f, decisions) ==
  IF f.id \in DOMAIN decisions /\ f.status = "open" THEN [f EXCEPT !.status = decisions[f.id]] ELSE f

\* The author decides exactly the findings it was handed, the open ones; they are written first.
Decide(n, decisions) ==
  /\ pc = "idle" /\ Ready(<<"arbitrate", n>>)
  /\ filed' = [filed EXCEPT ![n] = [i \in DOMAIN @ |-> Settle(@[i], decisions)]]
  /\ answers' = answers + 1
  /\ IF DOMAIN decisions = {} THEN UNCHANGED <<decider, lost>>
     ELSE decider' = [decider EXCEPT ![n] = answers'] /\ lost' = lost \ {n}
  /\ step' = <<"arbitrate", n>> /\ pc' = "store"
  /\ UNCHANGED <<arbitrated, versions, done, read, faultVars>>

\* The answers whose changes the latest version holds.
Held == UNION {v.holds : v \in {w \in versions : w.number = Latest}}

\* (mutant) The store is handed the version the author started from.
StoreOld ==
  /\ pc = "store"
  /\ versions' = versions \union {[number |-> Latest + 1, holds |-> Held]}
  /\ pc' = "record"
  /\ UNCHANGED <<filed, arbitrated, done, step, answers, read, decider, lost, faultVars>>

\* `Store.write`: the next version, whatever the last one is.
StoreVersion ==
  /\ pc = "store"
  /\ versions' = versions \union {[number |-> Latest + 1, holds |-> Held \union {answers}]}
  /\ pc' = "record"
  /\ UNCHANGED <<filed, arbitrated, done, step, answers, read, decider, lost, faultVars>>

Record ==
  /\ pc = "record"
  /\ arbitrated' = [arbitrated EXCEPT ![step[2]] = Latest]
  /\ pc' = "landed"
  /\ UNCHANGED <<filed, versions, done, step, answers, read, decider, lost, faultVars>>

MarkDone ==
  /\ pc = "landed"
  /\ done' = done \union {step}
  /\ pc' = "idle"
  /\ UNCHANGED <<filed, arbitrated, versions, step, answers, read, decider, lost, faultVars>>

------------------------------------------------------------------------------
(* Faults and people. *)

\* A death between the findings and the version leaves the decisions and takes their artifact.
Die ==
  /\ pc # "idle" /\ faults < MaxFaults
  /\ faults' = faults + 1 /\ pc' = "idle"
  /\ lost' = IF pc = "store" /\ decider[step[2]] = answers THEN lost \union {step[2]} ELSE lost
  /\ UNCHANGED <<filed, arbitrated, versions, done, step, answers, read, decider, undone>>

\* `Driver.undo`: the record of the step goes and its deliverables move aside; an arbitration
\* has delivered its file and the version it stored, and its decisions stay.
Undo(s) ==
  /\ pc = "idle" /\ s \in done /\ faults < MaxFaults
  /\ faults' = faults + 1 /\ undone' = undone \union {s} /\ done' = done \ {s}
  /\ IF s[1] = "review"
       THEN filed' = [filed EXCEPT ![s[2]] = None] /\ UNCHANGED <<arbitrated, versions, lost>>
       ELSE /\ arbitrated' = [arbitrated EXCEPT ![s[2]] = None]
            /\ versions' = {v \in versions : v.number # arbitrated[s[2]]}
            /\ lost' = lost \union {s[2]}
            /\ UNCHANGED filed
  /\ UNCHANGED <<step, pc, answers, read, decider>>

Loop == \/ \E n \in Rounds : \E points \in Filings : File(n, points)
        \/ \E n \in 1..Cap : \E d \in [OpenIn(n) -> {"accepted", "rejected"}] : Decide(n, d)
        \/ StoreVersion \/ Record \/ MarkDone

Next == Loop \/ Die \/ \E s \in Steps : Undo(s)

Spec == Init /\ [][Next]_vars

\* A run that stopped is resumed, and a live process goes on.
FairSpec == Spec /\ WF_vars(Loop)

------------------------------------------------------------------------------
(* Properties. *)

\* The loop is over: its files say so and no step of it is pending.
Over == pc = "idle" /\ IsDone /\ Listed \subseteq done

\* A point the author rejected twice is not put to the author again: from then on it is
\* escalated or carried, also when rounds were landed twice or arbitrations undone.  Only a
\* review that was undone brings new findings, to be rejected, before a round already filed
\* (review/rounds.py `_land_findings`).
NoThirdExchange ==
  \A n \in Rounds : (\A k \in 1..(n - 1) : <<"review", k>> \notin undone) =>
    \A f \in FindingsOf(n) : f.status \in {"open", "accepted", "rejected"} =>
      Cardinality({g \in UNION {FindingsOf(k) : k \in 1..(n - 1)} :
                     g.point = f.point /\ g.status = "rejected"}) < 2

\* When the loop is over nothing waits for the author any more: every finding was decided,
\* escalated or carried, so the verdict cannot ask for another revision.  Only a review that was
\* undone can leave findings nobody decides, for the later files still count
\* (review/rounds.py `steps`, `is_done`; spec/findings.py `Verdict.of`).
SettledAtEnd ==
  Over /\ (\A n \in Rounds : <<"review", n>> \notin undone) =>
    Verdict # "revise" /\ \A f \in AllRunFindings : f.status # "open"

\* The round that ended the loop: the first one with no finding, or the closing read.
LastRound == CHOOSE n \in RoundsFiled :
  /\ filed[n] = <<>> \/ Closing(n)
  /\ \A k \in 1..(n - 1) : filed[k] # <<>>

\* The last revision is never unreviewed: the review that ended the loop read the version that
\* every later step will use (review/rounds.py `review_round_open`, `packet`).
NeverUnreviewed == Over => read[LastRound] = Latest

\* The same where no arbitration was undone, through deaths and undone reviews.
LastRevisionReviewed ==
  (\A n \in Rounds : <<"arbitrate", n>> \notin undone) => NeverUnreviewed

\* The two together: the loop ends with nothing open and nothing unread.
EndsReviewed == SettledAtEnd /\ LastRevisionReviewed

\* The version a finished arbitration names holds the changes the author accepted in that round,
\* also when the process died after the version or after the arbitration's file and the author was
\* asked again.  They are missing only where the artifact was lost under its decisions, by a death
\* between the findings and the version or by an undo.  After a death that is never past a reader:
\* each later round's reviewer has read the version the arbitration names, or a newer one, beside
\* the findings it is said to settle (review/rounds.py `_land_arbitration`, `packet`).
AcceptedIsStored ==
  \A n \in Rounds : <<"arbitrate", n>> \in done /\ (\E f \in FindingsOf(n) : f.status = "accepted") =>
    /\ n \in lost \/ \E v \in versions : v.number = arbitrated[n] /\ decider[n] \in v.holds
    /\ <<"arbitrate", n>> \notin undone =>
         \A k \in Rounds : n < k /\ ~Missing(k) => arbitrated[n] <= read[k]

\* The loop comes to its end, however often the process dies (review/rounds.py `steps`,
\* driver/runner.py `drive`).
LoopEnds == <>Over
==============================================================================
