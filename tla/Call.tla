---------------------------------- MODULE Call ----------------------------------
(***************************************************************************)
(* A step that asks a model (driver/runner.py `_execute`, `_author`;       *)
(* ask.py; backends/).  The step is issued under a token ceiling, its      *)
(* prompt passes a rail, the model is called, the answer validated; a      *)
(* refused answer is asked for again with its problems, until the same     *)
(* problems come back or the attempts are used up.  A step that halted is  *)
(* issued again when the run is resumed.                                   *)
(*                                                                         *)
(* A call is either a process of a vendor's command line, watched by two   *)
(* threads (streams.py: the reader of its output, and the main thread with *)
(* the clock), or a conversation over an interface in which the model may  *)
(* ask for tools (pydantic_ai.py): each is decided on by the policy (module *)
(* Layers), its arguments pass a rail, and it runs in the sandbox.  What a  *)
(* call uses is one unit of tokens for a process, one for every turn of a   *)
(* conversation, whose bill is the last turn's alone.  Other steps of the   *)
(* role are at work beside this one: they share its ceiling.               *)
(*                                                                         *)
(* A definition marked (mutant) is used by no specification: it is a       *)
(* plausible mistake in the definition below it, which a property must     *)
(* refuse.                                                                 *)
(***************************************************************************)
EXTENDS Naturals, Sequences, FiniteSets, Layers

CONSTANTS Backends,   \* of "claude", "codex", "api": what the role may be played by
          Side,       \* the role's side
          Allowed,    \* the tools the profile allows
          Problems,   \* the sets of problems a refused answer can have
          ReAskMax,   \* attempts per step
          Ceiling,    \* the role's token budget
          Parallel,   \* steps at work at a time
          Scoped,     \* the step's program gives its processes a folder to stay in
          MaxTurns,   \* turns of a conversation with tools
          MaxLines,   \* bound: lines a process writes
          MaxIssues,  \* bound: how often the step is issued
          Good,       \* an answer without problems
          Garbage,    \* a file that is no answer
          None

Answers == Problems \union {Good}

ASSUME CallAssumption ==
  /\ Backends \subseteq {"claude", "codex", "api"}
  /\ Scoped \in BOOLEAN
  /\ {ReAskMax, Ceiling, Parallel, MaxTurns, MaxLines, MaxIssues} \subseteq Nat \ {0}
  /\ Side \in Ids /\ Allowed \subseteq Things
  /\ Good \notin Problems /\ {Garbage, None} \intersect Answers = {}
  /\ None \notin {"scope", "stall"}

\* A line of a process that carries a fact, and the one that ends its talk.
LastWords == {"success", "gave_up", "error"}
AnyLine == [says : {"work", "outside", "answer"} \union LastWords, answer : Answers \union {None}]

ASSUME LineAssumption == None \notin AnyLine

VARIABLES
  backend,  \* who plays the role
  pc,       \* where the main thread stands
  issues,   \* (bound) how often the step was issued
  attempt, seen,   \* of the re-ask loop: the attempt, the sets of problems so far
  asked,    \* (history) the problems each re-ask carried
  proc,     \* the process: whether it runs, whether it ignores SIGTERM, what it may still write
  pipe,     \* the lines written and not read
  reader,   \* the reader thread
  heard,    \* what the reader kept: the last line, the answers it saw
  out,      \* codex's output file
  quiet,    \* no fact for `stall_seconds`
  stopped,  \* why the process was killed
  strayed,  \* (history) a write outside the folder was read in this call
  engine,   \* the policy engine the profile names
  declared, \* the tools the step declares
  turns,    \* of the conversation
  wanted,   \* the tool the model asks for
  ran,      \* (history) the tools that ran
  result,   \* what `complete` returned
  counted,  \* the tokens of the role's `call.usage` events
  unbilled, \* (history) what this call used and no such event says
  behind,   \* (history) this call's reader was left behind after two seconds
  beside,   \* the role's other steps at work
  owing     \* the bills they may still send

loopVars == <<issues, attempt, seen, asked>>
procVars == <<proc, pipe, reader, heard, out, quiet, stopped, strayed>>
tokenVars == <<counted, unbilled, behind>>
toolVars == <<engine, declared, wanted, ran>>
apart == <<backend, beside, owing>>
vars == <<apart, pc, loopVars, procVars, turns, toolVars, result, tokenVars>>

Off == [up |-> FALSE, deaf |-> FALSE, left |-> 0]
Nothing == [last |-> None, answer |-> None]

Init ==
  /\ backend \in Backends
  /\ pc = "issue" /\ issues = 1 /\ attempt = 0 /\ seen = {} /\ asked = <<>>
  /\ proc = Off /\ pipe = <<>> /\ reader = "off" /\ heard = Nothing /\ out = None
  /\ quiet = FALSE /\ stopped = None /\ strayed = FALSE
  /\ turns = 0 /\ result = None
  /\ engine \in {"cedar", "step"} /\ wanted = None /\ ran = {}
  /\ declared \in IF backend = "api" THEN SUBSET Things ELSE {{}}
  /\ counted = 0 /\ unbilled = 0 /\ behind = FALSE
  /\ beside = 0 /\ owing = 0

------------------------------------------------------------------------------
(* The step. *)

\* (mutant) The ceiling is looked at once, when the run starts.
IssueOnce ==
  /\ pc = "issue"
  /\ pc' = "prompt"
  /\ UNCHANGED <<apart, loopVars, procVars, turns, toolVars, result, tokenVars>>

\* The role's side asks to act on a thing.
Asked(action, t) ==
  [action |-> action, kind |-> "side", id |-> Side, thing |-> t, list |-> declared,
   author |-> NoId, flag |-> FALSE]

\* The budget is read off the record before the step is issued, not between its attempts; then
\* the profile's closed list of tools, then the policy.
Issue ==
  /\ pc = "issue"
  /\ pc' = IF counted >= Ceiling THEN "over"
           ELSE IF \/ ~(declared \subseteq Allowed)
                   \/ \E t \in Things : ~Decides(engine, Asked("author", t)) THEN "denied"
           ELSE "prompt"
  /\ UNCHANGED <<apart, loopVars, procVars, turns, toolVars, result, tokenVars>>

\* The rail before the prompt; what it refuses is never sent.
BeforePrompt ==
  /\ pc = "prompt"
  /\ pc' \in {"ask", "halted"}
  /\ UNCHANGED <<apart, loopVars, procVars, turns, toolVars, result, tokenVars>>

\* An attempt: a process with its reader, or the first turn of a conversation.
Start ==
  /\ pc = "ask"
  /\ attempt' = attempt + 1
  /\ IF backend = "api"
     THEN pc' = "turn" /\ UNCHANGED <<proc, reader, unbilled>>
     ELSE /\ pc' = "watch" /\ reader' = "reading" /\ unbilled' = 1
          /\ \E d \in BOOLEAN : proc' = [up |-> TRUE, deaf |-> d, left |-> MaxLines]
  /\ UNCHANGED <<apart, issues, seen, asked, pipe, heard, out, quiet, stopped, strayed, turns, toolVars,
                 result, counted, behind>>

------------------------------------------------------------------------------
(* The process. *)

Line(says, a) == [says |-> says, answer |-> a]

\* Claude gives answers its own harness may reject, and ends with a result that carries the bill;
\* codex sends its bill when the turn is over.
Lines ==
  {Line("work", None), Line("outside", None)} \union
    IF backend = "claude"
    THEN {Line("answer", a) : a \in Answers}
           \union {Line("success", a) : a \in Answers \union {None}} \union {Line("gave_up", None), Line("error", None)}
    ELSE {Line("success", None), Line("error", None)}

HasBill(l) == l.says \in IF backend = "claude" THEN LastWords ELSE {"success"}

Speak ==
  /\ proc.up /\ proc.left > 0
  /\ \E l \in Lines :
       /\ pipe' = Append(pipe, l)
       /\ proc' = [proc EXCEPT !.left = IF l.says \in LastWords THEN 0 ELSE @ - 1]
       /\ out' \in IF backend = "codex" /\ l.says = "success" THEN Answers \union {None, Garbage} ELSE {out}
  /\ UNCHANGED <<apart, pc, loopVars, reader, heard, quiet, stopped, strayed, turns, toolVars, result, tokenVars>>

Exit ==
  /\ proc.up
  /\ proc' = Off
  /\ UNCHANGED <<apart, pc, loopVars, pipe, reader, heard, out, quiet, stopped, strayed, turns, toolVars, result, tokenVars>>

\* A kill is a SIGTERM to its group.
Terminated == IF proc.deaf THEN proc ELSE Off

------------------------------------------------------------------------------
(* The reader. *)

\* Every line is a sign of life; the facts are kept and the bill is recorded as an event.  A
\* write outside the folder the process was given kills it, and nothing more is read.
Read ==
  /\ reader = "reading" /\ pipe # <<>>
  /\ LET l == Head(pipe)
     IN /\ pipe' = Tail(pipe) /\ quiet' = FALSE
        /\ heard' = [last |-> l, answer |-> IF l.says = "answer" THEN l.answer ELSE heard.answer]
        /\ IF HasBill(l) THEN counted' = counted + 1 /\ unbilled' = unbilled - 1
           ELSE UNCHANGED <<counted, unbilled>>
        /\ IF l.says = "outside" /\ Scoped
           THEN /\ stopped' = "scope" /\ strayed' = TRUE /\ reader' = "over" /\ proc' = Terminated
           ELSE UNCHANGED <<stopped, strayed, reader, proc>>
  /\ UNCHANGED <<apart, pc, loopVars, out, turns, toolVars, result, behind>>

ReadEnd ==
  /\ reader = "reading" /\ pipe = <<>> /\ ~proc.up
  /\ reader' = "over"
  /\ UNCHANGED <<apart, pc, loopVars, proc, pipe, heard, out, quiet, stopped, strayed, turns, toolVars, result, tokenVars>>

\* Time passes without a fact being read.
Quiet ==
  /\ pc = "watch" /\ proc.up /\ ~quiet
  /\ quiet' = TRUE
  /\ UNCHANGED <<apart, pc, loopVars, proc, pipe, reader, heard, out, stopped, strayed, turns, toolVars, result, tokenVars>>

------------------------------------------------------------------------------
(* The main thread, over the process. *)

SeeExit ==
  /\ pc = "watch" /\ ~proc.up
  /\ pc' = "join"
  /\ UNCHANGED <<apart, loopVars, procVars, turns, toolVars, result, tokenVars>>

Stall ==
  /\ pc = "watch" /\ proc.up /\ quiet
  /\ stopped' = "stall" /\ proc' = Terminated /\ pc' = "reap"
  /\ UNCHANGED <<apart, loopVars, pipe, reader, heard, out, quiet, strayed, turns, toolVars, result, tokenVars>>

\* (mutant) The main thread waits for the process as long as it takes.
ReapPatiently ==
  /\ pc = "reap" /\ ~proc.up
  /\ pc' = "join"
  /\ UNCHANGED <<apart, loopVars, procVars, turns, toolVars, result, tokenVars>>

\* What is still there after five seconds is killed for good.
Reap ==
  /\ pc = "reap"
  /\ proc' = Off /\ pc' = "join"
  /\ UNCHANGED <<apart, loopVars, pipe, reader, heard, out, quiet, stopped, strayed, turns, toolVars, result, tokenVars>>

Failed(why) == [status |-> why, answer |-> None]
Final(a) == [status |-> "final", answer |-> a]

\* (mutant) An answer is an answer, whatever happened after it.
VerdictAnswerFirst ==
  IF heard.answer # None THEN Final(heard.answer)
  ELSE IF stopped # None THEN Failed(stopped) ELSE Failed("no_output")

\* `complete`: a kill comes first; then the answer claude's harness dropped when it gave up, its
\* error, its answer; for codex the file, if it is one that can be read.
Verdict ==
  LET l == heard.last
      says == IF l = None THEN "nothing" ELSE l.says
  IN IF stopped # None THEN Failed(stopped)
     ELSE CASE backend = "claude" /\ says = "gave_up" /\ heard.answer # None -> Final(heard.answer)
            [] backend = "claude" /\ says = "gave_up" /\ heard.answer = None -> Failed("error")
            [] backend = "claude" /\ says = "error" -> Failed("error")
            [] backend = "claude" /\ says = "success" /\ l.answer # None -> Final(l.answer)
            [] backend = "codex" /\ out \notin {None, Garbage} -> Final(out)
            [] OTHER -> Failed("no_output")

Return(r) == result' = r /\ pc' = "answered"

\* (mutant) Once the process is gone its output is taken as it is.
JoinNot ==
  /\ pc = "join"
  /\ UNCHANGED <<apart, loopVars, proc, heard, out, quiet, stopped, strayed, turns, toolVars, counted, unbilled>>
  /\ Return(Verdict) /\ reader' = "over" /\ pipe' = <<>> /\ UNCHANGED behind

\* The reader is given two seconds to end; one that is left behind reads no more, its copy of
\* the stream is closed.
Join ==
  /\ pc = "join"
  /\ behind' = (behind \/ reader # "over")
  /\ UNCHANGED <<apart, loopVars, proc, heard, out, quiet, stopped, strayed, turns, toolVars, counted, unbilled>>
  /\ Return(Verdict) /\ reader' = "over" /\ pipe' = <<>>

------------------------------------------------------------------------------
(* The conversation. *)

\* A turn: the model answers, asks for a tool, or the library raises, which it also does for a
\* tool the step never declared.  A bill is written when the conversation ends with an answer or at
\* its limit, and it is the last turn's: the ones before it are on no record.
Answer ==
  /\ pc = "turn"
  /\ turns' = turns + 1 /\ counted' = counted + 1
  /\ \E a \in Answers : Return(Final(a))
  /\ UNCHANGED <<apart, loopVars, procVars, toolVars, unbilled, behind>>

AskForTool ==
  /\ pc = "turn" /\ declared # {}
  /\ turns' = turns + 1
  /\ IF turns' >= MaxTurns
     THEN /\ counted' = counted + 1 /\ UNCHANGED <<wanted, unbilled>>
          /\ Return(Failed("budget"))
     ELSE /\ \E t \in declared : wanted' = t
          /\ pc' = "tool" /\ unbilled' = unbilled + 1 /\ UNCHANGED <<counted, result>>
  /\ UNCHANGED <<apart, loopVars, procVars, engine, declared, ran, behind>>

Raise ==
  /\ pc = "turn"
  /\ unbilled' \in {unbilled, unbilled + 1}
  /\ UNCHANGED <<apart, loopVars, procVars, turns, toolVars, counted, behind>>
  /\ Return(Failed("error"))

\* A tool call the policy denies, the rail refuses or the sandbox cannot run is, like the
\* tool's output, the model's next input.
Decide ==
  /\ pc = "tool"
  /\ pc' = IF Decides(engine, Asked("tool", wanted)) THEN "rail" ELSE "turn"
  /\ UNCHANGED <<apart, loopVars, procVars, turns, toolVars, result, tokenVars>>

BeforeToolCall ==
  /\ pc = "rail"
  /\ pc' \in {"sandbox", "turn"}
  /\ UNCHANGED <<apart, loopVars, procVars, turns, toolVars, result, tokenVars>>

\* The tool runs up to its time limit.
Run ==
  /\ pc = "sandbox"
  /\ ran' = ran \union {wanted} /\ pc' = "turn"
  /\ UNCHANGED <<apart, loopVars, procVars, turns, engine, declared, wanted, result, tokenVars>>

------------------------------------------------------------------------------
(* The re-ask loop. *)

\* What the call kept goes with it.
CallIsOver ==
  /\ result' = None /\ proc' = Off /\ pipe' = <<>> /\ reader' = "off" /\ heard' = Nothing /\ out' = None
  /\ quiet' = FALSE /\ stopped' = None /\ strayed' = FALSE
  /\ turns' = 0 /\ unbilled' = 0 /\ behind' = FALSE

\* (mutant) Only the problems of the answer before count.
JudgeLast ==
  /\ pc = "answered"
  /\ CallIsOver
  /\ IF result.status # "final" THEN pc' = "halted" /\ UNCHANGED <<seen, asked>>
     ELSE IF result.answer = Good THEN pc' = "done" /\ UNCHANGED <<seen, asked>>
     ELSE /\ seen' = {result.answer}
          /\ IF result.answer \in seen \/ attempt = ReAskMax THEN pc' = "halted" /\ UNCHANGED asked
             ELSE pc' = "ask" /\ asked' = Append(asked, result.answer)
  /\ UNCHANGED <<apart, issues, attempt, toolVars, counted>>

\* One validator, then the rail and the checks: an answer without problems lands; one with the
\* problems of an earlier one, or the last one allowed, halts the step; else it is asked again.
Judge ==
  /\ pc = "answered"
  /\ CallIsOver
  /\ IF result.status # "final" THEN pc' = "halted" /\ UNCHANGED <<seen, asked>>
     ELSE IF result.answer = Good THEN pc' = "done" /\ UNCHANGED <<seen, asked>>
     ELSE /\ seen' = seen \union {result.answer}
          /\ IF result.answer \in seen \/ attempt = ReAskMax THEN pc' = "halted" /\ UNCHANGED asked
             ELSE pc' = "ask" /\ asked' = Append(asked, result.answer)
  /\ UNCHANGED <<apart, issues, attempt, toolVars, counted>>

\* The round is over and a person resumes the run: the step is issued again, from the first attempt.
Again ==
  /\ pc \in {"halted", "over"} /\ issues < MaxIssues /\ beside = 0
  /\ issues' = issues + 1 /\ attempt' = 0 /\ seen' = {} /\ asked' = <<>>
  /\ pc' = "issue"
  /\ UNCHANGED <<apart, procVars, turns, toolVars, result, tokenVars>>

------------------------------------------------------------------------------
(* The role's other steps, in the same pool. *)

own == <<backend, pc, loopVars, procVars, turns, toolVars, result, unbilled, behind>>

\* Each looks at the ceiling for itself, and finds there what was billed by then.
IssueBeside ==
  /\ counted < Ceiling /\ beside < Parallel - 1
  /\ beside' = beside + 1 /\ owing' = owing + ReAskMax
  /\ UNCHANGED <<own, counted>>

\* An attempt of one of them is billed.
BillBeside ==
  /\ owing > 0
  /\ owing' = owing - 1 /\ counted' = counted + 1
  /\ UNCHANGED <<own, beside>>

\* One of them ends, after as many attempts as it took.
EndBeside ==
  /\ beside > 0
  /\ beside' = beside - 1
  /\ owing' \in 0..owing /\ owing' <= beside' * ReAskMax
  /\ UNCHANGED <<own, counted>>

Main == \/ Issue \/ BeforePrompt \/ Start \/ SeeExit \/ Stall \/ Reap \/ Join
        \/ Answer \/ AskForTool \/ Raise \/ Decide \/ BeforeToolCall \/ Run \/ Judge

Beside == IssueBeside \/ BillBeside \/ EndBeside

Next == Main \/ Speak \/ Exit \/ Read \/ ReadEnd \/ Quiet \/ Again \/ Beside

Spec == Init /\ [][Next]_vars

\* The main thread runs, time passes, and a request over the interface has a time limit.
\* Nothing is assumed of the vendor's process, of the thread that reads it, nor of the steps beside.
FairSpec == Spec /\ WF_vars(Main) /\ WF_vars(Quiet)

------------------------------------------------------------------------------
(* Properties. *)

\* A re-ask brings the model a set of problems it was never asked to mend before in this step
\* (ask.py: the same problems come back, and the loop stops).
ReAskIsProgress ==
  /\ Len(asked) < ReAskMax
  /\ \A i, j \in DOMAIN asked : asked[i] = asked[j] => i = j

\* A call that wrote outside its folder is never the source of an answer, in whatever order the
\* write, the answer and the end of the process were seen (backends/streams.py, cli.py `complete`).
StrayIsNoAnswer == pc = "answered" /\ strayed /\ backend # "api" => result.status # "final"

\* An answer is on the record with what its last turn cost: only calls that failed, and the tool
\* turns of a conversation before its last, are missing from the bill, unless the reader was given
\* up on (backends/streams.py join; ask.py `on_fact`; pydantic_ai.py `complete`, `_usage`).
AnswersAreBilled ==
  pc = "answered" /\ result.status = "final" /\ ~behind =>
    unbilled = IF backend = "api" THEN turns - 1 ELSE 0

\* A role goes over its ceiling on the record by what a pool of steps may ask, whatever is resumed
\* how often: past the ceiling no step begins, but each step of the pool looks at it before the
\* others are billed (driver/runner.py `_execute`, `_spent`, `_execute_ready`).
CeilingIsKept == counted < Ceiling + Parallel * ReAskMax

\* A tool ran only if the step declared it and the profile allows it (driver/runner.py:
\* `_execute`, `_tool_defs`).
ToolsAreAllowed == ran \subseteq declared \intersect Allowed

\* The two together: nothing a call does beyond its rights counts for the run.
CallIsConfined == StrayIsNoAnswer /\ ToolsAreAllowed

\* Every call ends, whatever the process does: silent, deaf to SIGTERM, its output held open
\* (backends/streams.py: the stall clock, SIGKILL, the bounded join).
CallEnds == (pc = "ask") ~> (pc \in {"halted", "done"})

==============================================================================
