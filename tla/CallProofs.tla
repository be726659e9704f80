------------------------------ MODULE CallProofs ------------------------------
(***************************************************************************)
(* What holds of a step that asks a model, for any number of attempts,     *)
(* turns, lines and tools, any ceiling and any sets of problems.           *)
(***************************************************************************)
EXTENDS Call, Integers, TLAPS

USE CallAssumption, LineAssumption

Places == {"issue", "over", "denied", "prompt", "ask", "halted", "done", "answered",
           "watch", "reap", "join", "turn", "tool", "rail", "sandbox"}

\* The main thread is with a process, or in a conversation.
InProcess == pc \in {"watch", "reap", "join"}
InTurns == pc \in {"turn", "tool", "rail", "sandbox"}
AtRest == pc \in {"issue", "over", "denied", "prompt", "ask", "halted", "done"}

Returned ==
  [status : {"final"}, answer : Answers]
    \union [status : {"scope", "stall", "error", "no_output", "budget"}, answer : {None}]

Process == [up : BOOLEAN, deaf : BOOLEAN, left : Nat]
Heard == [last : AnyLine \union {None}, answer : Answers \union {None}]

TypeOK ==
  /\ backend \in Backends /\ pc \in Places
  /\ issues \in Nat /\ attempt \in 0..ReAskMax /\ seen \subseteq Problems /\ asked \in Seq(Problems)
  /\ proc \in Process /\ pipe \in Seq(AnyLine)
  /\ reader \in {"off", "reading", "over"}
  /\ heard \in Heard
  /\ out \in Answers \union {None, Garbage} /\ quiet \in BOOLEAN
  /\ stopped \in {None, "scope", "stall"} /\ strayed \in BOOLEAN
  /\ engine \in {"cedar", "step"} /\ declared \subseteq Things /\ ran \subseteq Things
  /\ turns \in Nat /\ wanted \in Things \union {None}
  /\ pc = "answered" => result \in Returned
  /\ counted \in Nat /\ unbilled \in Int /\ behind \in BOOLEAN
  /\ beside \in Nat /\ owing \in Nat

\* Where attempts stand: none before the first is asked, one more than there are re-asks while
\* one is under way, and one left when it is to be asked again.
Attempts ==
  /\ pc \in {"issue", "prompt"} => attempt = 0 /\ asked = <<>>
  /\ pc = "ask" => Len(asked) <= attempt /\ attempt < ReAskMax
  /\ InProcess \/ InTurns \/ pc = "answered" => Len(asked) < attempt

\* No reader and no process outlive the main thread's wait for them, and a conversation has none.
Alone ==
  /\ ~InProcess => reader # "reading" /\ ~proc.up
  /\ AtRest => /\ proc = Off /\ pipe = <<>> /\ heard = Nothing /\ out = None
               /\ stopped = None /\ ~strayed /\ turns = 0 /\ unbilled = 0 /\ ~behind
  /\ InProcess => reader # "off" /\ backend # "api"
  /\ InTurns => backend = "api"
  /\ pc \in {"tool", "rail", "sandbox"} => wanted \in declared
  /\ pc = "join" => ~proc.up
  /\ InProcess /\ reader = "over" /\ stopped = None => pipe = <<>> /\ ~proc.up

TypeInv == TypeOK /\ Attempts /\ Alone

LEMMA Settings ==
  /\ ReAskMax \in Nat \ {0} /\ Ceiling \in Nat \ {0} /\ MaxTurns \in Nat \ {0}
  /\ MaxLines \in Nat \ {0} /\ MaxIssues \in Nat \ {0} /\ Parallel \in Nat \ {0}
  OBVIOUS

LEMMA AtFirst == Off \in Process /\ ~Off.up /\ Nothing \in Heard
  BY DEF Off, Process, Nothing, Heard

LEMMA NoneYet == <<>> \in Seq(AnyLine) /\ <<>> \in Seq(Problems)
  OBVIOUS

LEMMA OneMore ==
  ASSUME NEW S, NEW s \in Seq(S), NEW e \in S
  PROVE  Append(s, e) \in Seq(S) /\ Len(Append(s, e)) = Len(s) + 1
  OBVIOUS

LEMMA OneLess ==
  ASSUME NEW p \in Process, NEW l, p.left - 1 \in Nat
  PROVE  [p EXCEPT !.left = IF l.says \in LastWords THEN 0 ELSE p.left - 1] \in Process
  BY DEF Process

\* The process says a line.
Speaks(l) ==
  /\ pipe' = Append(pipe, l)
  /\ proc' = [proc EXCEPT !.left = IF l.says \in LastWords THEN 0 ELSE proc.left - 1]
  /\ out' \in IF backend = "codex" /\ l.says = "success" THEN Answers \union {None, Garbage} ELSE {out}

LEMMA LineIsALine == \A l \in Lines : l \in AnyLine
  BY DEF Lines, Line, AnyLine, LastWords

\* The steps beside change nothing of this one.
LEMMA BesideIsApart ==
  ASSUME Beside
  PROVE  UNCHANGED <<backend, pc, loopVars, procVars, turns, toolVars, result, unbilled, behind>>
  BY DEF Beside, IssueBeside, BillBeside, EndBeside, own

\* What a call returns.
LEMMA VerdictIsReturned ==
  ASSUME TypeOK
  PROVE  Verdict \in Returned
<1> DEFINE l == heard.last
<1>0. Answers \union {None} # {}
  OBVIOUS
<1>1. l # None => l.answer \in Answers \union {None}
  BY DEF TypeOK, AnyLine, Heard
<1>2. \A why \in {"scope", "stall", "error", "no_output", "budget"} : Failed(why) \in Returned
  BY DEF Failed, Returned
<1>3. \A a \in Answers : Final(a) \in Returned
  BY DEF Final, Returned
<1>4. heard.answer \in Answers \union {None} /\ out \in Answers \union {None, Garbage}
      /\ stopped \in {None, "scope", "stall"}
  BY DEF TypeOK, Heard
<1> QED
  BY <1>1, <1>2, <1>3, <1>4 DEF Verdict

\* A step at work keeps every variable of its kind, and its threads apart.
THEOREM TypeCorrect == Spec => []TypeInv
<1>1. Init => TypeInv
  <2> SUFFICES ASSUME Init PROVE TypeInv
    OBVIOUS
  <2>1. declared \subseteq Things
    BY DEF Init
  <2>2. TypeOK
    <3>1. asked \in Seq(Problems) /\ pipe \in Seq(AnyLine)
      BY DEF Init
    <3>2. attempt \in 0..ReAskMax /\ issues \in Nat /\ turns \in Nat /\ counted \in Nat
          /\ unbilled \in Int /\ beside \in Nat /\ owing \in Nat
      BY Settings DEF Init
    <3>3. proc \in Process /\ heard \in Heard
      BY AtFirst DEF Init
    <3> QED
      BY <2>1, <3>1, <3>2, <3>3 DEF Init, TypeOK, Places
  <2>3. Attempts /\ Alone
    BY DEF Init, Attempts, Alone, InProcess, InTurns, AtRest, Off
  <2> QED
    BY <2>2, <2>3 DEF TypeInv
<1>2. TypeInv /\ [Next]_vars => TypeInv'
  <2> SUFFICES ASSUME TypeInv, [Next]_vars PROVE TypeInv'
    OBVIOUS
  <2> USE DEF TypeInv, TypeOK, Attempts, Alone, InProcess, InTurns, AtRest, Places,
              apart, loopVars, procVars, tokenVars, toolVars
  <2>1. CASE Issue
    BY <2>1 DEF Issue
  <2>2. CASE BeforePrompt
    BY <2>2, Settings DEF BeforePrompt
  <2>3. CASE Start
    <3>1. attempt + 1 \in 0..ReAskMax /\ attempt' = attempt + 1 /\ Len(asked) < attempt'
      BY <2>3, Settings DEF Start
    <3>2. CASE backend = "api"
      BY <2>3, <3>1, <3>2 DEF Start
    <3>3. CASE backend # "api"
      <4>1. PICK d \in BOOLEAN : proc' = [up |-> TRUE, deaf |-> d, left |-> MaxLines]
        BY <2>3, <3>3 DEF Start
      <4>2. proc' \in Process
        BY <4>1, Settings DEF Process
      <4>3. reader' = "reading" /\ pc' = "watch" /\ unbilled' = 1
        BY <2>3, <3>3 DEF Start
      <4> QED
        <5>1. TypeOK'
          <6>1. UNCHANGED <<apart, issues, seen, asked, pipe, heard, out, quiet, stopped, strayed,
                            toolVars, turns, counted, behind>>
            BY <2>3 DEF Start
          <6> QED
            BY <3>1, <4>2, <4>3, <6>1
        <5>2. Attempts' /\ Alone'
          BY <2>3, <3>1, <3>3, <4>3 DEF Start
        <5> QED
          BY <5>1, <5>2
    <3> QED
      BY <3>2, <3>3
  <2>4. CASE SeeExit
    BY <2>4 DEF SeeExit
  <2>5. CASE Stall
    BY <2>5, AtFirst DEF Stall, Terminated
  <2>6. CASE Reap
    BY <2>6, AtFirst DEF Reap, Off
  <2>7. CASE Join
    BY <2>7, VerdictIsReturned DEF Join, Return
  <2>8. CASE Answer
    BY <2>8 DEF Answer, Return, Final, Returned
  <2>9. CASE AskForTool
    <3>1. turns + 1 \in Nat /\ turns' = turns + 1
      BY <2>9 DEF AskForTool
    <3>2. CASE turns' >= MaxTurns
      BY <2>9, <3>1, <3>2 DEF AskForTool, Return, Failed, Returned
    <3>3. CASE ~(turns' >= MaxTurns)
      BY <2>9, <3>1, <3>3 DEF AskForTool
    <3> QED
      BY <3>2, <3>3
  <2>10. CASE Raise
    BY <2>10 DEF Raise, Return, Failed, Returned
  <2>11. CASE Decide
    BY <2>11 DEF Decide
  <2>12. CASE BeforeToolCall
    BY <2>12 DEF BeforeToolCall
  <2>13. CASE Run
    BY <2>13 DEF Run
  <2>14. CASE Judge
    <3>0. /\ proc' = Off /\ pipe' = <<>> /\ reader' = "off" /\ heard' = Nothing /\ out' = None
          /\ quiet' = FALSE /\ stopped' = None /\ strayed' = FALSE
          /\ turns' = 0 /\ unbilled' = 0 /\ behind' = FALSE
          /\ pipe' \in Seq(AnyLine) /\ proc' \in Process /\ ~proc'.up /\ heard' \in Heard
      BY <2>14, AtFirst, NoneYet DEF Judge, CallIsOver
    <3>1. result \in Returned /\ pc = "answered" /\ Len(asked) < attempt
      BY <2>14 DEF Judge
    <3>a. UNCHANGED <<apart, issues, attempt, toolVars, counted>>
      BY <2>14 DEF Judge
    <3>b. ASSUME seen' \subseteq Problems, asked' \in Seq(Problems),
                 pc' \in {"halted", "done"} \/ (pc' = "ask" /\ Len(asked') <= attempt /\ attempt < ReAskMax)
          PROVE  TypeOK' /\ Attempts' /\ Alone'
      <4>1. /\ pc' \in Places /\ pc' # "answered" /\ ~InProcess' /\ ~InTurns'
            /\ pc' \notin {"issue", "prompt", "tool", "rail", "sandbox", "join"}
        BY <3>b
      <4>2. TypeOK'
        <5>1. /\ backend' \in Backends /\ issues' \in Nat /\ attempt' \in 0..ReAskMax
              /\ engine' \in {"cedar", "step"} /\ declared' \subseteq Things /\ ran' \subseteq Things
              /\ wanted' \in Things \union {None} /\ counted' \in Nat /\ beside' \in Nat /\ owing' \in Nat
          BY <3>a
        <5>2. /\ proc' \in Process /\ pipe' \in Seq(AnyLine) /\ reader' \in {"off", "reading", "over"}
              /\ heard' \in Heard /\ out' \in Answers \union {None, Garbage} /\ quiet' \in BOOLEAN
              /\ stopped' \in {None, "scope", "stall"} /\ strayed' \in BOOLEAN
              /\ turns' \in Nat /\ unbilled' \in Int /\ behind' \in BOOLEAN
          <6> HIDE DEF apart, loopVars, procVars, tokenVars, toolVars, TypeInv, TypeOK, Attempts, Alone
          <6>1. proc' \in Process /\ pipe' \in Seq(AnyLine) /\ heard' \in Heard
            BY <3>0
          <6>2. reader' \in {"off", "reading", "over"} /\ stopped' \in {None, "scope", "stall"}
                /\ out' \in Answers \union {None, Garbage}
            BY <3>0
          <6>3. quiet' \in BOOLEAN /\ strayed' \in BOOLEAN /\ behind' \in BOOLEAN
            BY <3>0
          <6>4. turns' \in Nat /\ unbilled' \in Int
            BY <3>0
          <6> QED
            BY <6>1, <6>2, <6>3, <6>4
        <5> HIDE DEF apart, loopVars, procVars, tokenVars, toolVars, TypeInv, Attempts, Alone
        <5> QED
          BY <3>b, <4>1, <5>1, <5>2
      <4>3. Attempts'
        BY <3>a, <3>b, <4>1
      <4>4. Alone'
        BY <3>0, <4>1
      <4> QED
        BY <4>2, <4>3, <4>4
    <3>2. CASE result.status # "final" \/ result.answer = Good
      <4>1. UNCHANGED <<seen, asked>> /\ pc' \in {"halted", "done"}
        BY <2>14, <3>2 DEF Judge
      <4> QED
        BY <3>b, <4>1
    <3>3. CASE ~(result.status # "final" \/ result.answer = Good)
      <4>1. result.answer \in Problems
        BY <3>1, <3>3 DEF Returned, Answers
      <4>2. asked' \in Seq(Problems) /\ Len(asked') <= Len(asked) + 1
        <5>1. asked' = asked \/ asked' = Append(asked, result.answer)
          BY <2>14, <3>3 DEF Judge
        <5> QED
          <6>1. asked \in Seq(Problems) /\ Len(asked) \in Nat
            OBVIOUS
          <6>2. /\ Append(asked, result.answer) \in Seq(Problems)
                /\ Len(Append(asked, result.answer)) = Len(asked) + 1
            BY <4>1, <6>1, OneMore
          <6>3. CASE asked' = asked
            BY <6>1, <6>3
          <6>4. CASE asked' = Append(asked, result.answer)
            BY <6>1, <6>2, <6>4
          <6> QED
            BY <5>1, <6>3, <6>4
      <4>3. seen' \subseteq Problems
        BY <2>14, <3>3, <4>1 DEF Judge
      <4>4. pc' = "halted" \/ (pc' = "ask" /\ attempt # ReAskMax)
        BY <2>14, <3>3 DEF Judge
      <4>5. Len(asked') <= attempt /\ (attempt # ReAskMax => attempt < ReAskMax)
        <5>1. Len(asked) \in Nat /\ Len(asked') \in Nat
          BY <4>2
        <5> QED
          BY <3>1, <4>2, <5>1, Settings
      <4> QED
        BY <3>b, <4>2, <4>3, <4>4, <4>5
    <3> QED
      BY <3>2, <3>3
  <2>15. CASE Speak
    <3>1. PICK l \in Lines : Speaks(l)
      BY <2>15 DEF Speak, Speaks
    <3>2. Append(pipe, l) \in Seq(AnyLine)
      BY <3>1, LineIsALine
    <3>3. proc' \in Process
      <4>1. proc.left - 1 \in Nat
        <5>1. proc \in Process /\ proc.left > 0
          BY <2>15 DEF Speak
        <5> HIDE DEF TypeInv, TypeOK, Attempts, Alone, InProcess, InTurns, AtRest, Places
        <5> QED
          BY <5>1 DEF Process
      <4>2. proc \in Process /\ proc' = [proc EXCEPT !.left = IF l.says \in LastWords THEN 0 ELSE proc.left - 1]
        BY <3>1 DEF Speaks
      <4> HIDE DEF TypeInv, TypeOK, Attempts, Alone, InProcess, InTurns, AtRest, Places
      <4> QED
        BY <4>1, <4>2, OneLess
    <3>4. proc.up /\ InProcess /\ (reader = "over" => stopped # None)
      BY <2>15 DEF Speak
    <3> QED
      BY <2>15, <3>1, <3>2, <3>3, <3>4 DEF Speak, Speaks
  <2>16. CASE Exit
    BY <2>16, AtFirst DEF Exit, Off
  <2>17. CASE Read
    <3>1. Head(pipe) \in AnyLine /\ Tail(pipe) \in Seq(AnyLine)
      BY <2>17 DEF Read
    <3>2. InProcess
      BY <2>17 DEF Read
    <3>3. heard' \in Heard
      BY <2>17, <3>1 DEF Read, AnyLine, Heard
    <3>4. counted' \in Nat /\ unbilled' \in Int
      BY <2>17 DEF Read
    <3>5. pipe' \in Seq(AnyLine) /\ quiet' = FALSE
      BY <2>17, <3>1 DEF Read
    <3>6. proc' \in Process /\ (pc = "join" => ~proc'.up)
      <4>1. proc' = proc \/ proc' = Off
        BY <2>17 DEF Read, Terminated
      <4> QED
        BY <4>1, AtFirst
    <3>7. /\ stopped' \in {None, "scope", "stall"} /\ strayed' \in BOOLEAN
          /\ reader' \in {"reading", "over"} /\ (reader' = "over" => stopped' # None)
      BY <2>17 DEF Read
    <3> QED
      BY <2>17, <3>2, <3>3, <3>4, <3>5, <3>6, <3>7 DEF Read
  <2>18. CASE ReadEnd
    BY <2>18 DEF ReadEnd
  <2>19. CASE Quiet
    BY <2>19 DEF Quiet
  <2>20. CASE Again
    BY <2>20 DEF Again
  <2>21. CASE UNCHANGED vars
    BY <2>21 DEF vars
  <2>22. CASE Beside
    <3>1. beside' \in Nat /\ owing' \in Nat /\ counted' \in Nat
      BY <2>22, Settings DEF Beside, IssueBeside, BillBeside, EndBeside
    <3>2. UNCHANGED own
      BY <2>22 DEF Beside, IssueBeside, BillBeside, EndBeside
    <3> QED
      BY <3>1, <3>2 DEF own
  <2> QED
    BY <2>1, <2>2, <2>3, <2>4, <2>5, <2>6, <2>7, <2>8, <2>9, <2>10, <2>11, <2>12, <2>13, <2>14,
       <2>15, <2>16, <2>17, <2>18, <2>19, <2>20, <2>21, <2>22 DEF Next, Main
<1> QED
  BY <1>1, <1>2, PTL DEF Spec

------------------------------------------------------------------------------
\* Every set of problems the model was asked to mend is one it was seen to have.
AskedOnce == ReAskIsProgress /\ \A i \in DOMAIN asked : asked[i] \in seen

LEMMA OnlyJudgeAsks ==
  [Next]_vars /\ ~Judge /\ ~Again => UNCHANGED <<seen, asked>>
  BY DEF Next, Main, vars, loopVars, Issue, BeforePrompt, Start, SeeExit, Stall, Reap, Join, Answer,
         AskForTool, Raise, Decide, BeforeToolCall, Run, Speak, Exit, Read, ReadEnd, Quiet, Beside,
         IssueBeside, BillBeside, EndBeside, own

\* A re-ask brings problems the model was never asked to mend in this step, and there are fewer
\* re-asks than attempts (ask.py).
THEOREM ReAsksMakeProgress == Spec => []ReAskIsProgress
<1>1. Init => AskedOnce
  BY Settings DEF Init, AskedOnce, ReAskIsProgress
<1>2. TypeInv /\ AskedOnce /\ [Next]_vars => AskedOnce'
  <2> SUFFICES ASSUME TypeInv, AskedOnce, [Next]_vars PROVE AskedOnce'
    OBVIOUS
  <2>0. asked \in Seq(Problems) /\ Len(asked) \in Nat /\ attempt \in 0..ReAskMax
    BY DEF TypeInv, TypeOK
  <2>1. CASE Judge
    <3>1. CASE asked' = asked
      <4>1. seen \subseteq seen'
        BY <2>1 DEF Judge
      <4> QED
        BY <3>1, <4>1 DEF AskedOnce, ReAskIsProgress
    <3>2. CASE asked' # asked
      <4>1. asked' = Append(asked, result.answer) /\ result.answer \notin seen /\ attempt # ReAskMax
            /\ seen' = seen \union {result.answer} /\ pc = "answered"
        BY <2>1, <3>2 DEF Judge
      <4>2. Len(asked) < attempt /\ result.answer \in Problems
        BY <2>1, <3>2, <4>1 DEF TypeInv, TypeOK, Attempts, Judge, Returned, Answers
      <4>3. Len(asked') = Len(asked) + 1 /\ asked' \in Seq(Problems)
        BY <2>0, <4>1, <4>2, OneMore
      <4>4. Len(asked') < ReAskMax
        BY <2>0, <4>1, <4>2, <4>3, Settings
      <4>5. \A i \in DOMAIN asked' : IF i = Len(asked) + 1 THEN asked'[i] = result.answer
                                     ELSE i \in DOMAIN asked /\ asked'[i] = asked[i]
        BY <2>0, <4>1, <4>2, <4>3
      <4> QED
        BY <4>1, <4>4, <4>5 DEF AskedOnce, ReAskIsProgress
    <3> QED
      BY <3>1, <3>2
  <2>2. CASE Again
    BY <2>2, Settings DEF Again, AskedOnce, ReAskIsProgress
  <2>3. CASE ~Judge /\ ~Again
    BY <2>3, OnlyJudgeAsks DEF AskedOnce, ReAskIsProgress
  <2> QED
    BY <2>1, <2>2, <2>3
<1>3. AskedOnce => ReAskIsProgress
  BY DEF AskedOnce
<1> QED
  BY <1>1, <1>2, <1>3, TypeCorrect, PTL DEF Spec

------------------------------------------------------------------------------
\* A step that was issued declares what the profile allows; a stray is why its process was killed.
Confined ==
  /\ CallIsConfined
  /\ pc \in {"prompt", "ask", "answered"} \/ InProcess \/ InTurns => declared \subseteq Allowed
  /\ strayed => stopped \in {"scope", "stall"}

LEMMA KilledIsFailed == stopped # None => Verdict = Failed(stopped)
  BY DEF Verdict

\* Nothing a call does beyond its rights counts for the run: an answer after a write outside the
\* folder is none, and every tool that ran was declared and allowed (backends/streams.py, cli.py
\* `complete`; driver/runner.py `_execute`).
THEOREM NothingBeyondItsRights == Spec => []CallIsConfined
<1>1. Init => Confined
  BY DEF Init, Confined, CallIsConfined, StrayIsNoAnswer, ToolsAreAllowed, InProcess, InTurns
<1>2. TypeInv /\ Confined /\ [Next]_vars => Confined'
  <2> SUFFICES ASSUME TypeInv, Confined, [Next]_vars PROVE Confined'
    OBVIOUS
  <2> USE DEF Confined, CallIsConfined, StrayIsNoAnswer, ToolsAreAllowed, InProcess, InTurns,
              apart, loopVars, procVars, tokenVars, toolVars
  <2>0. backend \in Backends /\ declared \subseteq Things /\ Alone
    BY DEF TypeInv, TypeOK
  <2>1. CASE Issue
    BY <2>1 DEF Issue
  <2>2. CASE BeforePrompt \/ Decide \/ BeforeToolCall \/ SeeExit \/ Again
    BY <2>2 DEF BeforePrompt, Decide, BeforeToolCall, SeeExit, Again
  <2>3. CASE Start
    BY <2>3 DEF Start
  <2>4. CASE Stall
    BY <2>4 DEF Stall
  <2>5. CASE Reap
    BY <2>5 DEF Reap
  <2>6. CASE Join
    <3>1. strayed => Verdict.status # "final"
      BY KilledIsFailed DEF Failed
    <3> QED
      BY <2>6, <3>1 DEF Join, Return
  <2>7. CASE Answer \/ AskForTool \/ Raise
    BY <2>0, <2>7 DEF Answer, AskForTool, Raise, Return, Alone
  <2>8. CASE Run
    BY <2>0, <2>8 DEF Run, Alone
  <2>9. CASE Judge
    BY <2>9 DEF Judge, CallIsOver
  <2>10. CASE Speak \/ Exit \/ ReadEnd \/ Quiet
    BY <2>10 DEF Speak, Exit, ReadEnd, Quiet
  <2>11. CASE Read
    BY <2>0, <2>11 DEF Read, Alone
  <2>12. CASE UNCHANGED vars
    BY <2>12 DEF vars
  <2>13. CASE Beside
    BY <2>13, BesideIsApart
  <2> QED
    BY <2>1, <2>2, <2>3, <2>4, <2>5, <2>6, <2>7, <2>8, <2>9, <2>10, <2>11, <2>12, <2>13 DEF Next, Main
<1>3. Confined => CallIsConfined
  BY DEF Confined
<1> QED
  BY <1>1, <1>2, <1>3, TypeCorrect, PTL DEF Spec

------------------------------------------------------------------------------
\* The reader has seen the bill of this call.
Billed == heard.last # None /\ HasBill(heard.last)

\* A process has its last words once, and says nothing after them; codex leaves an answer only
\* when it says so.
LastWordsAreLast ==
  /\ \A i \in DOMAIN pipe : pipe[i].says \in LastWords => i = Len(pipe) /\ proc.left = 0
  /\ heard.last # None /\ heard.last.says \in LastWords => pipe = <<>> /\ proc.left = 0
  /\ backend = "codex" /\ out \in Answers =>
       \/ \E i \in DOMAIN pipe : pipe[i].says = "success"
       \/ heard.last # None /\ heard.last.says = "success"

\* What a call used and is on no record: its turns while a conversation lasts, a process's one unit
\* until its bill is read.
OwedInCall ==
  /\ InTurns => unbilled = turns
  /\ InProcess => ~behind /\ unbilled = IF Billed THEN 0 ELSE 1
  /\ AnswersAreBilled

Bill == (InProcess => LastWordsAreLast) /\ OwedInCall

LEMMA BillsAreLastWords == \A l : HasBill(l) => l.says \in LastWords
  BY DEF HasBill, LastWords

LEMMA LastWordsKept ==
  ASSUME TypeInv, InProcess, LastWordsAreLast, [Next]_vars, InProcess'
  PROVE  LastWordsAreLast'
<1> USE DEF apart, loopVars, procVars, tokenVars, toolVars
<1>0. pipe \in Seq(AnyLine) /\ Len(pipe) \in Nat /\ proc \in Process /\ backend \in Backends
  BY DEF TypeInv, TypeOK
<1>1. CASE Speak
  <2>1. PICK l \in Lines : Speaks(l)
    BY <1>1 DEF Speak, Speaks
  <2>2. proc.left > 0 /\ UNCHANGED <<backend, heard>>
    BY <1>1 DEF Speak
  <2>3. /\ Len(pipe') = Len(pipe) + 1 /\ DOMAIN pipe' = 1..(Len(pipe) + 1)
        /\ pipe'[Len(pipe) + 1] = l /\ \A i \in DOMAIN pipe : i \in DOMAIN pipe' /\ pipe'[i] = pipe[i]
    BY <1>0, <2>1, LineIsALine DEF Speaks
  <2>4. \A i \in DOMAIN pipe : pipe[i].says \notin LastWords
    BY <2>2 DEF LastWordsAreLast
  <2>5. l.says \in LastWords => proc'.left = 0
    BY <1>0, <2>1 DEF Speaks, Process
  <2>6. \A i \in DOMAIN pipe' : pipe'[i].says \in LastWords => i = Len(pipe') /\ proc'.left = 0
    <3>1. \A i \in DOMAIN pipe' : i = Len(pipe) + 1 \/ i \in DOMAIN pipe
      BY <1>0, <2>3
    <3> QED
      BY <2>3, <2>4, <2>5, <3>1
  <2>7. ~(heard'.last # None /\ heard'.last.says \in LastWords)
    BY <2>2 DEF LastWordsAreLast
  <2>8. backend' = "codex" /\ out' \in Answers =>
          \/ \E i \in DOMAIN pipe' : pipe'[i].says = "success"
          \/ heard'.last # None /\ heard'.last.says = "success"
    <3>1. CASE l.says = "success"
      BY <1>0, <2>3, <3>1
    <3>2. CASE l.says # "success"
      BY <2>1, <2>2, <2>3, <3>2 DEF Speaks, LastWordsAreLast
    <3> QED
      BY <3>1, <3>2
  <2> QED
    BY <2>6, <2>7, <2>8 DEF LastWordsAreLast
<1>2. CASE Read
  <2>1. pipe # <<>> /\ pipe' = Tail(pipe) /\ heard'.last = Head(pipe) /\ UNCHANGED <<backend, out>>
    BY <1>2 DEF Read
  <2>2. proc' = proc \/ proc'.left = 0
    BY <1>2 DEF Read, Terminated, Off
  <2>3. /\ Len(pipe') = Len(pipe) - 1 /\ DOMAIN pipe' = 1..(Len(pipe) - 1)
        /\ \A i \in DOMAIN pipe' : i + 1 \in DOMAIN pipe /\ pipe'[i] = pipe[i + 1]
        /\ Head(pipe) = pipe[1] /\ 1 \in DOMAIN pipe
    BY <1>0, <2>1
  <2>4. \A i \in DOMAIN pipe' : pipe'[i].says \in LastWords => i = Len(pipe') /\ proc'.left = 0
    BY <1>0, <2>2, <2>3 DEF LastWordsAreLast
  <2>5. heard'.last.says \in LastWords => pipe' = <<>> /\ proc'.left = 0
    BY <1>0, <2>1, <2>2, <2>3 DEF LastWordsAreLast
  <2>6. backend' = "codex" /\ out' \in Answers =>
          \/ \E i \in DOMAIN pipe' : pipe'[i].says = "success"
          \/ heard'.last # None /\ heard'.last.says = "success"
    <3>1. heard'.last # None
      <4>1. pipe[1] \in AnyLine
        BY <1>0, <2>3
      <4> QED
        BY <2>1, <2>3, <4>1
    <3>2. ~(heard.last # None /\ heard.last.says = "success")
      BY <2>1 DEF LastWordsAreLast, LastWords
    <3>3. ASSUME NEW i \in DOMAIN pipe, pipe[i].says = "success"
          PROVE  \/ \E j \in DOMAIN pipe' : pipe'[j].says = "success"
                 \/ heard'.last.says = "success"
      <4>1. CASE i = 1
        BY <2>1, <2>3, <3>3, <4>1
      <4>2. CASE i # 1
        <5>1. i - 1 \in DOMAIN pipe' /\ (i - 1) + 1 = i
          BY <1>0, <2>3, <4>2
        <5> QED
          BY <2>3, <3>3, <5>1
      <4> QED
        BY <4>1, <4>2
    <3> QED
      BY <2>1, <3>1, <3>2, <3>3 DEF LastWordsAreLast
  <2> QED
    BY <2>4, <2>5, <2>6 DEF LastWordsAreLast
<1>3. CASE Stall \/ Exit \/ Reap
  <2>1. UNCHANGED <<backend, pipe, heard, out>> /\ (proc' = proc \/ proc' = Off)
    BY <1>3 DEF Stall, Exit, Reap, Terminated
  <2> QED
    BY <2>1 DEF LastWordsAreLast, Off
<1>4. CASE SeeExit \/ ReadEnd \/ Quiet \/ UNCHANGED vars
  <2>1. UNCHANGED <<backend, pipe, heard, out, proc>>
    BY <1>4 DEF SeeExit, ReadEnd, Quiet, vars
  <2> QED
    BY <2>1 DEF LastWordsAreLast
<1>5. CASE Beside
  BY <1>5, BesideIsApart DEF LastWordsAreLast
<1> QED
  BY <1>1, <1>2, <1>3, <1>4, <1>5 DEF Next, Main, InProcess, Issue, BeforePrompt, Start, Join, Answer,
     AskForTool, Raise, Decide, BeforeToolCall, Run, Judge, Again, Return

\* A call starts with nothing of the one before.
LEMMA AtStart ==
  ASSUME TypeInv, Start
  PROVE  pipe' = <<>> /\ heard'.last = None /\ out' = None /\ turns' = 0 /\ unbilled = 0 /\ ~behind'
  BY DEF TypeInv, Alone, AtRest, Start, Nothing

\* A process that starts has said nothing.
LEMMA LastWordsBegin ==
  ASSUME TypeInv, ~InProcess, InProcess', [Next]_vars
  PROVE  LastWordsAreLast'
<1>1. Start /\ backend # "api"
  BY DEF Next, Main, InProcess, Issue, BeforePrompt, Start, SeeExit, Stall, Reap, Join, Answer, vars,
     AskForTool, Raise, Decide, BeforeToolCall, Run, Judge, Again, Return, Speak, Exit, Read, ReadEnd, Quiet,
     Beside, IssueBeside, BillBeside, EndBeside, own
<1>2. pipe' = <<>> /\ heard'.last = None /\ out' = None
  BY <1>1, AtStart
<1> QED
  BY <1>2 DEF LastWordsAreLast

\* The reader counts a bill when it reads it, and there is one.
LEMMA ReadBills ==
  ASSUME TypeInv, InProcess => LastWordsAreLast, Read
  PROVE  /\ ~Billed
         /\ IF Billed' THEN counted' = counted + 1 /\ unbilled' = unbilled - 1
            ELSE UNCHANGED <<counted, unbilled>>
<1>1. InProcess /\ pipe # <<>> /\ backend' = backend /\ heard'.last = Head(pipe)
      /\ IF HasBill(Head(pipe)) THEN counted' = counted + 1 /\ unbilled' = unbilled - 1
         ELSE UNCHANGED <<counted, unbilled>>
  BY DEF TypeInv, Alone, Read, apart
<1>2. ~Billed
  BY <1>1, BillsAreLastWords DEF LastWordsAreLast, Billed
<1>3. Head(pipe) # None
  <2>1. pipe[1] \in AnyLine /\ Head(pipe) = pipe[1]
    BY <1>1 DEF TypeInv, TypeOK
  <2> QED
    BY <2>1
<1>4. Billed' <=> HasBill(Head(pipe))
  BY <1>1, <1>3 DEF Billed, HasBill
<1> QED
  BY <1>1, <1>2, <1>4

\* A process whose words were read to the end and gave an answer sent its bill before.
LEMMA VerdictIsBilled ==
  ASSUME TypeInv, InProcess, LastWordsAreLast, reader = "over", Verdict.status = "final"
  PROVE  Billed
<1>1. stopped = None
  BY KilledIsFailed DEF Failed, TypeInv, TypeOK
<1>2. pipe = <<>> /\ backend \in {"claude", "codex"}
  BY <1>1 DEF TypeInv, TypeOK, Alone
<1>3. CASE backend = "claude"
  <2>1. heard.last # None /\ heard.last.says \in {"gave_up", "success"}
    BY <1>1, <1>3 DEF Verdict, Failed
  <2> QED
    BY <1>3, <2>1 DEF Billed, HasBill, LastWords
<1>4. CASE backend = "codex"
  <2>1. out \in Answers
    BY <1>1, <1>4 DEF Verdict, Failed, TypeInv, TypeOK
  <2>2. heard.last # None /\ heard.last.says = "success"
    BY <1>2, <1>4, <2>1 DEF LastWordsAreLast
  <2> QED
    BY <1>4, <2>2 DEF Billed, HasBill
<1> QED
  BY <1>2, <1>3, <1>4

\* An answer is on the record with what its last turn cost, whatever the process said and when it
\* ended, unless a reader was left behind (backends/streams.py; ask.py `on_fact`).
THEOREM WhatAnswersIsBilled == Spec => []AnswersAreBilled
<1> USE DEF apart, loopVars, procVars, tokenVars, toolVars
<1>1. Init => Bill
  BY DEF Init, Bill, OwedInCall, AnswersAreBilled, InProcess, InTurns
<1>2. TypeInv /\ Bill /\ [Next]_vars => Bill'
  <2> SUFFICES ASSUME TypeInv, Bill, [Next]_vars PROVE Bill'
    OBVIOUS
  <2>1. InProcess' => LastWordsAreLast'
    <3>1. CASE InProcess
      BY <3>1, LastWordsKept DEF Bill
    <3>2. CASE ~InProcess
      BY <3>2, LastWordsBegin
    <3> QED
      BY <3>1, <3>2
  <2>2. OwedInCall'
    <3> USE DEF Bill, OwedInCall, AnswersAreBilled, InProcess, InTurns
    <3>0. turns \in Nat /\ unbilled \in Int /\ (InProcess => reader # "off" /\ backend # "api")
          /\ (~InProcess => reader # "reading") /\ (InTurns => backend = "api")
          /\ reader \in {"off", "reading", "over"}
      BY DEF TypeInv, TypeOK, Alone
    <3>1. CASE Issue \/ BeforePrompt \/ Decide \/ BeforeToolCall \/ Run \/ Judge \/ Again
      BY <3>0, <3>1 DEF Issue, BeforePrompt, Decide, BeforeToolCall, Run, Judge, Again
    <3>2. CASE Start
      BY <3>0, <3>2, AtStart DEF Start, Billed
    <3>3. CASE SeeExit \/ Stall \/ Reap \/ Speak \/ Exit \/ ReadEnd \/ Quiet \/ UNCHANGED vars
      BY <3>0, <3>3 DEF SeeExit, Stall, Reap, Speak, Exit, ReadEnd, Quiet, vars, Billed, HasBill
    <3>4. CASE Read
      <4>1. InProcess /\ InProcess' /\ behind' = behind /\ pc' = pc
        BY <3>0, <3>4 DEF Read
      <4> QED
        BY <3>0, <3>4, <4>1, ReadBills
    <3>5. CASE Join
      <4>1. /\ InProcess /\ pc' = "answered" /\ result' = Verdict /\ UNCHANGED <<backend, unbilled>>
            /\ behind' = (behind \/ reader # "over")
        BY <3>5 DEF Join, Return
      <4>2. CASE Verdict.status = "final" /\ reader = "over"
        BY <3>0, <4>1, <4>2, VerdictIsBilled
      <4>3. CASE ~(Verdict.status = "final" /\ reader = "over")
        BY <3>0, <4>1, <4>3
      <4> QED
        BY <4>2, <4>3
    <3>6. CASE Answer \/ AskForTool \/ Raise
      BY <3>0, <3>6 DEF Answer, AskForTool, Raise, Return, Failed
    <3>7. CASE Beside
      BY <3>7, BesideIsApart DEF Billed, HasBill
    <3> QED
      BY <3>1, <3>2, <3>3, <3>4, <3>5, <3>6, <3>7 DEF Next, Main
  <2> QED
    BY <2>1, <2>2 DEF Bill
<1>3. Bill => AnswersAreBilled
  BY DEF Bill, OwedInCall
<1> QED
  BY <1>1, <1>2, <1>3, TypeCorrect, PTL DEF Spec

------------------------------------------------------------------------------
\* The bills of so many steps.
Share(n) == n * ReAskMax

\* A pool less one step, and the whole pool.
LEMMA Pool ==
  ASSUME NEW n \in Nat
  PROVE  /\ Share(n) \in Nat /\ Share(0) = 0 /\ Share(n + 1) = Share(n) + ReAskMax
         /\ n < Parallel => Share(n) + ReAskMax <= Share(Parallel)
<1>1. Parallel \in Nat /\ ReAskMax \in Nat
  BY Settings
<1>2. \A m, k \in Nat : m * k \in Nat /\ (m + 1) * k = m * k + k /\ 0 * k = 0
  OBVIOUS
<1>3. \A m, l, k \in Nat : m <= l => m * k <= l * k
  OBVIOUS
<1>4. n < Parallel => (n + 1) * ReAskMax <= Parallel * ReAskMax
  BY <1>1, <1>3
<1> QED
  BY <1>1, <1>2, <1>4 DEF Share

\* What may be counted or coming when this step has made so many attempts: the rest of the pool has
\* all of its bills to send.
Budget(a) == Ceiling + (Share(Parallel) - ReAskMax) + a

LEMMA BudgetGrows ==
  /\ \A a \in Nat : Budget(a) \in Nat /\ Budget(a + 1) = Budget(a) + 1 /\ Budget(0) <= Budget(a)
                    /\ \A b \in Nat : a <= b => Budget(a) <= Budget(b)
  /\ Budget(ReAskMax) = Ceiling + Share(Parallel)
  /\ Budget(0) = Ceiling + (Share(Parallel) - ReAskMax) /\ Ceiling <= Budget(0)
<1>1. Share(Parallel) - ReAskMax \in Nat /\ Ceiling \in Nat /\ ReAskMax \in Nat /\ Share(Parallel) \in Nat
  BY Settings, Pool
<1> QED
  BY <1>1 DEF Budget

\* On the record, and the bills the steps beside may still send.
Due == counted + owing

\* A conversation and a process are billed once within their attempt.
WithinBudget ==
  /\ beside < Parallel /\ owing <= Share(beside)
  /\ Due < Budget(ReAskMax)
  /\ pc \in {"prompt", "ask", "answered"} => Due < Budget(attempt)
  /\ InTurns => Due < Budget(attempt - 1)
  /\ InProcess => Due < Budget(attempt - 1) + IF Billed THEN 1 ELSE 0

Bounded == (InProcess => LastWordsAreLast) /\ WithinBudget

LEMMA FewerToCome ==
  ASSUME NEW c \in Nat, NEW n \in Nat, NEW m \in Nat, n <= m
  PROVE  c + n <= c + m /\ c + n \in Nat
  OBVIOUS

\* While a step beside begins, the ceiling is not reached: the pool has room for this step's attempts.
LEMMA RoomInPool ==
  ASSUME TypeInv, owing <= Share(beside), beside < Parallel, counted < Ceiling
  PROVE  Due < Budget(0)
<1>1. Share(beside) + ReAskMax <= Share(Parallel) /\ Share(beside) \in Nat /\ Share(Parallel) \in Nat
  BY Pool, Settings DEF TypeInv, TypeOK
<1>2. counted \in Nat /\ owing \in Nat /\ Ceiling \in Nat /\ ReAskMax \in Nat
  BY Settings DEF TypeInv, TypeOK
<1>3. owing <= Share(Parallel) - ReAskMax
  BY <1>1, <1>2
<1>4. counted + owing < Ceiling + (Share(Parallel) - ReAskMax)
  BY <1>1, <1>2, <1>3
<1> QED
  BY <1>4, BudgetGrows DEF Due

\* Past its ceiling a role begins no step, so that it goes over by what a pool of steps may ask,
\* however often steps are issued (driver/runner.py `_execute`, `_execute_ready`).
THEOREM CeilingHolds == Spec => []CeilingIsKept
<1> USE DEF apart, loopVars, procVars, tokenVars, toolVars
<1>0. /\ \A a \in Nat : Budget(a) \in Nat /\ Budget(a + 1) = Budget(a) + 1
                        /\ Budget(0) <= Budget(a) /\ (a <= ReAskMax => Budget(a) <= Budget(ReAskMax))
      /\ Ceiling <= Budget(0)
  BY BudgetGrows, Settings
<1>1. Init => Bounded
  <2> SUFFICES ASSUME Init PROVE Bounded
    OBVIOUS
  <2>1. Due = 0 /\ beside = 0 /\ owing = 0
    BY DEF Init, Due
  <2>2. 0 < Budget(ReAskMax) /\ 0 <= Share(0) /\ 0 < Parallel
    BY BudgetGrows, Pool, Settings
  <2> QED
    BY <2>1, <2>2 DEF Init, Bounded, WithinBudget, InProcess, InTurns
<1>2. TypeInv /\ Bounded /\ [Next]_vars => Bounded'
  <2> SUFFICES ASSUME TypeInv, Bounded, [Next]_vars PROVE Bounded'
    OBVIOUS
  <2>1. InProcess' => LastWordsAreLast'
    <3>1. CASE InProcess
      BY <3>1, LastWordsKept DEF Bounded
    <3>2. CASE ~InProcess
      BY <3>2, LastWordsBegin
    <3> QED
      BY <3>1, <3>2
  <2>2. WithinBudget'
    <3> USE DEF Bounded, WithinBudget, InProcess, InTurns
    <3>0. /\ counted \in Nat /\ owing \in Nat /\ beside \in Nat /\ Due \in Nat /\ attempt \in 0..ReAskMax
          /\ ReAskMax \in Nat /\ (InProcess \/ InTurns \/ pc = "answered" => attempt > 0)
          /\ (pc \in {"issue", "prompt"} => attempt = 0) /\ (pc = "ask" => attempt < ReAskMax)
      <4>1. Len(asked) \in Nat /\ Attempts
        BY DEF TypeInv, TypeOK
      <4> QED
        BY <4>1, Settings DEF TypeInv, TypeOK, Attempts, Due
    <3>a. attempt > 0 => /\ attempt - 1 \in Nat /\ Budget(attempt) = Budget(attempt - 1) + 1
                         /\ Budget(attempt) <= Budget(ReAskMax) /\ Budget(attempt - 1) \in Nat
      <4>1. attempt > 0 => attempt - 1 \in Nat /\ (attempt - 1) + 1 = attempt
        BY <3>0
      <4> QED
        BY <1>0, <3>0, <4>1
    <3>b. UNCHANGED <<counted, owing>> => Due' = Due
      BY DEF Due
    <3>1. CASE Issue \/ BeforePrompt \/ Decide \/ BeforeToolCall \/ Run \/ Judge \/ Again
      <4>1. CASE Issue
        <5>1. UNCHANGED <<counted, owing, beside, attempt>> /\ pc' \in {"over", "denied", "prompt"} /\ attempt = 0
              /\ (pc' = "prompt" => counted < Ceiling)
          BY <3>0, <4>1 DEF Issue
        <5>2. pc' = "prompt" => Due < Budget(0)
          BY <5>1, RoomInPool
        <5> QED
          BY <3>b, <5>1, <5>2
      <4>2. CASE BeforePrompt \/ Decide \/ BeforeToolCall \/ Run \/ Judge
        BY <1>0, <3>0, <3>b, <4>2 DEF BeforePrompt, Decide, BeforeToolCall, Run, Judge
      <4>3. CASE Again
        BY <3>b, <4>3 DEF Again
      <4> QED
        BY <3>1, <4>1, <4>2, <4>3
    <3>2. CASE Start
      <4>1. attempt' = attempt + 1 /\ attempt' - 1 = attempt /\ UNCHANGED <<counted, owing, beside>>
            /\ Due < Budget(attempt) /\ pc' \in {"turn", "watch"}
        BY <3>0, <3>2 DEF Start
      <4>2. ~Billed'
        BY <3>2, AtStart DEF Billed
      <4>3. Due' < Budget(attempt' - 1)
        BY <3>b, <4>1
      <4> HIDE DEF Billed
      <4>4. Due' < Budget(attempt' - 1) + IF Billed' THEN 1 ELSE 0
        <5>1. Budget(attempt' - 1) \in Nat /\ Due' \in Nat
          BY <1>0, <3>0, <3>b, <4>1
        <5> QED
          BY <4>2, <4>3, <5>1
      <4> QED
        BY <3>b, <4>1, <4>3, <4>4
    <3>3. CASE SeeExit \/ Stall \/ Reap \/ Speak \/ Exit \/ ReadEnd \/ Quiet \/ UNCHANGED vars
      <4>1. UNCHANGED <<apart, attempt, counted, heard>> /\ (InProcess <=> InProcess') /\ (~InProcess => pc' = pc)
        BY <3>3 DEF SeeExit, Stall, Reap, Speak, Exit, ReadEnd, Quiet, vars
      <4> QED
        BY <3>b, <4>1 DEF Billed, HasBill
    <3>4. CASE Read
      <4>1. InProcess /\ InProcess' /\ UNCHANGED <<pc, attempt, owing, beside>>
        BY <3>4, <3>0 DEF Read, TypeInv, Alone
      <4> HIDE DEF Billed
      <4>2. ~Billed /\ counted' = counted + IF Billed' THEN 1 ELSE 0
        <5>1. /\ ~Billed
              /\ IF Billed' THEN counted' = counted + 1 ELSE counted' = counted
          BY <3>4, ReadBills
        <5> QED
          BY <3>0, <5>1
      <4>3. Due' = Due + IF Billed' THEN 1 ELSE 0
        BY <3>0, <4>1, <4>2 DEF Due
      <4>4. Due < Budget(attempt - 1) /\ attempt > 0
        <5>1. Due < Budget(attempt - 1) + IF Billed THEN 1 ELSE 0
          BY <4>1
        <5>2. attempt > 0
          BY <3>0, <4>1
        <5> QED
          BY <3>0, <3>a, <4>2, <5>1, <5>2
      <4>5. Due' < Budget(attempt - 1) + IF Billed' THEN 1 ELSE 0
        BY <3>0, <3>a, <4>3, <4>4
      <4>6. Due' < Budget(ReAskMax)
        BY <3>0, <3>a, <4>3, <4>4, <1>0
      <4> QED
        BY <4>1, <4>5, <4>6
    <3>5. CASE Join
      <4>1. InProcess /\ pc' = "answered" /\ UNCHANGED <<counted, attempt, owing, beside>>
        BY <3>5 DEF Join, Return
      <4>2. attempt > 0 /\ Due < Budget(attempt)
        BY <3>0, <3>a, <4>1
      <4> QED
        BY <3>a, <3>b, <4>1, <4>2
    <3>6. CASE Answer \/ AskForTool \/ Raise
      <4>1. InTurns /\ UNCHANGED <<attempt, owing, beside>> /\ attempt > 0 /\ Due < Budget(attempt - 1)
        BY <3>0, <3>6 DEF Answer, AskForTool, Raise
      <4>2. \/ pc' = "answered" /\ counted' \in {counted, counted + 1}
            \/ pc' = "tool" /\ counted' = counted
        BY <3>6 DEF Answer, AskForTool, Raise, Return
      <4>3. /\ Due' \in {Due, Due + 1}
            /\ pc' = "tool" => Due' = Due
        BY <3>0, <4>1, <4>2 DEF Due
      <4>4. Due + 1 < Budget(attempt) /\ Due < Budget(attempt) /\ Due' < Budget(attempt)
        BY <3>0, <3>a, <4>1, <4>3
      <4>5. Due' < Budget(ReAskMax)
        BY <3>0, <3>a, <4>1, <4>3, <4>4, <1>0
      <4> QED
        BY <4>1, <4>2, <4>3, <4>4, <4>5
    <3>7. CASE Beside
      <4>0. UNCHANGED <<pc, attempt, heard, backend>> /\ (Billed <=> Billed')
        BY <3>7, BesideIsApart DEF Billed, HasBill
      <4> HIDE DEF Billed
      <4>1. CASE IssueBeside
        <5>1. counted < Ceiling /\ beside' = beside + 1 /\ beside' < Parallel /\ owing' = owing + ReAskMax
              /\ counted' = counted
          BY <3>0, <4>1, Settings DEF IssueBeside
        <5>2. owing' <= Share(beside')
          BY <3>0, <5>1, Pool
        <5>3. Due' < Budget(0)
          <6>1. /\ Share(beside') + ReAskMax <= Share(Parallel) /\ Share(beside') \in Nat /\ Share(Parallel) \in Nat
                /\ owing' \in Nat /\ ReAskMax \in Nat
            BY <3>0, <5>1, Pool, Settings
          <6>2. owing' <= Share(Parallel) - ReAskMax
            BY <5>2, <6>1
          <6> QED
            BY <3>0, <5>1, <6>1, <6>2, BudgetGrows, Settings DEF Due
        <5>4. Due' \in Nat
          BY <3>0, <5>1 DEF Due
        <5>5. \A a \in Nat : Due' < Budget(a) /\ Due' < Budget(a) + 1
          BY <1>0, <5>3, <5>4
        <5> QED
          BY <3>0, <3>a, <4>0, <5>1, <5>2, <5>5
      <4>2. CASE BillBeside
        <5>1. owing' = owing - 1 /\ counted' = counted + 1 /\ beside' = beside /\ owing > 0
          BY <4>2 DEF BillBeside
        <5>2. Due' = Due /\ owing' <= owing
          BY <3>0, <5>1 DEF Due
        <5>3. owing' <= Share(beside')
          BY <3>0, <5>1, <5>2, Pool
        <5> QED
          BY <4>0, <5>1, <5>2, <5>3
      <4>3. CASE EndBeside
        <5>1. beside' = beside - 1 /\ owing' \in 0..owing /\ counted' = counted /\ owing' <= beside' * ReAskMax
          BY <4>3 DEF EndBeside
        <5>2. Due' <= Due /\ Due' \in Nat
          <6>1. owing' \in Nat /\ owing' <= owing /\ counted' = counted
            BY <3>0, <5>1
          <6>2. counted + owing' <= counted + owing /\ counted + owing' \in Nat
            BY <3>0, <6>1, FewerToCome
          <6> QED
            BY <6>1, <6>2 DEF Due
        <5>a. beside' < Parallel
          BY <3>0, <5>1, Settings
        <5>3. owing' <= Share(beside')
          BY <5>1 DEF Share
        <5>4. \A a \in Nat : /\ Due < Budget(a) => Due' < Budget(a)
                             /\ Due < Budget(a) + 1 => Due' < Budget(a) + 1
          BY <1>0, <3>0, <5>2
        <5> QED
          BY <3>0, <3>a, <4>0, <5>2, <5>a, <5>3, <5>4
      <4> QED
        BY <3>7, <4>1, <4>2, <4>3 DEF Beside
    <3> QED
      BY <3>1, <3>2, <3>3, <3>4, <3>5, <3>6, <3>7 DEF Next, Main
  <2> QED
    BY <2>1, <2>2 DEF Bounded
<1>3. TypeInv /\ Bounded => CeilingIsKept
  <2> SUFFICES ASSUME TypeInv, Bounded PROVE CeilingIsKept
    OBVIOUS
  <2>1. counted + owing < Ceiling + Share(Parallel) /\ counted \in Nat /\ owing \in Nat
    BY BudgetGrows DEF Bounded, WithinBudget, Due, TypeInv, TypeOK
  <2>2. Share(Parallel) \in Nat /\ Ceiling \in Nat
    BY Pool, Settings
  <2>3. counted < Ceiling + Share(Parallel)
    BY <2>1, <2>2
  <2> QED
    BY <2>3 DEF CeilingIsKept, Share
<1> QED
  BY <1>1, <1>2, <1>3, TypeCorrect, PTL DEF Spec

------------------------------------------------------------------------------
(* The policy (module Layers): its two engines decide alike, for any sides, people, tools and *)
(* paths. *)

\* Whatever the profile names, the answer is the same (layers/policy.py `StepPolicy.decide`,
\* cedar_policy.py `CedarPolicy.decide`).
THEOREM OneRuleSet == EnginesAgree
<1>1. SUFFICES ASSUME NEW r \in Requests, InSchema(r)
               PROVE  StepAllows(r) <=> CedarAllows(r)
  BY DEF EnginesAgree
<1>2. r.action \in Actions /\ r.kind \in {"human", "side"}
  BY DEF Requests
<1>3. CASE r.action \in {"launch", "issue", "author"}
  BY <1>1, <1>3 DEF CedarAllows, StepAllows, InSchema
<1>4. CASE r.action = "judge"
  BY <1>1, <1>4 DEF CedarAllows, StepAllows, InSchema
<1>5. CASE r.action = "tool"
  BY <1>1, <1>5 DEF CedarAllows, StepAllows, InSchema
<1>6. CASE r.action = "execute"
  BY <1>6 DEF CedarAllows, StepAllows
<1>7. CASE r.action = "write"
  BY <1>7 DEF CedarAllows, StepAllows
<1>8. CASE r.action = "gate"
  BY <1>2, <1>8 DEF CedarAllows, StepAllows
<1> QED
  BY <1>2, <1>3, <1>4, <1>5, <1>6, <1>7, <1>8 DEF Actions
==============================================================================
