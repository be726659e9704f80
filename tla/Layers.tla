--------------------------------- MODULE Layers ---------------------------------
(***************************************************************************)
(* Who may do what (layers/policy.py, cedar_policy.py).  Before a step is  *)
(* issued, a tool called, a command executed or a file counted as a row's  *)
(* own, the runtime asks a policy.  Two engines answer: the runtime's own  *)
(* rules, in order, and Cedar, in which an action is allowed when some     *)
(* policy permits it and denied otherwise.  A profile names the engine.    *)
(***************************************************************************)
CONSTANTS Ids,      \* sides and people
          NoId,     \* no id
          Things    \* tools and paths

ASSUME NoIdAssumption == NoId \notin Ids

Actions == {"launch", "issue", "author", "judge", "tool", "execute", "write", "gate"}

\* What the runtime tells the policy.  `list` holds the tools the step declares, or the paths a
\* row may write; `flag` says that the command runs inside the run's root, or that the mode lets
\* code sign the gate; `author` is NoId where the context names none.
Requests ==
  [action : Actions, kind : {"human", "side"}, id : Ids, thing : Things,
   list : SUBSET Things, author : Ids \union {NoId}, flag : BOOLEAN]

\* The requests Cedar's schema admits: a person is no author, judge or caller of tools.
InSchema(r) == r.action \in {"author", "judge", "tool"} => r.kind = "side"

\* StepPolicy: the first rule that speaks of the action decides.
StepAllows(r) ==
  CASE r.action \in {"launch", "issue", "author"} -> TRUE
    [] r.action = "judge" -> r.author = NoId \/ r.author # r.id
    [] r.action = "tool" -> r.thing \in r.list
    [] r.action = "execute" -> r.flag
    [] r.action = "write" -> r.list = {} \/ r.thing \in r.list
    [] r.action = "gate" -> r.kind = "human" \/ r.flag

\* CedarPolicy: denied unless one of these policies permits it: P-issue, P-launch, P-author,
\* P-judge, P-tool-declared, P-execute, P-write-ownership, P-gate-human, P-gate-auto.
CedarAllows(r) ==
  \/ r.action = "issue"
  \/ r.action = "launch"
  \/ r.action = "author" /\ r.kind = "side"
  \/ r.action = "judge" /\ r.kind = "side" /\ (r.author # NoId => r.author # r.id)
  \/ r.action = "tool" /\ r.kind = "side" /\ r.thing \in r.list
  \/ r.action = "execute" /\ r.flag
  \/ r.action = "write" /\ (r.list = {} \/ r.thing \in r.list)
  \/ r.action = "gate" /\ r.kind = "human"
  \/ r.action = "gate" /\ r.kind = "side" /\ r.flag

Decides(engine, r) == IF engine = "cedar" THEN CedarAllows(r) ELSE StepAllows(r)

\* The two engines give the same answer to every request in Cedar's schema, so that the engine a
\* profile names changes nothing (cedar_policy.py: one rule set, two engines).
EnginesAgree == \A r \in Requests : InSchema(r) => (StepAllows(r) <=> CedarAllows(r))
==============================================================================
