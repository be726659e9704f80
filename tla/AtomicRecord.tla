---------------------------- MODULE AtomicRecord ----------------------------
(***************************************************************************)
(* What state/run.py promises of state.json.  `RunState.update` is one     *)
(* indivisible change of the record: a call that raises, or whose process  *)
(* dies before the change, leaves nothing behind.  `RunState.save` writes  *)
(* the record its caller read at some earlier instant, with its own        *)
(* change: what others changed since is gone.  StateRecord, the protocol   *)
(* of state/lock.py and state/run.py, implements this module.              *)
(***************************************************************************)
EXTENDS Naturals

CONSTANTS Procs,      \* the processes that hold the run folder
          Threads,    \* the threads that write the record
          ProcOf,     \* the process of each thread
          Savers,     \* the threads that also write with `save`
          MaxCalls    \* bound: the calls one thread makes

VARIABLES record,     \* the changes the record holds
          held,       \* the record each saver has read
          calls,      \* the calls each thread has made
          phase,      \* where each thread's call stands
          returned    \* the changes whose call returned to its caller

avars == <<record, held, calls, phase, returned>>

\* The change a thread's current call makes: no two calls make the same one.
Change(t) == <<t, calls[t]>>

Enter(t, ph) == phase' = [phase EXCEPT ![t] = ph]
Forget(t) == held' = [held EXCEPT ![t] = {}]

AInit ==
  /\ record = {}
  /\ held = [t \in Threads |-> {}]
  /\ calls = [t \in Threads |-> 0]
  /\ phase = [t \in Threads |-> "idle"]
  /\ returned = {}

ACall(t) ==
  /\ phase[t] = "idle" /\ calls[t] < MaxCalls
  /\ calls' = [calls EXCEPT ![t] = @ + 1]
  /\ Enter(t, "called")
  /\ UNCHANGED <<record, held, returned>>

\* A saver reads the record ...
ARead(t) ==
  /\ t \in Savers /\ phase[t] = "idle"
  /\ held' = [held EXCEPT ![t] = record]
  /\ Enter(t, "held")
  /\ UNCHANGED <<record, calls, returned>>

\* ... and later calls `save` with what it read and its own change.
ASave(t) ==
  /\ phase[t] = "held" /\ calls[t] < MaxCalls
  /\ calls' = [calls EXCEPT ![t] = @ + 1]
  /\ held' = [held EXCEPT ![t] = @ \union {<<t, calls'[t]>>}]
  /\ Enter(t, "saves")
  /\ UNCHANGED <<record, returned>>

\* The whole change, at one instant.
AApply(t) ==
  /\ phase[t] = "called"
  /\ record' = record \union {Change(t)}
  /\ Enter(t, "applied")
  /\ UNCHANGED <<held, calls, returned>>

AOverwrite(t) ==
  /\ phase[t] = "saves"
  /\ record' = held[t]
  /\ Enter(t, "applied") /\ Forget(t)
  /\ UNCHANGED <<calls, returned>>

\* The call raised: no change.
AFail(t) ==
  /\ phase[t] \in {"called", "saves"}
  /\ Enter(t, "failed") /\ Forget(t)
  /\ UNCHANGED <<record, calls, returned>>

AReturn(t) ==
  /\ phase[t] \in {"applied", "failed"}
  /\ Enter(t, "idle")
  /\ returned' = IF phase[t] = "applied" THEN returned \union {Change(t)} ELSE returned
  /\ UNCHANGED <<record, held, calls>>

\* A process dies with every call its threads had open.
ADie(p) ==
  /\ phase' = [t \in Threads |-> IF ProcOf[t] = p THEN "idle" ELSE phase[t]]
  /\ held' = [t \in Threads |-> IF ProcOf[t] = p THEN {} ELSE held[t]]
  /\ UNCHANGED <<record, calls, returned>>

ANext ==
  \/ \E t \in Threads : \/ ACall(t) \/ ARead(t) \/ ASave(t) \/ AApply(t) \/ AOverwrite(t)
                        \/ AFail(t) \/ AReturn(t)
  \/ \E p \in Procs : ADie(p)

ASpec == AInit /\ [][ANext]_avars
=============================================================================
