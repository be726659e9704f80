----------------------------- MODULE StateRecord -----------------------------
(***************************************************************************)
(* state.json and its writers (state/lock.py, state/run.py).  A writer     *)
(* takes flock on state.json.lock, reads the record, changes it, stages    *)
(* the text beside the target under a name made of the PROCESS id, and     *)
(* renames it over the target.  Threads of one process share the staging   *)
(* name; threads of all processes share the lock.  A process may die       *)
(* between any two steps: the kernel drops its lock, the staged file       *)
(* stays, and a later process may carry the same id.                       *)
(*                                                                         *)
(* A record is the set of changes it holds.  `RunState.update` reads the   *)
(* record under the lock; `RunState.save` writes a copy its caller loaded  *)
(* earlier with no lock, as the report and coverage steps do.              *)
(*                                                                         *)
(* A definition marked (mutant) is used by no specification: it is a       *)
(* plausible mistake in the definition below it, which a property must     *)
(* refuse.                                                                 *)
(***************************************************************************)
EXTENDS Naturals

CONSTANTS Procs, Threads, ProcOf, MaxCalls,
          Savers,       \* the threads that also write with `save`
          MaxCrashes,   \* bound: how often a process dies
          NoThread      \* nobody holds the lock

ASSUME ThreadsAssumption == ProcOf \in [Threads -> Procs]
ASSUME SaversAssumption == Savers \subseteq Threads
ASSUME BoundsAssumption == MaxCalls \in Nat /\ MaxCrashes \in Nat
ASSUME NoThreadAssumption == NoThread \notin Threads

Changes == Threads \X (0..MaxCalls)

\* A file: not there, opened for writing and not yet written, or whole.
Files == [is : {"absent", "torn", "whole"}, holds : SUBSET Changes]
Absent == [is |-> "absent", holds |-> {}]
Torn == [is |-> "torn", holds |-> {}]
Whole(changes) == [is |-> "whole", holds |-> changes]

VARIABLES file,      \* state.json
          staged,    \* per process, the temporary file beside it
          lock,      \* the thread that holds flock on state.json.lock
          pc,        \* where each thread stands in its call
          copy,      \* the record each thread holds in memory
          stale,     \* the threads whose call is a `save` of such a copy
          calls,     \* the calls each thread has made
          returned,  \* (history) the changes whose call returned to its caller
          gone,      \* (history) the changes a save took out of the file
          crashes    \* (bound) the deaths so far

vars == <<file, staged, lock, pc, copy, stale, calls, returned, gone, crashes>>

Labels == {"idle", "held", "wait", "saving", "load", "mutate", "stage", "write",
           "replace", "unlock", "raise"}
InLock == {"load", "mutate", "stage", "write", "replace", "unlock", "raise"}

Change(t) == <<t, calls[t]>>
Goto(t, label) == pc' = [pc EXCEPT ![t] = label]

Init ==
  /\ file = Whole({})
  /\ staged = [p \in Procs |-> Absent]
  /\ lock = NoThread
  /\ pc = [t \in Threads |-> "idle"]
  /\ copy = [t \in Threads |-> {}] /\ stale = {}
  /\ calls = [t \in Threads |-> 0]
  /\ returned = {} /\ gone = {}
  /\ crashes = 0

\* `RunState.update(paths, fn)`: nothing is read before the lock.
Update(t) ==
  /\ pc[t] = "idle" /\ calls[t] < MaxCalls
  /\ calls' = [calls EXCEPT ![t] = @ + 1]
  /\ Goto(t, "wait")
  /\ UNCHANGED <<file, staged, lock, copy, returned, gone, crashes, stale>>

\* The step's context loads the record with no lock, before the step's function runs.
Snapshot(t) ==
  /\ t \in Savers /\ pc[t] = "idle" /\ calls[t] < MaxCalls
  /\ file.is = "whole"
  /\ copy' = [copy EXCEPT ![t] = file.holds]
  /\ Goto(t, "held")
  /\ UNCHANGED <<file, staged, lock, calls, returned, gone, crashes, stale>>

\* `ctx.state.carried = ...; ctx.state.save(paths)`: the change is made on that copy.
Save(t) ==
  /\ pc[t] = "held" /\ calls[t] < MaxCalls
  /\ calls' = [calls EXCEPT ![t] = @ + 1]
  /\ copy' = [copy EXCEPT ![t] = @ \union {<<t, calls'[t]>>}]
  /\ stale' = stale \union {t} /\ Goto(t, "saving")
  /\ UNCHANGED <<file, staged, lock, returned, gone, crashes>>

\* (mutant) `save` writes with no lock.
LockUnlessSaving(t) ==
  \/ /\ pc[t] = "saving" /\ Goto(t, "stage")
     /\ UNCHANGED <<file, staged, lock, copy, calls, returned, gone, crashes, stale>>
  \/ /\ pc[t] = "wait" /\ lock = NoThread /\ lock' = t /\ Goto(t, "load")
     /\ UNCHANGED <<file, staged, copy, calls, returned, gone, crashes, stale>>

\* flock(LOCK_EX): each call opens its own descriptor, so threads of one process exclude
\* each other too.  A saver that already holds its copy goes straight to the write.
Lock(t) ==
  /\ pc[t] \in {"wait", "saving"} /\ lock = NoThread
  /\ lock' = t
  /\ Goto(t, IF pc[t] = "saving" THEN "stage" ELSE "load")
  /\ UNCHANGED <<file, staged, copy, calls, returned, gone, crashes, stale>>

\* `load` parses the whole file: a torn one raises.
Load(t) ==
  /\ pc[t] = "load"
  /\ IF file.is = "whole"
       THEN Goto(t, "mutate") /\ copy' = [copy EXCEPT ![t] = file.holds]
       ELSE Goto(t, "raise") /\ UNCHANGED copy
  /\ UNCHANGED <<file, staged, lock, calls, returned, gone, crashes, stale>>

\* `fn(st)` changes the copy.
Mutate(t) ==
  /\ pc[t] = "mutate"
  /\ copy' = [copy EXCEPT ![t] = @ \union {Change(t)}]
  /\ Goto(t, "stage")
  /\ UNCHANGED <<file, staged, lock, calls, returned, gone, crashes, stale>>

\* (mutant) What comes after the rename may raise too.
RaiseLate(t) ==
  /\ pc[t] \in {"mutate", "write", "replace", "unlock"}
  /\ Goto(t, "raise")
  /\ UNCHANGED <<file, staged, lock, copy, calls, returned, gone, crashes, stale>>

\* `fn(st)` raises (a step never issued, a ceiling nobody knows), or the disk refuses the
\* write or the rename: nothing of this call reaches the target.
Raise(t) ==
  /\ pc[t] \in {"mutate", "write", "replace"}
  /\ Goto(t, "raise")
  /\ UNCHANGED <<file, staged, lock, copy, calls, returned, gone, crashes, stale>>

\* write_text opens the temporary file, which truncates what an earlier death left there ...
Stage(t) ==
  /\ pc[t] = "stage"
  /\ staged' = [staged EXCEPT ![ProcOf[t]] = Torn]
  /\ Goto(t, "write")
  /\ UNCHANGED <<file, lock, copy, calls, returned, gone, crashes, stale>>

\* ... and writes the text.
Write(t) ==
  /\ pc[t] = "write"
  /\ staged' = [staged EXCEPT ![ProcOf[t]] = Whole(copy[t])]
  /\ Goto(t, "replace")
  /\ UNCHANGED <<file, lock, copy, calls, returned, gone, crashes, stale>>

\* os.replace: the temporary file becomes the target; it raises when there is none.
Replace(t) ==
  /\ pc[t] = "replace"
  /\ IF staged[ProcOf[t]].is = "absent"
       THEN Goto(t, "raise") /\ UNCHANGED <<file, staged, gone>>
       ELSE /\ file' = staged[ProcOf[t]]
            /\ gone' = IF t \in stale THEN gone \union (file.holds \ file'.holds) ELSE gone
            /\ staged' = [staged EXCEPT ![ProcOf[t]] = Absent]
            /\ Goto(t, "unlock")
  /\ UNCHANGED <<lock, copy, calls, returned, crashes, stale>>

\* (mutant) The lock is given back on the normal way out only.
UnlockOnReturn(t) ==
  /\ pc[t] = "unlock"
  /\ lock' = NoThread
  /\ returned' = returned \union {Change(t)}
  /\ copy' = [copy EXCEPT ![t] = {}] /\ stale' = stale \ {t}
  /\ Goto(t, "idle")
  /\ UNCHANGED <<file, staged, calls, gone, crashes>>

\* The finally of `locked`, on the normal way out and on the way of an exception.
Unlock(t) ==
  /\ pc[t] \in {"unlock", "raise"}
  /\ lock' = NoThread
  /\ returned' = IF pc[t] = "unlock" THEN returned \union {Change(t)} ELSE returned
  /\ copy' = [copy EXCEPT ![t] = {}] /\ stale' = stale \ {t}
  /\ Goto(t, "idle")
  /\ UNCHANGED <<file, staged, calls, gone, crashes>>

\* A process dies: its threads are gone, the kernel drops its lock, its staged file stays.
Die(p) ==
  /\ crashes < MaxCrashes
  /\ crashes' = crashes + 1
  /\ pc' = [t \in Threads |-> IF ProcOf[t] = p THEN "idle" ELSE pc[t]]
  /\ stale' = {t \in stale : ProcOf[t] # p}
  /\ copy' = [t \in Threads |-> IF ProcOf[t] = p THEN {} ELSE copy[t]]
  /\ lock' = IF lock \in {t \in Threads : ProcOf[t] = p} THEN NoThread ELSE lock
  /\ UNCHANGED <<file, staged, calls, returned, gone>>

Step(t) == \/ Lock(t) \/ Load(t) \/ Mutate(t) \/ Raise(t)
           \/ Stage(t) \/ Write(t) \/ Replace(t) \/ Unlock(t)

Next ==
  \/ \E t \in Threads : Update(t) \/ Snapshot(t) \/ Save(t) \/ Step(t)
  \/ \E p \in Procs : Die(p)

Spec == Init /\ [][Next]_vars

\* A thread inside the lock keeps running while its process lives.
FairSpec == Spec /\ \A t \in Threads : WF_vars(pc[t] \in InLock /\ Step(t))

------------------------------------------------------------------------------
\* Every variable holds a value of its kind.
TypeOK ==
  /\ file \in Files
  /\ staged \in [Procs -> Files]
  /\ lock \in Threads \union {NoThread}
  /\ pc \in [Threads -> Labels]
  /\ copy \in [Threads -> SUBSET Changes] /\ stale \subseteq Threads
  /\ calls \in [Threads -> 0..MaxCalls]
  /\ returned \subseteq Changes /\ gone \subseteq Changes
  /\ crashes \in 0..MaxCrashes

\* A thread works on the record only while it holds the lock, and the lock belongs to a
\* thread that is at work: a raise or a death never leaves it taken (state/lock.py `locked`).
LockOwned == \A t \in Threads : pc[t] \in InLock <=> lock = t

\* Whatever dies between two steps of a write, state.json is whole: no reader, lock or no
\* lock, ever sees a half-written record (state/lock.py `atomic_write_text`).
NeverTorn == file.is = "whole"

\* A change whose call returned is in the record, or a `save` took it out whose copy was older:
\* two steps finishing at once do not lose each other's records (state/run.py `RunState.update`).
NoLostUpdate == returned \subseteq file.holds \union gone

\* The record grows by the change of one open call at a time, and a change of a call that
\* raised never appears; only a `save` takes changes of others back, those made since its
\* thread loaded the record (state/run.py `RunState.update`, `RunState.save`).
OnlySaveDrops ==
  [][\/ file' = file
     \/ \E t \in Threads : /\ pc[t] = "replace"
                          /\ \/ file' = Whole(file.holds \union {Change(t)})
                             \/ t \in stale /\ file' = Whole(copy[t])]_vars

\* Whoever holds the lock gives it back, by its own steps or by its process dying: no
\* writer of state.json waits for one that is gone (state/lock.py `locked`).
LockGivenBack == \A t \in Threads : (lock = t) ~> (lock # t)

\* The protocol implements one indivisible change per call.
PhaseOf(t) ==
  CASE pc[t] \in {"idle", "held"} -> pc[t]
    [] pc[t] = "unlock" -> "applied"
    [] pc[t] = "raise" -> "failed"
    [] OTHER -> IF t \in stale THEN "saves" ELSE "called"

HeldBy(t) == IF PhaseOf(t) \in {"held", "saves"} THEN copy[t] ELSE {}

Atomic == INSTANCE AtomicRecord WITH
  record <- file.holds,
  phase <- [t \in Threads |-> PhaseOf(t)],
  held <- [t \in Threads |-> HeldBy(t)]

\* `RunState.update` is atomic, and `RunState.save` is no worse than one overwrite with what
\* its caller had read: this specification implements AtomicRecord.
ImplementsAtomic == Atomic!ASpec
==============================================================================
