-------------------------- MODULE StateRecordProofs --------------------------
(***************************************************************************)
(* What holds of state.json for any number of processes, threads, calls    *)
(* and deaths, whoever writes it and how: the record is never torn, and    *)
(* the protocol implements AtomicRecord.  A returned change leaves the     *)
(* record only by a `RunState.save` of an older copy.                      *)
(***************************************************************************)
EXTENDS StateRecord, TLAPS

USE ThreadsAssumption, SaversAssumption, BoundsAssumption, NoThreadAssumption

\* Every variable keeps a value of its kind, in every step of the protocol.
THEOREM TypeCorrect == Spec => []TypeOK
<1>1. Init => TypeOK
  BY DEF Init, TypeOK, Files, Whole, Absent, Labels, Changes
<1>2. TypeOK /\ [Next]_vars => TypeOK'
  <2> SUFFICES ASSUME TypeOK, [Next]_vars PROVE TypeOK'
    OBVIOUS
  <2> USE DEF TypeOK, Labels, Goto
  <2>1. ASSUME NEW t \in Threads, Update(t) PROVE TypeOK'
    BY <2>1 DEF Update
  <2>2. ASSUME NEW t \in Threads, Snapshot(t) PROVE TypeOK'
    BY <2>2 DEF Snapshot, Files
  <2>3. ASSUME NEW t \in Threads, Save(t) PROVE TypeOK'
    BY <2>3 DEF Save, Changes
  <2>4. ASSUME NEW t \in Threads, Lock(t) PROVE TypeOK'
    BY <2>4 DEF Lock
  <2>5. ASSUME NEW t \in Threads, Load(t) PROVE TypeOK'
    BY <2>5 DEF Load, Files
  <2>6. ASSUME NEW t \in Threads, Mutate(t) PROVE TypeOK'
    BY <2>6 DEF Mutate, Changes, Change
  <2>7. ASSUME NEW t \in Threads, Raise(t) PROVE TypeOK'
    BY <2>7 DEF Raise
  <2>8. ASSUME NEW t \in Threads, Stage(t) PROVE TypeOK'
    BY <2>8 DEF Stage, Files, Torn
  <2>9. ASSUME NEW t \in Threads, Write(t) PROVE TypeOK'
    BY <2>9 DEF Write, Files, Whole
  <2>10. ASSUME NEW t \in Threads, Replace(t) PROVE TypeOK'
    <3>1. ProcOf[t] \in Procs /\ staged[ProcOf[t]] \in Files /\ Absent \in Files
      BY DEF Files, Absent
    <3>2. file.holds \subseteq Changes
      BY DEF Files
    <3>3. gone' = gone \/ gone' = gone \union (file.holds \ file'.holds)
      BY <2>10 DEF Replace
    <3>4. gone' \subseteq Changes
      BY <3>2, <3>3
    <3>5. /\ file' \in {file, staged[ProcOf[t]]} /\ pc' \in [Threads -> Labels]
          /\ staged' \in {staged, [staged EXCEPT ![ProcOf[t]] = Absent]}
          /\ UNCHANGED <<lock, copy, calls, returned, stale, crashes>>
      BY <2>10 DEF Replace
    <3> QED
      BY <3>1, <3>4, <3>5
  <2>11. ASSUME NEW t \in Threads, Unlock(t) PROVE TypeOK'
    BY <2>11 DEF Unlock, Changes, Change
  <2>12. ASSUME NEW p \in Procs, Die(p) PROVE TypeOK'
    BY <2>12 DEF Die
  <2>13. CASE UNCHANGED vars
    BY <2>13 DEF vars
  <2> QED
    BY <2>1, <2>2, <2>3, <2>4, <2>5, <2>6, <2>7, <2>8, <2>9, <2>10, <2>11, <2>12, <2>13
    DEF Next, Step
<1> QED
  BY <1>1, <1>2, PTL DEF Spec

\* A thread about to rename has its own text under the staging name of its process: no
\* other thread of that process came between, because staging happens inside the lock.
StagedIsMine ==
  \A t \in Threads : pc[t] = "replace" => staged[ProcOf[t]] = Whole(copy[t])

SafeInv == LockOwned /\ StagedIsMine /\ NeverTorn

LEMMA SafeInvStep == TypeOK /\ SafeInv /\ [Next]_vars => SafeInv'
<1> SUFFICES ASSUME TypeOK, SafeInv, [Next]_vars PROVE SafeInv'
  OBVIOUS
<1> USE DEF TypeOK, SafeInv, LockOwned, StagedIsMine, NeverTorn, Goto, InLock, Labels
<1>1. ASSUME NEW t \in Threads, Update(t) PROVE SafeInv'
  BY <1>1 DEF Update
<1>2. ASSUME NEW t \in Threads, Snapshot(t) PROVE SafeInv'
  BY <1>2 DEF Snapshot
<1>3. ASSUME NEW t \in Threads, Save(t) PROVE SafeInv'
  BY <1>3 DEF Save
<1>4. ASSUME NEW t \in Threads, Lock(t) PROVE SafeInv'
  BY <1>4 DEF Lock
<1>5. ASSUME NEW t \in Threads, Load(t) PROVE SafeInv'
  BY <1>5 DEF Load
<1>6. ASSUME NEW t \in Threads, Mutate(t) PROVE SafeInv'
  BY <1>6 DEF Mutate
<1>7. ASSUME NEW t \in Threads, Raise(t) PROVE SafeInv'
  BY <1>7 DEF Raise
<1>8. ASSUME NEW t \in Threads, Stage(t) PROVE SafeInv'
  BY <1>8 DEF Stage
<1>9. ASSUME NEW t \in Threads, Write(t) PROVE SafeInv'
  BY <1>9 DEF Write
<1>10. ASSUME NEW t \in Threads, Replace(t) PROVE SafeInv'
  <2>1. staged[ProcOf[t]] = Whole(copy[t])
    BY <1>10 DEF Replace
  <2>2. file' = Whole(copy[t]) /\ pc' = [pc EXCEPT ![t] = "unlock"]
    BY <1>10, <2>1 DEF Replace, Whole
  <2>3. LockOwned'
    BY <1>10, <2>2 DEF Replace
  <2>4. StagedIsMine'
    BY <1>10, <2>2 DEF Replace
  <2>5. NeverTorn'
    BY <2>2 DEF Whole
  <2> QED
    BY <2>3, <2>4, <2>5
<1>11. ASSUME NEW t \in Threads, Unlock(t) PROVE SafeInv'
  BY <1>11 DEF Unlock
<1>12. ASSUME NEW p \in Procs, Die(p) PROVE SafeInv'
  BY <1>12 DEF Die
<1>13. CASE UNCHANGED vars
  BY <1>13 DEF vars
<1> QED
  BY <1>1, <1>2, <1>3, <1>4, <1>5, <1>6, <1>7, <1>8, <1>9, <1>10, <1>11, <1>12, <1>13
  DEF Next, Step

LEMMA SafeInvariant == Spec => [](TypeOK /\ SafeInv)
<1>1. Init => SafeInv
  BY DEF Init, SafeInv, LockOwned, StagedIsMine, NeverTorn, InLock, Whole
<1> QED
  BY <1>1, TypeCorrect, SafeInvStep, PTL DEF Spec

\* `locked`: at most one thread of all processes is inside, and the lock never outlives the
\* call or the process that took it.
THEOREM MutualExclusion == Spec => []LockOwned
BY SafeInvariant, PTL DEF SafeInv

\* `atomic_write_text`: state.json is whole at every instant, whatever dies, and also when
\* stale copies are saved.
THEOREM WholeFile == Spec => []NeverTorn
BY SafeInvariant, PTL DEF SafeInv

------------------------------------------------------------------------------
\* A thread's copy is the record it read plus, after `fn`, its own change: the record cannot
\* move under it.  A saver's copy may be old, but holds its change.
CopyIsCurrent ==
  \A t \in Threads :
    /\ pc[t] \in {"idle", "held", "wait", "load", "mutate"} => t \notin stale
    /\ pc[t] = "saving" => t \in stale
    /\ t \in stale \/ pc[t] = "held" => t \in Savers
    /\ pc[t] = "mutate" => copy[t] = file.holds
    /\ pc[t] \in {"stage", "write", "replace"} /\ t \notin stale => copy[t] = file.holds \union {Change(t)}
    /\ pc[t] \in {"saving", "stage", "write", "replace"} /\ t \in stale => Change(t) \in copy[t]
    /\ pc[t] = "unlock" => Change(t) \in file.holds

\* The rename publishes the copy of the thread that renames.
LEMMA ReplacePublishes ==
  ASSUME TypeOK, SafeInv, NEW t \in Threads, Replace(t)
  PROVE  /\ file' = Whole(copy[t])
         /\ pc' = [pc EXCEPT ![t] = "unlock"]
         /\ UNCHANGED <<lock, copy, calls, returned, crashes, stale>>
<1>1. staged[ProcOf[t]] = Whole(copy[t])
  BY DEF SafeInv, StagedIsMine, Replace
<1> QED
  BY <1>1 DEF Replace, Whole, Goto

LEMMA CopyStep == TypeOK /\ SafeInv /\ CopyIsCurrent /\ [Next]_vars => CopyIsCurrent'
<1> SUFFICES ASSUME TypeOK, SafeInv, CopyIsCurrent, [Next]_vars PROVE CopyIsCurrent'
  OBVIOUS
<1> USE DEF TypeOK, CopyIsCurrent, Goto, Change
<1>1. ASSUME NEW t \in Threads, Update(t) PROVE CopyIsCurrent'
  BY <1>1 DEF Update
<1>2. ASSUME NEW t \in Threads, Snapshot(t) PROVE CopyIsCurrent'
  BY <1>2 DEF Snapshot
<1>3. ASSUME NEW t \in Threads, Save(t) PROVE CopyIsCurrent'
  BY <1>3 DEF Save
<1>4. ASSUME NEW t \in Threads, Lock(t) PROVE CopyIsCurrent'
  BY <1>4 DEF Lock
<1>5. ASSUME NEW t \in Threads, Load(t) PROVE CopyIsCurrent'
  BY <1>5 DEF Load
<1>6. ASSUME NEW t \in Threads, Mutate(t) PROVE CopyIsCurrent'
  BY <1>6 DEF Mutate
<1>7. ASSUME NEW t \in Threads, Raise(t) PROVE CopyIsCurrent'
  BY <1>7 DEF Raise
<1>8. ASSUME NEW t \in Threads, Stage(t) PROVE CopyIsCurrent'
  BY <1>8 DEF Stage
<1>9. ASSUME NEW t \in Threads, Write(t) PROVE CopyIsCurrent'
  BY <1>9 DEF Write
<1>10. ASSUME NEW t \in Threads, Replace(t) PROVE CopyIsCurrent'
  <2>1. file'.holds = copy[t] /\ Change(t) \in copy[t]
    BY <1>10, ReplacePublishes DEF Whole, Replace
  <2>2. \A u \in Threads : u # t => pc[u] \notin InLock
    BY <1>10 DEF SafeInv, LockOwned, Replace, InLock
  <2>3. pc' = [pc EXCEPT ![t] = "unlock"] /\ UNCHANGED <<copy, calls, returned, stale>>
    BY <1>10, ReplacePublishes
  <2> QED
    BY <2>1, <2>2, <2>3 DEF InLock
<1>11. ASSUME NEW t \in Threads, Unlock(t) PROVE CopyIsCurrent'
  BY <1>11 DEF Unlock
<1>12. ASSUME NEW p \in Procs, Die(p) PROVE CopyIsCurrent'
  BY <1>12 DEF Die
<1>13. CASE UNCHANGED vars
  BY <1>13 DEF vars
<1> QED
  BY <1>1, <1>2, <1>3, <1>4, <1>5, <1>6, <1>7, <1>8, <1>9, <1>10, <1>11, <1>12, <1>13
  DEF Next, Step

LEMMA CopyInvariant == Spec => [](TypeOK /\ SafeInv /\ CopyIsCurrent)
<1>1. Init => CopyIsCurrent
  BY DEF Init, CopyIsCurrent
<1> QED
  BY <1>1, CopyStep, SafeInvariant, PTL DEF Spec

------------------------------------------------------------------------------
\* `RunState.update`: a change whose call returned is missing from the record only where a `save`
\* of an older copy took it out, whatever processes die in between.
THEOREM NoUpdateIsLost == Spec => []NoLostUpdate
<1>1. Init => NoLostUpdate
  BY DEF Init, NoLostUpdate
<1>2. TypeOK /\ SafeInv /\ CopyIsCurrent /\ NoLostUpdate /\ [Next]_vars => NoLostUpdate'
  <2> SUFFICES ASSUME TypeOK, SafeInv, CopyIsCurrent, NoLostUpdate, [Next]_vars PROVE NoLostUpdate'
    OBVIOUS
  <2> USE DEF NoLostUpdate
  <2>1. ASSUME NEW t \in Threads, Replace(t) PROVE NoLostUpdate'
    <3>1. file'.holds = copy[t] /\ returned' = returned
      BY <2>1, ReplacePublishes DEF Whole
    <3>2. CASE t \notin stale
      <4>1. copy[t] = file.holds \union {Change(t)} /\ gone' = gone
        BY <2>1, <3>2 DEF Replace, CopyIsCurrent
      <4> QED BY <3>1, <4>1
    <3>3. CASE t \in stale
      <4>1. gone' = gone \union (file.holds \ file'.holds)
        BY <2>1, <3>3, ReplacePublishes DEF Replace
      <4> QED BY <4>1, <3>1
    <3> QED BY <3>2, <3>3
  <2>2. ASSUME NEW t \in Threads, Unlock(t) PROVE NoLostUpdate'
    BY <2>2 DEF Unlock, CopyIsCurrent
  <2>3. ASSUME NEW t \in Threads,
               Update(t) \/ Snapshot(t) \/ Save(t) \/ Lock(t) \/ Load(t) \/ Mutate(t)
                 \/ Raise(t) \/ Stage(t) \/ Write(t)
        PROVE  NoLostUpdate'
    BY <2>3 DEF Update, Snapshot, Save, Lock, Load, Mutate, Raise, Stage, Write
  <2>4. ASSUME NEW p \in Procs, Die(p) PROVE NoLostUpdate'
    BY <2>4 DEF Die
  <2>5. CASE UNCHANGED vars
    BY <2>5 DEF vars
  <2> QED
    BY <2>1, <2>2, <2>3, <2>4, <2>5 DEF Next, Step
<1> QED
  BY <1>1, <1>2, CopyInvariant, PTL DEF Spec

\* What leaves the record leaves it by a `save` of an old copy, never by an update.
THEOREM UpdatesOnlyAdd == Spec => OnlySaveDrops
<1>1. TypeOK /\ SafeInv /\ CopyIsCurrent /\ [Next]_vars =>
        \/ file' = file
        \/ \E t \in Threads : /\ pc[t] = "replace"
                             /\ \/ file' = Whole(file.holds \union {Change(t)})
                                \/ t \in stale /\ file' = Whole(copy[t])
  <2> SUFFICES ASSUME TypeOK, SafeInv, CopyIsCurrent, [Next]_vars, file' # file
               PROVE  \E t \in Threads : /\ pc[t] = "replace"
                                        /\ \/ file' = Whole(file.holds \union {Change(t)})
                                           \/ t \in stale /\ file' = Whole(copy[t])
    OBVIOUS
  <2>1. PICK t \in Threads : Replace(t)
    BY DEF Next, Step, Update, Snapshot, Save, Lock, Load, Mutate, Raise, Stage, Write, Unlock, Die, vars
  <2>2. pc[t] = "replace" /\ file' = Whole(copy[t])
    BY <2>1, ReplacePublishes DEF Replace
  <2> QED
    BY <2>2 DEF CopyIsCurrent
<1> QED
  BY <1>1, CopyInvariant, PTL DEF Spec, OnlySaveDrops

\* Each step of the protocol is one step of AtomicRecord or none: `update` is atomic, `save`
\* overwrites with what its caller had read.
THEOREM UpdateIsAtomic == Spec => ImplementsAtomic
<1>1. Init => Atomic!AInit
  BY DEF Init, Atomic!AInit, PhaseOf, HeldBy, Whole
<1>2. TypeOK /\ SafeInv /\ CopyIsCurrent /\ [Next]_vars => [Atomic!ANext]_(Atomic!avars)
  <2> SUFFICES ASSUME TypeOK, SafeInv, CopyIsCurrent, [Next]_vars
               PROVE  [Atomic!ANext]_(Atomic!avars)
    OBVIOUS
  <2> DEFINE Phase == [t \in Threads |-> PhaseOf(t)]
             Held == [t \in Threads |-> HeldBy(t)]
  <2> USE DEF TypeOK, Labels, Goto, Atomic!avars, Atomic!Change, Atomic!Enter, Atomic!Forget, Change
  \* A step that moves one thread moves its phase and what it holds, and no other's.
  <2>m. ASSUME NEW t \in Threads, NEW l \in Labels, Goto(t, l),
               \A u \in Threads : u # t => copy'[u] = copy[u] /\ (u \in stale' <=> u \in stale)
        PROVE  /\ Phase' = [Phase EXCEPT ![t] = PhaseOf(t)']
               /\ Held' = [Held EXCEPT ![t] = HeldBy(t)']
    <3>1. \A u \in Threads : u # t => PhaseOf(u)' = PhaseOf(u) /\ HeldBy(u)' = HeldBy(u)
      BY <2>m DEF PhaseOf, HeldBy
    <3> QED
      BY <3>1
  <2>1. ASSUME NEW t \in Threads, Update(t) PROVE Atomic!ACall(t)
    <3>1. PhaseOf(t) = "idle" /\ PhaseOf(t)' = "called" /\ HeldBy(t) = {} /\ HeldBy(t)' = {}
      BY <2>1 DEF Update, PhaseOf, HeldBy, CopyIsCurrent
    <3>2. Goto(t, "wait") /\ UNCHANGED <<copy, stale>>
      BY <2>1 DEF Update
    <3>3. Phase' = [Phase EXCEPT ![t] = "called"] /\ Held' = [Held EXCEPT ![t] = {}]
      BY <2>m, <3>1, <3>2
    <3>4. Held' = Held
      BY <3>1, <3>3
    <3> QED
      BY <2>1, <3>1, <3>3, <3>4 DEF Update, Atomic!ACall
  <2>2. ASSUME NEW t \in Threads, Snapshot(t) PROVE Atomic!ARead(t)
    <3>1. PhaseOf(t) = "idle" /\ PhaseOf(t)' = "held" /\ HeldBy(t)' = file.holds
      BY <2>2 DEF Snapshot, PhaseOf, HeldBy
    <3>2. Phase' = [Phase EXCEPT ![t] = "held"] /\ Held' = [Held EXCEPT ![t] = file.holds]
      BY <2>2, <2>m, <3>1 DEF Snapshot
    <3> QED
      BY <2>2, <3>1, <3>2 DEF Snapshot, Atomic!ARead
  <2>3. ASSUME NEW t \in Threads, Save(t) PROVE Atomic!ASave(t)
    <3>1. /\ PhaseOf(t) = "held" /\ PhaseOf(t)' = "saves"
          /\ HeldBy(t)' = HeldBy(t) \union {<<t, calls'[t]>>}
      BY <2>3 DEF Save, PhaseOf, HeldBy
    <3>2. /\ Phase' = [Phase EXCEPT ![t] = "saves"]
          /\ Held' = [Held EXCEPT ![t] = @ \union {<<t, calls'[t]>>}]
      BY <2>3, <2>m, <3>1 DEF Save
    <3> QED
      BY <2>3, <3>1, <3>2 DEF Save, Atomic!ASave
  <2>4. ASSUME NEW t \in Threads,
               Lock(t) \/ (Load(t) /\ file.is = "whole") \/ Mutate(t) \/ Stage(t) \/ Write(t)
        PROVE  UNCHANGED Atomic!avars
    <3>1. PICK l \in {"load", "stage", "mutate", "write", "replace"} : Goto(t, l)
      BY <2>4 DEF Lock, Load, Mutate, Stage, Write
    <3>2. pc[t] \in {"wait", "saving", "load", "mutate", "stage", "write"}
      BY <2>4 DEF Lock, Load, Mutate, Stage, Write
    <3>3. /\ UNCHANGED <<stale, calls, returned, file>>
          /\ \A u \in Threads : u # t => copy'[u] = copy[u]
      BY <2>4 DEF Lock, Load, Mutate, Stage, Write
    <3>4. t \in stale => copy'[t] = copy[t]
      BY <2>4 DEF Lock, Load, Mutate, Stage, Write, CopyIsCurrent
    <3>5. PhaseOf(t)' = PhaseOf(t) /\ HeldBy(t)' = HeldBy(t)
      BY <3>1, <3>2, <3>3, <3>4 DEF PhaseOf, HeldBy
    <3>6. Phase' = Phase /\ Held' = Held
      BY <2>m, <3>1, <3>3, <3>5
    <3> QED
      BY <3>3, <3>6
  <2>5. ASSUME NEW t \in Threads, Raise(t) PROVE Atomic!AFail(t)
    <3>1. PhaseOf(t) \in {"called", "saves"} /\ PhaseOf(t)' = "failed" /\ HeldBy(t)' = {}
      BY <2>5 DEF Raise, PhaseOf, HeldBy
    <3>2. Phase' = [Phase EXCEPT ![t] = "failed"] /\ Held' = [Held EXCEPT ![t] = {}]
      BY <2>5, <2>m, <3>1 DEF Raise
    <3> QED
      BY <2>5, <3>1, <3>2 DEF Raise, Atomic!AFail
  <2>6. ASSUME NEW t \in Threads, Replace(t) PROVE Atomic!AApply(t) \/ Atomic!AOverwrite(t)
    <3>1. Goto(t, "unlock") /\ UNCHANGED <<copy, calls, returned, stale>> /\ file'.holds = copy[t]
      BY <2>6, ReplacePublishes DEF Whole
    <3>2. PhaseOf(t)' = "applied" /\ HeldBy(t)' = {}
      BY <3>1 DEF PhaseOf, HeldBy
    <3>3. Phase' = [Phase EXCEPT ![t] = "applied"] /\ Held' = [Held EXCEPT ![t] = {}]
      BY <2>m, <3>1, <3>2
    <3>4. CASE t \in stale
      <4>1. PhaseOf(t) = "saves" /\ HeldBy(t) = copy[t]
        BY <2>6, <3>4 DEF Replace, PhaseOf, HeldBy
      <4> QED
        BY <3>1, <3>3, <4>1 DEF Atomic!AOverwrite
    <3>5. CASE t \notin stale
      <4>1. PhaseOf(t) = "called" /\ HeldBy(t) = {}
        BY <2>6, <3>5 DEF Replace, PhaseOf, HeldBy
      <4>2. Held' = Held
        BY <3>3, <4>1
      <4>3. copy[t] = file.holds \union {Change(t)}
        BY <2>6, <3>5 DEF Replace, CopyIsCurrent
      <4> QED
        BY <3>1, <3>3, <4>1, <4>2, <4>3 DEF Atomic!AApply
    <3> QED
      BY <3>4, <3>5
  <2>7. ASSUME NEW t \in Threads, Unlock(t) PROVE Atomic!AReturn(t)
    <3>1. /\ PhaseOf(t) = IF pc[t] = "unlock" THEN "applied" ELSE "failed"
          /\ PhaseOf(t)' = "idle" /\ HeldBy(t) = {} /\ HeldBy(t)' = {}
      BY <2>7 DEF Unlock, PhaseOf, HeldBy
    <3>2. Phase' = [Phase EXCEPT ![t] = "idle"] /\ Held' = Held
      BY <2>7, <2>m, <3>1 DEF Unlock
    <3> QED
      BY <2>7, <3>1, <3>2 DEF Unlock, Atomic!AReturn
  <2>8. ASSUME NEW p \in Procs, Die(p) PROVE Atomic!ADie(p)
    <3>1. \A u \in Threads : /\ ProcOf[u] = p => PhaseOf(u)' = "idle" /\ HeldBy(u)' = {}
                             /\ ProcOf[u] # p => PhaseOf(u)' = PhaseOf(u) /\ HeldBy(u)' = HeldBy(u)
      BY <2>8 DEF Die, PhaseOf, HeldBy
    <3> QED
      BY <2>8, <3>1 DEF Die, Atomic!ADie
  <2>9. CASE UNCHANGED vars
    BY <2>9 DEF vars, PhaseOf, HeldBy
  <2> QED
    BY <2>1, <2>2, <2>3, <2>4, <2>5, <2>6, <2>7, <2>8, <2>9
    DEF Next, Step, Atomic!ANext, SafeInv, NeverTorn, Load
<1> QED
  BY <1>1, <1>2, CopyInvariant, PTL DEF Spec, ImplementsAtomic, Atomic!ASpec
==============================================================================
