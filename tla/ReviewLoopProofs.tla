--------------------------- MODULE ReviewLoopProofs ---------------------------
(***************************************************************************)
(* The review loop for any cap, filings, decisions and history of deaths   *)
(* and undone steps.                                                       *)
(***************************************************************************)
EXTENDS ReviewLoop, FiniteSetTheorems, WellFoundedInduction, TLAPS

USE CapAssumption, BoundsAssumption

------------------------------------------------------------------------------
(* Helpers: the largest number of a bounded set, and finite sets of findings. *)

LEMMA LeastOfNaturals ==
  ASSUME NEW T \in SUBSET Nat, T # {}
  PROVE  \E x \in T : \A y \in T : x <= y
<1>1. PICK x \in T : \A y \in T : <<y, x>> \notin OpToRel(<, Nat)
  BY NatLessThanWellFounded, WFMin
<1>2. \A y \in T : ~(y < x)
  BY <1>1 DEF OpToRel
<1> QED
  BY <1>2

\* `next_id` and the last version: Max is what it says.
LEMMA MaxOfBounded ==
  ASSUME NEW S \in SUBSET Nat, S # {}, NEW b \in Nat, \A x \in S : x <= b
  PROVE  Max(S) \in S /\ \A x \in S : x <= Max(S)
<1> DEFINE U == {c \in Nat : \A x \in S : x <= c}
<1>1. PICK c \in U : \A d \in U : c <= d
  BY LeastOfNaturals
<1>2. c \in S
  <2>1. SUFFICES ASSUME c \notin S PROVE FALSE
    OBVIOUS
  <2>2. \A x \in S : x < c
    BY <2>1, <1>1
  <2>3. c # 0
    <3>1. PICK x \in S : TRUE
      OBVIOUS
    <3> QED
      BY <2>2, <3>1
  <2>4. c - 1 \in U
    BY <2>2, <2>3
  <2> QED
    BY <1>1, <2>4
<1> HIDE DEF U
<1>3. \E x \in S : \A y \in S : x >= y
  BY <1>1, <1>2 DEF U
<1>4. Max(S) \in S /\ \A y \in S : Max(S) >= y
  BY <1>3 DEF Max
<1> QED
  BY <1>4

------------------------------------------------------------------------------
(* The inductive invariant: what the files hold. *)

Labels == {"idle", "landed", "store", "record"}

\* Every variable holds a value of its kind ...
Kinds ==
  /\ filed \in [Rounds -> Seq(Finding) \union {None}]
  /\ arbitrated \in [Rounds -> Nat \union {None}]
  /\ versions \subseteq [number : Nat, holds : SUBSET Nat]
  /\ done \subseteq Steps /\ undone \subseteq Steps /\ step \in Steps /\ pc \in Labels
  /\ answers \in Nat /\ read \in [Rounds -> Nat] /\ decider \in [Rounds -> Nat]
  /\ lost \subseteq Rounds /\ faults \in 0..MaxFaults

\* ... and ids and version numbers are bounded.
IdsBounded == \E b \in Nat : \A f \in AllRunFindings : f.id <= b
NumbersBounded == \E b \in Nat : \A v \in versions : v.number <= b
TypeOK == Kinds /\ IdsBounded /\ NumbersBounded

\* What a death leaves behind is no step at work; the others are of their kind.
StepInHand ==
  /\ pc \in {"store", "record"} => step[1] = "arbitrate"
  /\ pc # "idle" /\ step[1] = "arbitrate" => step[2] \in 1..Cap

\* Until the closing read nothing is carried, and in it nothing is open.
ClosingIsCarried ==
  \A n \in Rounds : \A f \in FindingsOf(n) : (f.status = "carried") <=> Closing(n)

------------------------------------------------------------------------------
(* The order of the rounds, as long as no review is undone.                  *)

Reviewed(n) == <<"review", n>> \notin undone

\* An arbitration at work or on file has decided everything.
ArbitratedIsDecided ==
  \A n \in Rounds :
    /\ Reviewed(n)
    /\ arbitrated[n] # None \/ (pc # "idle" /\ step = <<"arbitrate", n>>)
    => <<"review", n>> \in done /\ \A f \in FindingsOf(n) : f.status # "open"

\* A round on file comes after rounds that are over: read, with findings, every one decided.
EarlierIsOver ==
  \A n \in Rounds : ~Missing(n) /\ (\A k \in 1..(n - 1) : Reviewed(k)) =>
    \A k \in 1..(n - 1) :
      /\ <<"review", k>> \in done
      /\ ~Missing(k) /\ filed[k] # <<>>
      /\ \A f \in FindingsOf(k) : f.status # "open"

RoundsInv == ClosingIsCarried /\ ArbitratedIsDecided /\ EarlierIsOver /\ NoThirdExchange

------------------------------------------------------------------------------
(* What was read.                                                            *)

\* Every earlier round's arbitration is over, or was undone.
Before(n) == \A k \in 1..(n - 1) : <<"arbitrate", k>> \in done \union undone

ArbitratedBefore ==
  \A n \in Rounds :
    ~Missing(n) \/ {<<"review", n>>, <<"arbitrate", n>>} \intersect done # {} \/ (pc # "idle" /\ step[2] = n)
      => Before(n)

\* No version is stored once a round is on file that nobody arbitrates.
LastReadIsLatest ==
  \A n \in Rounds : ~Missing(n) /\ (filed[n] = <<>> \/ Closing(n)) =>
    read[n] = Latest /\ pc # "store"

ReadInv ==
  ArbitratedBefore /\ ((\A n \in Rounds : <<"arbitrate", n>> \notin undone) => LastReadIsLatest)

------------------------------------------------------------------------------
(* What was stored.                                                          *)

AtWork(n) == pc # "idle" /\ step = <<"arbitrate", n>>
HasAccepted(n) == \E f \in FindingsOf(n) : f.status = "accepted"

\* What is at work is not done; what is done, or about to be, has its file.
WorkIsDue ==
  \A n \in Rounds :
    /\ AtWork(n) => <<"arbitrate", n>> \notin done
    /\ <<"arbitrate", n>> \in done \/ (AtWork(n) /\ pc = "landed") => arbitrated[n] # None

\* A version holds what every version before it holds.
HoldsGrow == \A u, v \in versions : u.number <= v.number => u.holds \subseteq v.holds

\* Version v holds the decisions of round n: it is the one round n's arbitration names once that is
\* on file, and no other round's arbitration names it or is about to.
HoldsDecision(n, v) ==
  /\ decider[n] \in v.holds
  /\ <<"arbitrate", n>> \in done \/ (AtWork(n) /\ pc = "landed") => v.number = arbitrated[n]
  /\ \A m \in Rounds \ {n} : arbitrated[m] # v.number
  /\ pc = "record" /\ step[2] # n => v.number # Latest

\* The answer that decided a round is being stored, or a version holds it.
DecidedIsHeld ==
  \A n \in Rounds \ lost : HasAccepted(n) =>
    \/ AtWork(n) /\ pc = "store" /\ decider[n] = answers
    \/ \E v \in versions : HoldsDecision(n, v)

\* Each arbitration names a version of its own, and one that is stored but not named is the last.
VersionsAreNamed ==
  /\ \A n \in Rounds : arbitrated[n] # None => \E v \in versions : v.number = arbitrated[n]
  /\ \A n, m \in Rounds : arbitrated[n] # None /\ arbitrated[n] = arbitrated[m] => n = m
  /\ pc = "record" => (\E v \in versions : v.number = Latest) /\ \A n \in Rounds : arbitrated[n] # Latest

\* Who files after an arbitration has read its version, or a newer one.
ReadersSee ==
  \A n, k \in Rounds :
    <<"arbitrate", n>> \in done \ undone /\ n < k /\ ~Missing(k) => arbitrated[n] <= read[k]

StoreInv == WorkIsDue /\ HoldsGrow /\ DecidedIsHeld /\ VersionsAreNamed /\ ReadersSee

------------------------------------------------------------------------------
(* What the operators of the loop amount to.                                 *)

LEMMA LastNumber ==
  ASSUME NEW V \in SUBSET [number : Nat, holds : SUBSET Nat], NEW b \in Nat, \A v \in V : v.number <= b
  PROVE  LET last == Max({v.number : v \in V} \union {0})
         IN  /\ last \in Nat
             /\ \A v \in V : v.number <= last
             /\ last # 0 => \E v \in V : v.number = last
<1> DEFINE S == {v.number : v \in V} \union {0}
<1>1. S \in SUBSET Nat /\ S # {} /\ \A x \in S : x <= b
  OBVIOUS
<1>2. Max(S) \in S /\ \A x \in S : x <= Max(S)
  BY <1>1, MaxOfBounded
<1> QED
  BY <1>1, <1>2

LEMMA LatestIsLast ==
  ASSUME TypeOK
  PROVE  /\ Latest \in Nat
         /\ \A v \in versions : v.number <= Latest
         /\ Latest # 0 => \E v \in versions : v.number = Latest
<1>1. PICK b \in Nat : \A v \in versions : v.number <= b
  BY DEF TypeOK, NumbersBounded
<1>2. versions \in SUBSET [number : Nat, holds : SUBSET Nat]
  BY DEF TypeOK, Kinds
<1> QED
  BY <1>1, <1>2, LastNumber DEF Latest

LEMMA FindingsAreFindings ==
  ASSUME TypeOK, NEW n \in Rounds
  PROVE  FindingsOf(n) \subseteq Finding
<1>1. CASE Missing(n)
  BY <1>1 DEF FindingsOf
<1>2. CASE ~Missing(n)
  <2>1. filed[n] \in Seq(Finding)
    BY <1>2 DEF TypeOK, Kinds, Missing
  <2> QED
    BY <2>1, <1>2 DEF FindingsOf
<1> QED
  BY <1>1, <1>2

LEMMA FirstIdIsNew ==
  ASSUME TypeOK
  PROVE  FirstId \in Nat \ {0} /\ \A f \in AllRunFindings : f.id < FirstId
<1> DEFINE S == {f.id : f \in AllRunFindings} \union {0}
<1>1. \A f \in AllRunFindings : f.id \in Nat
  BY FindingsAreFindings DEF AllRunFindings, Finding
<1>2. S \in SUBSET Nat /\ S # {} /\ \E b \in Nat : \A x \in S : x <= b
  <2>1. PICK b \in Nat : \A f \in AllRunFindings : f.id <= b
    BY DEF TypeOK, IdsBounded
  <2> QED
    BY <1>1, <2>1
<1>3. Max(S) \in S /\ \A x \in S : x <= Max(S)
  BY <1>2, MaxOfBounded
<1>4. FirstId = 1 + Max(S)
  BY DEF FirstId
<1>5. \A f \in AllRunFindings : f.id \in S
  OBVIOUS
<1>6. Max(S) \in Nat
  BY <1>2, <1>3
<1>7. \A f \in AllRunFindings : f.id <= Max(S)
  BY <1>3, <1>5
<1> HIDE DEF S
<1> QED
  BY <1>1, <1>4, <1>6, <1>7

LEMMA FindingsAreFinite ==
  ASSUME TypeOK, NEW R \in SUBSET Rounds
  PROVE  IsFiniteSet(UNION {FindingsOf(n) : n \in R})
<1>1. ASSUME NEW n \in Rounds PROVE IsFiniteSet(FindingsOf(n))
  <2>1. CASE Missing(n)
    BY <2>1, FS_EmptySet DEF FindingsOf
  <2>2. CASE ~Missing(n)
    <3>1. filed[n] \in Seq(Finding)
      BY <2>2 DEF TypeOK, Kinds, Missing
    <3>2. DOMAIN filed[n] = 1..Len(filed[n]) /\ Len(filed[n]) \in Nat
      BY <3>1
    <3>3. IsFiniteSet(DOMAIN filed[n])
      BY <3>2, FS_Interval
    <3>4. filed[n] \in Surjection(DOMAIN filed[n], FindingsOf(n))
      BY <3>1, <2>2 DEF FindingsOf, Surjection
    <3> QED
      BY <3>3, <3>4, FS_Surjection
  <2> QED
    BY <2>1, <2>2
<1>2. IsFiniteSet(Rounds)
  BY FS_Interval DEF Rounds
<1>3. IsFiniteSet(R)
  BY <1>2, FS_Subset
<1> DEFINE F == [n \in R |-> FindingsOf(n)]
           T == {FindingsOf(n) : n \in R}
<1>4. F \in Surjection(R, T)
  BY DEF Surjection
<1>5. IsFiniteSet(T)
  BY <1>3, <1>4, FS_Surjection
<1> QED
  BY <1>1, <1>5, FS_UNION

\* What a landed review leaves on file: findings of that round's kind, none decided yet.
LEMMA FiledFindings ==
  ASSUME TypeOK, NEW n \in Rounds, NEW points \in Filings, File(n, points)
  PROVE  /\ filed'[n] \in Seq(Finding) /\ \A m \in Rounds \ {n} : filed'[m] = filed[m]
         /\ \A f \in FindingsOf(n)' : /\ f.status = StatusOf(n, f.point) /\ f \in Finding
                                      /\ f.id <= FirstId + Len(points)
<1>1. points \in Seq(Points) /\ DOMAIN points = 1..Len(points) /\ Len(points) \in Nat
  OBVIOUS
<1>2. \A p \in Points : StatusOf(n, p) \in {"open", "escalated", "carried"}
  BY DEF StatusOf
<1> DEFINE e(i) == [id |-> FirstId + i - 1, point |-> points[i], status |-> StatusOf(n, points[i])]
<1>3. filed'[n] = [i \in 1..Len(points) |-> e(i)] /\ \A m \in Rounds \ {n} : filed'[m] = filed[m]
  BY <1>1 DEF File, TypeOK, Kinds
<1>4. \A i \in 1..Len(points) : e(i) \in Finding
  <2> SUFFICES ASSUME NEW i \in 1..Len(points) PROVE e(i) \in Finding
    OBVIOUS
  <2>1. points[i] \in Points /\ StatusOf(n, points[i]) \in {"open", "escalated", "carried"}
    BY <1>1, <1>2
  <2>2. FirstId + i - 1 \in Nat \ {0}
    BY FirstIdIsNew
  <2> QED
    BY <2>1, <2>2 DEF Finding
<1>5. filed'[n] \in Seq(Finding)
  BY <1>1, <1>3, <1>4
<1>6. ASSUME NEW f \in FindingsOf(n)'
      PROVE  /\ f.status = StatusOf(n, f.point) /\ f \in Finding
             /\ f.id <= FirstId + Len(points)
  <2>1. PICK i \in 1..Len(points) : f = e(i)
    BY <1>3, <1>6 DEF FindingsOf
  <2> QED
    BY <2>1, <1>1, <1>4, FirstIdIsNew
<1> QED
  BY <1>3, <1>5, <1>6

\* What a decision leaves on file: the same findings, the open ones decided, the others as they were.
LEMMA DecidedFindings ==
  ASSUME TypeOK, NEW n \in Rounds, NEW d \in [OpenIn(n) -> {"accepted", "rejected"}], Decide(n, d)
  PROVE  /\ ~Missing(n) /\ filed[n] # <<>>
         /\ filed'[n] \in Seq(Finding) /\ filed'[n] # <<>>
         /\ \A m \in Rounds \ {n} : filed'[m] = filed[m]
         /\ \A f \in FindingsOf(n)' : \E g \in FindingsOf(n) :
              /\ f.id = g.id /\ f.point = g.point
              /\ IF g.status = "open" THEN f.status \in {"accepted", "rejected"} /\ DOMAIN d # {}
                                     ELSE f = g
         /\ (\A g \in FindingsOf(n) : g.status # "open") => filed' = filed
<1>1. ~Missing(n) /\ filed[n] # <<>>
  BY DEF Decide, Ready, Listed
<1>2. filed[n] \in Seq(Finding)
  BY <1>1 DEF TypeOK, Kinds, Missing
<1>3. DOMAIN filed[n] = 1..Len(filed[n]) /\ Len(filed[n]) \in Nat /\ Len(filed[n]) # 0
  BY <1>1, <1>2
<1> DEFINE e(i) == Settle(filed[n][i], d)
<1>4. /\ filed' = [filed EXCEPT ![n] = [i \in DOMAIN filed[n] |-> e(i)]]
      /\ filed'[n] = [i \in 1..Len(filed[n]) |-> e(i)]
      /\ \A m \in Rounds \ {n} : filed'[m] = filed[m]
  BY <1>3 DEF Decide, TypeOK, Kinds
<1>5. ASSUME NEW i \in 1..Len(filed[n])
      PROVE  /\ filed[n][i] \in FindingsOf(n) /\ filed[n][i] \in Finding /\ e(i) \in Finding
             /\ e(i).id = filed[n][i].id /\ e(i).point = filed[n][i].point
             /\ IF filed[n][i].status = "open"
                  THEN e(i).status \in {"accepted", "rejected"} /\ DOMAIN d # {}
                  ELSE e(i) = filed[n][i]
  <2>1. filed[n][i] \in FindingsOf(n) /\ filed[n][i] \in Finding
    BY <1>1, <1>2, <1>3 DEF FindingsOf
  <2>2. CASE filed[n][i].status = "open"
    <3>1. filed[n][i].id \in DOMAIN d
      BY <2>1, <2>2 DEF OpenIn
    <3>2. d[filed[n][i].id] \in {"accepted", "rejected"}
      BY <3>1
    <3>3. e(i) = [filed[n][i] EXCEPT !.status = d[filed[n][i].id]]
      BY <2>2, <3>1 DEF Settle
    <3> QED
      BY <2>1, <2>2, <3>1, <3>2, <3>3 DEF Finding
  <2>3. CASE filed[n][i].status # "open"
    BY <2>1, <2>3 DEF Settle
  <2> QED
    BY <2>1, <2>2, <2>3
<1>6. filed'[n] \in Seq(Finding) /\ filed'[n] # <<>>
  BY <1>3, <1>4, <1>5
<1>7. \A f \in FindingsOf(n)' : \E i \in 1..Len(filed[n]) : f = e(i)
  BY <1>4 DEF FindingsOf
<1>8. ASSUME \A g \in FindingsOf(n) : g.status # "open" PROVE filed' = filed
  <2>1. \A i \in 1..Len(filed[n]) : e(i) = filed[n][i]
    BY <1>5, <1>8
  <2>2. [i \in 1..Len(filed[n]) |-> e(i)] = filed[n]
    BY <1>2, <1>3, <2>1
  <2> QED
    BY <1>3, <1>4, <2>2 DEF TypeOK, Kinds
<1> QED
  BY <1>1, <1>4, <1>5, <1>6, <1>7, <1>8

------------------------------------------------------------------------------
(* Types.                                                                    *)

LEMMA IdsStayBounded ==
  ASSUME TypeOK, NEW n \in Rounds, NEW b \in Nat,
         \A m \in Rounds \ {n} : filed'[m] = filed[m],
         \A f \in FindingsOf(n)' :
           f.id \in Nat /\ (f.id <= b \/ \E g \in FindingsOf(n) : f.id = g.id)
  PROVE  IdsBounded'
<1>1. PICK c \in Nat : \A f \in AllRunFindings : f.id <= c
  BY DEF TypeOK, IdsBounded
<1>2. \A m \in Rounds : \A f \in FindingsOf(m) : f.id \in Nat /\ f.id <= c
  BY <1>1, FindingsAreFindings DEF AllRunFindings, Finding
<1>3. \A m \in Rounds \ {n} : FindingsOf(m)' = FindingsOf(m)
  BY DEF FindingsOf, Missing
<1>4. \A f \in AllRunFindings' : f.id \in Nat /\ (f.id <= b \/ f.id <= c)
  BY <1>2, <1>3 DEF AllRunFindings
<1>5. \A f \in AllRunFindings' : f.id <= b + c
  BY <1>4
<1> QED
  BY <1>5 DEF IdsBounded

LEMMA TypeStep == TypeOK /\ [Next]_vars => TypeOK'
<1> SUFFICES ASSUME TypeOK, [Next]_vars PROVE TypeOK'
  OBVIOUS
<1> USE DEF Labels, faultVars
<1>r. 1..Cap \subseteq Rounds /\ \A s \in Steps : s[2] \in Rounds
  BY DEF Rounds, Steps
<1>k. Kinds
  BY DEF TypeOK
<1>1. ASSUME NEW n \in Rounds, NEW points \in Filings, File(n, points) PROVE TypeOK'
  <2>1. filed'[n] \in Seq(Finding) /\ \A m \in Rounds \ {n} : filed'[m] = filed[m]
    BY <1>1, FiledFindings
  <2>2. filed' \in [Rounds -> Seq(Finding) \union {None}]
    BY <1>1, <1>k, <2>1 DEF File, Kinds
  <2>3. FirstId + Len(points) \in Nat
    BY FirstIdIsNew
  <2>4. \A f \in FindingsOf(n)' : f.id \in Nat /\ f.id <= FirstId + Len(points)
    BY <1>1, FiledFindings DEF Finding
  <2>5. IdsBounded'
    BY <2>1, <2>3, <2>4, IdsStayBounded
  <2>6. read' \in [Rounds -> Nat] /\ step' \in Steps
    BY <1>1, <1>k, LatestIsLast DEF File, Kinds, Steps
  <2>7. Kinds'
    BY <1>1, <1>k, <2>2, <2>6 DEF File, Kinds
  <2>8. NumbersBounded'
    BY <1>1 DEF File, TypeOK, NumbersBounded
  <2> QED
    BY <2>5, <2>7, <2>8 DEF TypeOK
<1>2. ASSUME NEW n \in 1..Cap, NEW d \in [OpenIn(n) -> {"accepted", "rejected"}], Decide(n, d)
      PROVE  TypeOK'
  <2>0. n \in Rounds
    BY <1>r
  <2>1. filed'[n] \in Seq(Finding) /\ \A m \in Rounds \ {n} : filed'[m] = filed[m]
    BY <1>2, <2>0, DecidedFindings
  <2>2. filed' \in [Rounds -> Seq(Finding) \union {None}]
    BY <1>2, <1>k, <2>0, <2>1 DEF Decide, Kinds
  <2>3. \A f \in FindingsOf(n)' : f.id \in Nat /\ \E g \in FindingsOf(n) : f.id = g.id
    <3>1. \A f \in FindingsOf(n)' : \E g \in FindingsOf(n) : f.id = g.id
      BY <1>2, <2>0, DecidedFindings
    <3> QED
      BY <2>0, <3>1, FindingsAreFindings DEF Finding
  <2>4. IdsBounded'
    BY <2>0, <2>1, <2>3, IdsStayBounded
  <2>5. answers' \in Nat /\ decider' \in [Rounds -> Nat]
    <3>1. answers' = answers + 1 /\ answers + 1 \in Nat
      BY <1>2, <1>k DEF Decide, Kinds
    <3>2. decider' = decider \/ decider' = [decider EXCEPT ![n] = answers + 1]
      BY <1>2, <3>1 DEF Decide
    <3> QED
      BY <1>k, <3>1, <3>2 DEF Kinds
  <2>6. step' \in Steps
    BY <1>2, <2>0 DEF Decide, Steps
  <2>7. Kinds'
    BY <1>2, <1>k, <2>2, <2>5, <2>6 DEF Decide, Kinds
  <2>8. NumbersBounded'
    BY <1>2 DEF Decide, TypeOK, NumbersBounded
  <2> QED
    BY <2>4, <2>7, <2>8 DEF TypeOK
<1>3. ASSUME UNCHANGED filed PROVE IdsBounded'
  <2>1. AllRunFindings' = AllRunFindings
    BY <1>3 DEF AllRunFindings, FindingsOf, Missing
  <2> QED
    BY <2>1 DEF TypeOK, IdsBounded
<1>4. ASSUME versions' \subseteq versions PROVE NumbersBounded'
  BY <1>4 DEF TypeOK, NumbersBounded
<1>5. ASSUME StoreVersion PROVE TypeOK'
  <2>1. [number |-> Latest + 1, holds |-> Held \union {answers}] \in [number : Nat, holds : SUBSET Nat]
    <3>1. Held \subseteq Nat
      BY <1>k DEF Held, Kinds
    <3> QED
      BY <1>k, <3>1, LatestIsLast DEF Kinds
  <2>2. versions' = versions \union {[number |-> Latest + 1, holds |-> Held \union {answers}]}
    BY <1>5 DEF StoreVersion
  <2>3. versions' \subseteq [number : Nat, holds : SUBSET Nat]
    BY <1>k, <2>1, <2>2 DEF Kinds
  <2>4. \A v \in versions' : v.number <= Latest + 1
    BY <1>k, <2>2, LatestIsLast DEF Kinds
  <2>5. NumbersBounded'
    BY <2>4, LatestIsLast DEF NumbersBounded
  <2>6. Kinds'
    BY <1>5, <1>k, <2>3 DEF StoreVersion, Kinds
  <2> QED
    BY <1>3, <1>5, <2>5, <2>6 DEF StoreVersion, TypeOK
<1>6. ASSUME Record PROVE TypeOK'
  <2>1. arbitrated' \in [Rounds -> Nat \union {None}]
    BY <1>6, <1>k, <1>r, LatestIsLast DEF Record, Kinds
  <2> QED
    BY <1>3, <1>4, <1>6, <1>k, <2>1 DEF Record, TypeOK, Kinds
<1>7. ASSUME MarkDone PROVE TypeOK'
  BY <1>3, <1>4, <1>7, <1>k DEF MarkDone, TypeOK, Kinds
<1>8. ASSUME Die PROVE TypeOK'
  BY <1>3, <1>4, <1>8, <1>k, <1>r DEF Die, TypeOK, Kinds
<1>9. ASSUME NEW s \in Steps, Undo(s) PROVE TypeOK'
  <2>1. s[2] \in Rounds
    BY <1>r
  <2>2. CASE s[1] = "review"
    <3>1. filed' = [filed EXCEPT ![s[2]] = None] /\ UNCHANGED <<arbitrated, versions>>
      BY <1>9, <2>2 DEF Undo
    <3>2. filed'[s[2]] = None /\ \A m \in Rounds \ {s[2]} : filed'[m] = filed[m]
      BY <1>k, <2>1, <3>1 DEF Kinds
    <3>3. IdsBounded'
      BY <2>1, <3>2, IdsStayBounded DEF FindingsOf, Missing
    <3>4. filed' \in [Rounds -> Seq(Finding) \union {None}]
      BY <1>k, <3>1 DEF Kinds
    <3>5. Kinds'
      BY <1>9, <1>k, <3>1, <3>4 DEF Undo, Kinds
    <3> QED
      BY <1>4, <3>1, <3>3, <3>5 DEF TypeOK
  <2>3. CASE s[1] # "review"
    <3>1. /\ arbitrated' = [arbitrated EXCEPT ![s[2]] = None] /\ UNCHANGED filed
          /\ versions' \subseteq versions
      BY <1>9, <2>3 DEF Undo
    <3>2. arbitrated' \in [Rounds -> Nat \union {None}]
      BY <1>k, <3>1 DEF Kinds
    <3>3. Kinds'
      BY <1>9, <1>k, <3>1, <3>2 DEF Undo, Kinds
    <3> QED
      BY <1>3, <1>4, <3>1, <3>3 DEF TypeOK
  <2> QED
    BY <2>2, <2>3
<1>10. CASE UNCHANGED vars
  BY <1>3, <1>4, <1>10, <1>k DEF vars, TypeOK, Kinds
<1> QED
  BY <1>1, <1>2, <1>5, <1>6, <1>7, <1>8, <1>9, <1>10 DEF Next, Loop

\* Every variable of the review loop keeps a value of its kind; ids and version numbers stay
\* finite (review/rounds.py, spec/findings.py).
THEOREM TypeCorrect == Spec => []TypeOK
<1>1. Init => TypeOK
  <2> SUFFICES ASSUME Init PROVE TypeOK
    OBVIOUS
  <2>1. AllRunFindings = {} /\ \A v \in versions : v.number <= 1
    BY DEF Init, AllRunFindings, FindingsOf, Missing
  <2>2. versions \subseteq [number : Nat, holds : SUBSET Nat] /\ 1 \in Rounds
    BY DEF Init, Rounds
  <2>3. Kinds
    BY <2>2 DEF Init, Kinds, Labels, Steps
  <2> QED
    BY <2>1, <2>3 DEF TypeOK, IdsBounded, NumbersBounded
<1> QED
  BY <1>1, TypeStep, PTL DEF Spec

------------------------------------------------------------------------------
(* The step in hand, and the order of the rounds.                            *)

LEMMA StepStep == TypeOK /\ StepInHand /\ [Next]_vars => StepInHand'
<1> SUFFICES ASSUME TypeOK, StepInHand, [Next]_vars PROVE StepInHand'
  OBVIOUS
<1> USE DEF StepInHand
<1>1. ASSUME NEW n \in Rounds, NEW points \in Filings, File(n, points) PROVE StepInHand'
  BY <1>1 DEF File
<1>2. ASSUME NEW n \in 1..Cap, NEW d \in [OpenIn(n) -> {"accepted", "rejected"}], Decide(n, d)
      PROVE  StepInHand'
  BY <1>2 DEF Decide
<1>3. ASSUME StoreVersion \/ Record \/ MarkDone \/ Die PROVE StepInHand'
  BY <1>3 DEF StoreVersion, Record, MarkDone, Die
<1>4. ASSUME NEW s \in Steps, Undo(s) PROVE StepInHand'
  BY <1>4 DEF Undo
<1>5. CASE UNCHANGED vars
  BY <1>5 DEF vars
<1> QED
  BY <1>1, <1>2, <1>3, <1>4, <1>5 DEF Next, Loop

\* What a review that may start has before it.
LEMMA ReviewIsDue ==
  ASSUME NEW n \in Rounds, Ready(<<"review", n>>)
  PROVE  /\ <<"review", n>> \notin done
         /\ \A k \in 1..(n - 1) : ~Missing(k) /\ filed[k] # <<>> /\ arbitrated[k] # None
         /\ n # 1 => <<"arbitrate", n - 1>> \in done
<1>1. <<"review", n>> \in Listed \ done /\ After(<<"review", n>>) \subseteq done
  BY DEF Ready
<1>2. Reached(n)
  BY <1>1 DEF Listed
<1>3. n # 1 => <<"arbitrate", n - 1>> \in done
  BY <1>1 DEF After
<1> QED
  BY <1>1, <1>2, <1>3 DEF Reached

LEMMA ArbitrationIsDue ==
  ASSUME NEW n \in Rounds, Ready(<<"arbitrate", n>>)
  PROVE  /\ <<"arbitrate", n>> \notin done /\ <<"review", n>> \in done
         /\ n \in 1..Cap /\ ~Missing(n) /\ filed[n] # <<>>
         /\ \A k \in 1..(n - 1) : ~Missing(k) /\ filed[k] # <<>> /\ arbitrated[k] # None
<1>1. <<"arbitrate", n>> \in Listed \ done /\ After(<<"arbitrate", n>>) \subseteq done
  BY DEF Ready
<1>2. Reached(n) /\ n \in 1..Cap /\ ~Missing(n) /\ filed[n] # <<>>
  BY <1>1 DEF Listed
<1>3. <<"review", n>> \in done
  BY <1>1 DEF After
<1> QED
  BY <1>1, <1>2, <1>3 DEF Reached

\* How often a point was rejected before a round.
EarlierRejected(n, p) ==
  Cardinality({g \in UNION {FindingsOf(k) : k \in 1..(n - 1)} : g.point = p /\ g.status = "rejected"})

LEMMA EarlierRejections ==
  ASSUME TypeOK, NEW n \in Rounds, Ready(<<"review", n>>), NEW p
  PROVE  /\ Rejections(p) \in Nat
         /\ EarlierRejected(n, p) \in Nat
         /\ EarlierRejected(n, p) <= Rejections(p)
<1> DEFINE earlier == {g \in UNION {FindingsOf(k) : k \in 1..(n - 1)} :
                        g.point = p /\ g.status = "rejected"}
           all == {f \in AllFindings : f.point = p /\ f.status = "rejected"}
<1>0. \A k \in 1..(n - 1) : ~Missing(k)
  BY ReviewIsDue
<1>1. 1..(n - 1) \subseteq RoundsFiled
  <2> SUFFICES ASSUME NEW k \in 1..(n - 1) PROVE k \in Rounds /\ \A j \in 1..k : ~Missing(j)
    BY DEF RoundsFiled
  <2> QED
    BY <1>0 DEF Rounds
<1>2. earlier \subseteq all
  BY <1>1 DEF AllFindings
<1>3. IsFiniteSet(AllFindings)
  BY FindingsAreFinite DEF AllFindings, RoundsFiled
<1>4. IsFiniteSet(all)
  BY <1>3, FS_Subset
<1>5. IsFiniteSet(earlier) /\ Cardinality(earlier) <= Cardinality(all)
  BY <1>2, <1>4, FS_Subset
<1> QED
  BY <1>4, <1>5, FS_CardinalityType DEF Rejections, EarlierRejected

LEMMA RoundsStep == TypeOK /\ StepInHand /\ RoundsInv /\ [Next]_vars => RoundsInv'
<1> SUFFICES ASSUME TypeOK, StepInHand, RoundsInv, [Next]_vars PROVE RoundsInv'
  OBVIOUS
<1> USE DEF RoundsInv, faultVars
<1>k. Kinds
  BY DEF TypeOK
<1>1. ASSUME NEW n \in Rounds, NEW points \in Filings, File(n, points) PROVE RoundsInv'
  <2>1. /\ <<"review", n>> \notin done
        /\ \A k \in 1..(n - 1) : ~Missing(k) /\ filed[k] # <<>> /\ arbitrated[k] # None
    BY <1>1, ReviewIsDue DEF File
  <2>2. \A f \in FindingsOf(n)' : f.status = StatusOf(n, f.point)
    BY <1>1, FiledFindings
  <2>3. \A m \in Rounds \ {n} : filed'[m] = filed[m] /\ FindingsOf(m)' = FindingsOf(m)
    <3>1. \A m \in Rounds \ {n} : filed'[m] = filed[m]
      BY <1>1, FiledFindings
    <3> QED
      BY <3>1 DEF FindingsOf, Missing
  <2>4. UNCHANGED <<done, undone, arbitrated>> /\ pc' = "landed" /\ step' = <<"review", n>>
    BY <1>1 DEF File
  <2>5. \A m \in Rounds : m > n /\ (\A k \in 1..(m - 1) : Reviewed(k)) => Missing(m)
    BY <2>1 DEF EarlierIsOver, Rounds
  <2>6. ClosingIsCarried'
    BY <2>2, <2>3 DEF ClosingIsCarried, StatusOf, Closing
  <2>7. ArbitratedIsDecided'
    BY <2>1, <2>3, <2>4 DEF ArbitratedIsDecided, Reviewed
  <2>8. EarlierIsOver'
    <3> SUFFICES ASSUME NEW m \in Rounds, ~Missing(m)', \A k \in 1..(m - 1) : Reviewed(k),
                        NEW k \in 1..(m - 1)
                 PROVE  /\ <<"review", k>> \in done
                        /\ ~Missing(k)' /\ filed'[k] # <<>>
                        /\ \A f \in FindingsOf(k)' : f.status # "open"
      BY <2>4 DEF EarlierIsOver, Reviewed
    <3>0. k \in Rounds
      BY DEF Rounds
    <3>1. CASE m = n
      BY <2>1, <2>3, <3>0, <3>1 DEF ArbitratedIsDecided, Missing, Rounds
    <3>2. CASE m < n
      BY <2>3, <3>0, <3>2 DEF EarlierIsOver, Missing, Rounds
    <3>3. CASE m > n
      BY <2>3, <2>5, <3>3 DEF Missing, Rounds
    <3> QED
      BY <3>1, <3>2, <3>3 DEF Rounds
  <2>9. NoThirdExchange'
    <3> SUFFICES ASSUME NEW m \in Rounds, \A k \in 1..(m - 1) : Reviewed(k),
                        NEW f \in FindingsOf(m)', f.status \in {"open", "accepted", "rejected"}
                 PROVE  EarlierRejected(m, f.point)' < 2
      BY <2>4 DEF NoThirdExchange, EarlierRejected, Reviewed
    <3>1. m \in Int /\ n \in Int /\ (m # n => filed'[m] = filed[m] /\ FindingsOf(m)' = FindingsOf(m))
      BY <2>3 DEF Rounds
    <3>2. ~(m > n)
      <4>1. SUFFICES ASSUME m > n PROVE FALSE
        OBVIOUS
      <4>2. Missing(m)
        BY <2>5, <4>1
      <4>3. FindingsOf(m) = {}
        BY <4>2 DEF FindingsOf
      <4> QED
        BY <3>1, <4>1, <4>3
    <3>3. EarlierRejected(m, f.point)' = EarlierRejected(m, f.point)
      <4>1. \A k \in 1..(m - 1) : FindingsOf(k)' = FindingsOf(k)
        BY <2>3, <3>1, <3>2 DEF Rounds
      <4> QED
        BY <4>1 DEF EarlierRejected
    <3>4. CASE m = n
      <4>1. Ready(<<"review", n>>)
        BY <1>1 DEF File
      <4>2. /\ Rejections(f.point) \in Nat /\ EarlierRejected(n, f.point) \in Nat
            /\ EarlierRejected(n, f.point) <= Rejections(f.point)
        BY <4>1, EarlierRejections
      <4>3. f.status = StatusOf(n, f.point)
        BY <2>2, <3>4
      <4>4. ~(Rejections(f.point) >= 2)
        BY <4>3 DEF StatusOf
      <4> QED
        BY <3>3, <3>4, <4>2, <4>4
    <3>5. CASE m # n
      BY <3>1, <3>3, <3>5 DEF NoThirdExchange, EarlierRejected, Reviewed
    <3> QED
      BY <3>4, <3>5
  <2> QED
    BY <2>6, <2>7, <2>8, <2>9
<1>2. ASSUME NEW n \in 1..Cap, NEW d \in [OpenIn(n) -> {"accepted", "rejected"}], Decide(n, d)
      PROVE  RoundsInv'
  <2>0. n \in Rounds /\ Ready(<<"arbitrate", n>>)
    BY <1>2 DEF Rounds, Decide
  <2>1. <<"review", n>> \in done /\ ~Missing(n)
    BY <2>0, ArbitrationIsDue
  <2>2. /\ ~Missing(n)' /\ filed'[n] # <<>>
        /\ \A f \in FindingsOf(n)' : \E g \in FindingsOf(n) :
             /\ f.point = g.point
             /\ IF g.status = "open" THEN f.status \in {"accepted", "rejected"} ELSE f = g
        /\ (\A g \in FindingsOf(n) : g.status # "open") => filed' = filed
    BY <1>2, <2>0, DecidedFindings, NoneAssumption DEF Missing
  <2>3. \A m \in Rounds \ {n} : filed'[m] = filed[m] /\ FindingsOf(m)' = FindingsOf(m)
    <3>1. \A m \in Rounds \ {n} : filed'[m] = filed[m]
      BY <1>2, <2>0, DecidedFindings
    <3> QED
      BY <3>1 DEF FindingsOf, Missing
  <2>4. UNCHANGED <<done, undone, arbitrated>> /\ pc' = "store" /\ step' = <<"arbitrate", n>>
    BY <1>2 DEF Decide
  <2>5. \A f \in FindingsOf(n)' : f.status # "open"
    <3> SUFFICES ASSUME NEW f \in FindingsOf(n)' PROVE f.status # "open"
      OBVIOUS
    <3>1. PICK g \in FindingsOf(n) :
            IF g.status = "open" THEN f.status \in {"accepted", "rejected"} ELSE f = g
      BY <2>2
    <3> QED
      BY <3>1
  <2>6. ClosingIsCarried'
    <3>1. ASSUME NEW f \in FindingsOf(n)' PROVE (f.status = "carried") <=> Closing(n)
      <4>1. PICK g \in FindingsOf(n) :
              IF g.status = "open" THEN f.status \in {"accepted", "rejected"} ELSE f = g
        BY <2>2
      <4>2. (g.status = "carried") <=> Closing(n)
        BY <2>0 DEF ClosingIsCarried
      <4>3. ~Closing(n)
        BY DEF Closing
      <4> QED
        BY <4>1, <4>2, <4>3
    <3> QED
      BY <2>3, <3>1 DEF ClosingIsCarried, Closing
  <2>7. ArbitratedIsDecided'
    BY <2>1, <2>3, <2>4, <2>5 DEF ArbitratedIsDecided, Reviewed
  <2>8. EarlierIsOver'
    <3> SUFFICES ASSUME NEW m \in Rounds, ~Missing(m)', \A k \in 1..(m - 1) : Reviewed(k),
                        NEW k \in 1..(m - 1)
                 PROVE  /\ <<"review", k>> \in done
                        /\ ~Missing(k)' /\ filed'[k] # <<>>
                        /\ \A f \in FindingsOf(k)' : f.status # "open"
      BY <2>4 DEF EarlierIsOver, Reviewed
    <3>1. ~Missing(m)
      BY <2>1, <2>3 DEF Missing
    <3>2. k \in Rounds
      BY DEF Rounds
    <3> QED
      BY <2>2, <2>3, <2>5, <3>1, <3>2 DEF EarlierIsOver, Missing
  <2>9. NoThirdExchange'
    <3> SUFFICES ASSUME NEW m \in Rounds, \A k \in 1..(m - 1) : Reviewed(k),
                        NEW f \in FindingsOf(m)', f.status \in {"open", "accepted", "rejected"}
                 PROVE  EarlierRejected(m, f.point)' < 2
      BY <2>4 DEF NoThirdExchange, EarlierRejected, Reviewed
    <3>0. m \in Int /\ n \in Int
      BY DEF Rounds
    <3>1. PICK g \in FindingsOf(m) : f.point = g.point /\ g.status \in {"open", "accepted", "rejected"}
      BY <2>2, <2>3
    <3>2. CASE n < m
      <4>1. ~Missing(m)
        BY <3>1 DEF FindingsOf
      <4>2. n \in 1..(m - 1)
        BY <3>0, <3>2
      <4>3. filed' = filed
        BY <2>2, <4>1, <4>2 DEF EarlierIsOver
      <4>4. EarlierRejected(m, f.point)' = EarlierRejected(m, f.point)
        BY <4>3 DEF EarlierRejected, FindingsOf, Missing
      <4> QED
        BY <3>1, <4>4 DEF NoThirdExchange, EarlierRejected, Reviewed
    <3>3. CASE ~(n < m)
      <4>1. \A k \in 1..(m - 1) : FindingsOf(k)' = FindingsOf(k)
        BY <2>3, <3>0, <3>3 DEF Rounds
      <4>2. EarlierRejected(m, f.point)' = EarlierRejected(m, f.point)
        BY <4>1 DEF EarlierRejected
      <4> QED
        BY <3>1, <4>2 DEF NoThirdExchange, EarlierRejected, Reviewed
    <3> QED
      BY <3>2, <3>3
  <2> QED
    BY <2>6, <2>7, <2>8, <2>9
<1>3. ASSUME UNCHANGED <<filed, undone>>, done \subseteq done', ArbitratedIsDecided'
      PROVE  RoundsInv'
  BY <1>3 DEF ClosingIsCarried, EarlierIsOver, NoThirdExchange, FindingsOf, Missing, Reviewed
<1>4. ASSUME StoreVersion \/ MarkDone \/ Die PROVE RoundsInv'
  <2>1. /\ UNCHANGED <<filed, undone, arbitrated, step>> /\ done \subseteq done'
        /\ pc' # "idle" => pc # "idle"
    BY <1>4 DEF StoreVersion, MarkDone, Die
  <2>2. ArbitratedIsDecided'
    BY <2>1 DEF ArbitratedIsDecided, Reviewed, FindingsOf, Missing
  <2> QED
    BY <1>3, <2>1, <2>2
<1>5. ASSUME Record PROVE RoundsInv'
  <2>1. step = <<"arbitrate", step[2]>> /\ pc = "record"
    BY <1>5, <1>k DEF Record, StepInHand, Kinds, Steps
  <2>2. UNCHANGED <<filed, undone, done, step>> /\ \A n \in Rounds : n # step[2] => arbitrated'[n] = arbitrated[n]
    BY <1>5, <1>k DEF Record, Kinds
  <2>3. ArbitratedIsDecided'
    BY <2>1, <2>2 DEF ArbitratedIsDecided, Reviewed, FindingsOf, Missing
  <2> QED
    BY <1>3, <2>2, <2>3
<1>6. ASSUME NEW s \in Steps, Undo(s) PROVE RoundsInv'
  <2>0. s[2] \in Rounds /\ s = <<s[1], s[2]>> /\ s[1] \in {"review", "arbitrate"}
    BY DEF Steps
  <2>1. UNCHANGED <<pc, step>> /\ pc = "idle" /\ undone' = undone \union {s} /\ done' = done \ {s}
    BY <1>6 DEF Undo
  <2>2. CASE s[1] = "review"
    <3>1. /\ UNCHANGED arbitrated /\ filed'[s[2]] = None
          /\ \A m \in Rounds \ {s[2]} : filed'[m] = filed[m]
      BY <1>6, <1>k, <2>0, <2>2 DEF Undo, Kinds
    <3>2. FindingsOf(s[2])' = {} /\ \A m \in Rounds \ {s[2]} : FindingsOf(m)' = FindingsOf(m)
      <4>1. FindingsOf(s[2])' = {}
        BY <3>1 DEF FindingsOf, Missing
      <4>2. ASSUME NEW m \in Rounds \ {s[2]} PROVE FindingsOf(m)' = FindingsOf(m)
        <5>1. filed'[m] = filed[m]
          BY <3>1
        <5> QED
          BY <5>1 DEF FindingsOf, Missing
      <4> QED
        BY <4>1, <4>2
    <3>3. \A m \in Rounds : Reviewed(m)' => Reviewed(m) /\ m # s[2] /\ (<<"review", m>> \in done => <<"review", m>> \in done')
      BY <2>0, <2>1, <2>2 DEF Reviewed
    <3>4. ClosingIsCarried'
      BY <3>2 DEF ClosingIsCarried, Closing
    <3>5. ArbitratedIsDecided'
      BY <2>1, <3>1, <3>2, <3>3 DEF ArbitratedIsDecided
    <3>6. EarlierIsOver'
      <4> SUFFICES ASSUME NEW m \in Rounds, ~Missing(m)', \A k \in 1..(m - 1) : Reviewed(k)',
                          NEW k \in 1..(m - 1)
                   PROVE  /\ <<"review", k>> \in done'
                          /\ ~Missing(k)' /\ filed'[k] # <<>>
                          /\ \A f \in FindingsOf(k)' : f.status # "open"
        BY DEF EarlierIsOver
      <4>1. 1..(m - 1) \subseteq Rounds /\ ~Missing(m)
        BY <3>1 DEF Rounds, Missing
      <4> QED
        BY <3>1, <3>2, <3>3, <4>1 DEF EarlierIsOver, Missing
    <3>7. NoThirdExchange'
      <4> SUFFICES ASSUME NEW m \in Rounds, \A k \in 1..(m - 1) : Reviewed(k)',
                          NEW f \in FindingsOf(m)', f.status \in {"open", "accepted", "rejected"}
                   PROVE  EarlierRejected(m, f.point)' < 2
        BY DEF NoThirdExchange, EarlierRejected, Reviewed
      <4>1. \A k \in 1..(m - 1) : k \in Rounds /\ Reviewed(k) /\ FindingsOf(k)' = FindingsOf(k)
        <5>1. \A k \in 1..(m - 1) : k \in Rounds
          BY DEF Rounds
        <5> QED
          BY <3>2, <3>3, <5>1
      <4>2. EarlierRejected(m, f.point)' = EarlierRejected(m, f.point)
        BY <4>1 DEF EarlierRejected
      <4>3. f \in FindingsOf(m)
        BY <3>2
      <4> QED
        BY <4>1, <4>2, <4>3 DEF NoThirdExchange, EarlierRejected, Reviewed
    <3> QED
      BY <3>4, <3>5, <3>6, <3>7
  <2>3. CASE s[1] = "arbitrate"
    <3>1. UNCHANGED filed /\ arbitrated' = [arbitrated EXCEPT ![s[2]] = None]
      BY <1>6, <2>3 DEF Undo
    <3>2. \A m : Reviewed(m)' = Reviewed(m) /\ (<<"review", m>> \in done <=> <<"review", m>> \in done')
      BY <2>0, <2>1, <2>3 DEF Reviewed
    <3>3. \A m \in Rounds : FindingsOf(m)' = FindingsOf(m) /\ (arbitrated'[m] # None => arbitrated[m] # None)
      BY <1>k, <3>1 DEF FindingsOf, Missing, Kinds
    <3>4. ClosingIsCarried' /\ ArbitratedIsDecided'
      BY <2>1, <3>2, <3>3 DEF ClosingIsCarried, ArbitratedIsDecided, Closing
    <3>5. EarlierIsOver' /\ NoThirdExchange'
      BY <3>1, <3>2 DEF EarlierIsOver, NoThirdExchange, FindingsOf, Missing, Reviewed
    <3> QED
      BY <3>4, <3>5
  <2> QED
    BY <2>0, <2>2, <2>3
<1>7. CASE UNCHANGED vars
  BY <1>7 DEF vars, ClosingIsCarried, ArbitratedIsDecided, EarlierIsOver, NoThirdExchange, FindingsOf,
              Missing, Reviewed
<1> QED
  BY <1>1, <1>2, <1>4, <1>5, <1>6, <1>7 DEF Next, Loop

------------------------------------------------------------------------------
(* What was read.                                                            *)

NoArbitrationUndone == \A n \in Rounds : <<"arbitrate", n>> \notin undone

LEMMA BeforeStep == TypeOK /\ StepInHand /\ ArbitratedBefore /\ [Next]_vars => ArbitratedBefore'
<1> SUFFICES ASSUME TypeOK, StepInHand, ArbitratedBefore, [Next]_vars PROVE ArbitratedBefore'
  OBVIOUS
<1>k. Kinds
  BY DEF TypeOK
<1>1. ASSUME NEW n \in Rounds, NEW points \in Filings, File(n, points) PROVE ArbitratedBefore'
  <2>1. UNCHANGED <<done, undone>> /\ pc' = "landed" /\ step' = <<"review", n>>
    BY <1>1 DEF File, faultVars
  <2>3. n # 1 => n - 1 \in Rounds /\ <<"arbitrate", n - 1>> \in done
    BY <1>1, ReviewIsDue DEF File, Rounds
  <2>4. Before(n)
    <3>1. n # 1 => Before(n - 1)
      BY <2>3 DEF ArbitratedBefore
    <3>2. ASSUME NEW k \in 1..(n - 1) PROVE n # 1 /\ (k \in 1..((n - 1) - 1) \/ k = n - 1)
      BY DEF Rounds
    <3> QED
      BY <2>3, <3>1, <3>2 DEF Before
  <2>5. \A m \in Rounds \ {n} : filed'[m] = filed[m]
    BY <1>1, FiledFindings
  <2> QED
    BY <2>1, <2>4, <2>5 DEF ArbitratedBefore, Before, Missing
<1>2. ASSUME NEW n \in 1..Cap, NEW d \in [OpenIn(n) -> {"accepted", "rejected"}], Decide(n, d)
      PROVE  ArbitratedBefore'
  <2>0. n \in Rounds /\ Ready(<<"arbitrate", n>>)
    BY <1>2 DEF Rounds, Decide
  <2>1. UNCHANGED <<done, undone>> /\ step' = <<"arbitrate", n>>
    BY <1>2 DEF Decide, faultVars
  <2>3. ~Missing(n)
    BY <2>0, ArbitrationIsDue
  <2>4. \A m \in Rounds \ {n} : filed'[m] = filed[m]
    BY <1>2, <2>0, DecidedFindings
  <2> QED
    BY <2>1, <2>3, <2>4 DEF ArbitratedBefore, Before, Missing
<1>3. ASSUME StoreVersion \/ Record \/ MarkDone \/ Die PROVE ArbitratedBefore'
  <2>1. /\ UNCHANGED <<filed, step, undone>>
        /\ pc # "idle" /\ (done' = done \/ done' = done \union {step})
    BY <1>3 DEF StoreVersion, Record, MarkDone, Die, faultVars
  <2>2. \A n : Before(n) => Before(n)'
    BY <2>1 DEF Before
  <2>3. ASSUME NEW n \in Rounds, NEW kind \in {"review", "arbitrate"}, <<kind, n>> \in done' \ done
        PROVE  Before(n)
    <3>1. step = <<kind, n>>
      BY <2>1, <2>3
    <3>2. step[2] = n
      BY <3>1
    <3> QED
      BY <2>1, <3>2 DEF ArbitratedBefore
  <2> QED
    BY <2>1, <2>2, <2>3 DEF ArbitratedBefore, Missing
<1>4. ASSUME NEW s \in Steps, Undo(s) PROVE ArbitratedBefore'
  <2>1. UNCHANGED <<pc, step>> /\ pc = "idle" /\ undone' = undone \union {s} /\ done' = done \ {s}
    BY <1>4 DEF Undo
  <2>2. \A m \in Rounds : Missing(m) => Missing(m)'
    BY <1>4, <1>k DEF Undo, Kinds, Missing
  <2>3. \A n : Before(n) => Before(n)'
    BY <2>1 DEF Before
  <2> QED
    BY <2>1, <2>2, <2>3 DEF ArbitratedBefore
<1>5. CASE UNCHANGED vars
  BY <1>5 DEF vars, ArbitratedBefore, Before, Missing
<1> QED
  BY <1>1, <1>2, <1>3, <1>4, <1>5 DEF Next, Loop

LEMMA ReadStep == TypeOK /\ StepInHand /\ ReadInv /\ [Next]_vars => ReadInv'
<1> SUFFICES ASSUME TypeOK, StepInHand, ReadInv, [Next]_vars, NoArbitrationUndone'
             PROVE  LastReadIsLatest'
  BY BeforeStep DEF ReadInv, NoArbitrationUndone
<1>k. Kinds
  BY DEF TypeOK
<1>u. ASSUME undone \subseteq undone' PROVE ArbitratedBefore /\ LastReadIsLatest /\ NoArbitrationUndone
  BY <1>u DEF ReadInv, NoArbitrationUndone
<1>1. ASSUME NEW n \in Rounds, NEW points \in Filings, File(n, points)
      PROVE  LastReadIsLatest'
  <2>1. UNCHANGED <<done, undone, versions>> /\ pc' = "landed" /\ step' = <<"review", n>> /\ Latest' = Latest
    BY <1>1 DEF File, faultVars, Latest
  <2>2. ArbitratedBefore /\ LastReadIsLatest /\ NoArbitrationUndone
    BY <1>u, <2>1
  <2>5. \A m \in Rounds \ {n} : filed'[m] = filed[m]
    BY <1>1, FiledFindings
  <2>6. \A m \in Rounds \ {n} : read'[m] = read[m]
    BY <1>1, <1>k DEF File, Kinds
  <2>7. read'[n] = Latest
    BY <1>1, <1>k DEF File, Kinds
  <2> QED
    BY <2>1, <2>2, <2>5, <2>6, <2>7 DEF LastReadIsLatest, Missing, Closing
<1>2. ASSUME NEW n \in 1..Cap, NEW d \in [OpenIn(n) -> {"accepted", "rejected"}], Decide(n, d)
      PROVE  LastReadIsLatest'
  <2>0. n \in Rounds /\ Ready(<<"arbitrate", n>>)
    BY <1>2 DEF Rounds, Decide
  <2>1. UNCHANGED <<done, undone, read>> /\ step' = <<"arbitrate", n>>
    BY <1>2 DEF Decide, faultVars
  <2>2. ArbitratedBefore /\ LastReadIsLatest /\ NoArbitrationUndone
    BY <1>u, <2>1
  <2>3. /\ <<"arbitrate", n>> \notin done /\ ~Missing(n) /\ filed[n] # <<>>
        /\ \A k \in 1..(n - 1) : ~Missing(k) /\ filed[k] # <<>>
    BY <2>0, ArbitrationIsDue
  <2>4. filed'[n] # <<>> /\ \A m \in Rounds \ {n} : filed'[m] = filed[m]
    BY <1>2, <2>0, DecidedFindings
  <2>6. ASSUME NEW m \in Rounds, ~Missing(m)', filed'[m] = <<>> \/ Closing(m)
        PROVE  FALSE
    <3>1. m # n
      BY <2>4, <2>6 DEF Closing
    <3>2. ~Missing(m) /\ (filed[m] = <<>> \/ Closing(m))
      BY <2>4, <2>6, <3>1 DEF Missing
    <3>3. ~(m < n)
      BY <2>3, <3>2 DEF Closing, Rounds
    <3>4. n \in 1..(m - 1)
      BY <3>1, <3>3 DEF Rounds
    <3> QED
      BY <2>2, <2>3, <3>2, <3>4, <2>0 DEF ArbitratedBefore, Before, NoArbitrationUndone
  <2> QED
    BY <2>6 DEF LastReadIsLatest
<1>3. ASSUME StoreVersion \/ Record \/ MarkDone \/ Die
      PROVE  LastReadIsLatest'
  <2>1. /\ UNCHANGED <<filed, read, step, undone>>
        /\ pc' # "store" /\ pc # "idle"
        /\ pc # "store" => UNCHANGED versions
        /\ done' = done \/ done' = done \union {step}
    BY <1>3 DEF StoreVersion, Record, MarkDone, Die, faultVars
  <2>2. ArbitratedBefore /\ LastReadIsLatest /\ NoArbitrationUndone
    BY <1>u, <2>1
  <2> QED
    BY <2>1, <2>2 DEF LastReadIsLatest, Missing, Closing, Latest
<1>4. ASSUME NEW s \in Steps, Undo(s)
      PROVE  LastReadIsLatest'
  <2>0. s[2] \in Rounds /\ s = <<s[1], s[2]>> /\ s[1] \in {"review", "arbitrate"}
    BY DEF Steps
  <2>1. UNCHANGED <<pc, step, read>> /\ pc = "idle" /\ undone' = undone \union {s} /\ done' = done \ {s}
    BY <1>4 DEF Undo
  <2>2. s[1] = "review" /\ ArbitratedBefore /\ LastReadIsLatest
    BY <1>u, <2>0, <2>1 DEF NoArbitrationUndone
  <2>3. /\ UNCHANGED versions /\ filed'[s[2]] = None
        /\ \A m \in Rounds \ {s[2]} : filed'[m] = filed[m]
    BY <1>4, <1>k, <2>0, <2>2 DEF Undo, Kinds
  <2> QED
    BY <2>1, <2>2, <2>3 DEF LastReadIsLatest, Missing, Closing, Latest
<1>5. CASE UNCHANGED vars
  BY <1>u, <1>5 DEF vars, LastReadIsLatest, Missing, Closing, Latest
<1> QED
  BY <1>1, <1>2, <1>3, <1>4, <1>5 DEF Next, Loop

------------------------------------------------------------------------------
(* What was stored.                                                          *)

LEMMA StoreStep == TypeOK /\ StepInHand /\ ArbitratedBefore /\ StoreInv /\ [Next]_vars => StoreInv'
<1> SUFFICES ASSUME TypeOK, StepInHand, ArbitratedBefore, StoreInv, [Next]_vars PROVE StoreInv'
  OBVIOUS
<1> USE DEF StoreInv, faultVars
<1>k. Kinds
  BY DEF TypeOK
<1>3. ASSUME UNCHANGED filed PROVE \A n : HasAccepted(n)' = HasAccepted(n) /\ Missing(n)' = Missing(n)
  BY <1>3 DEF HasAccepted, FindingsOf, Missing
<1>l. Latest \in Nat /\ \A v \in versions : v.number \in Nat /\ v.number <= Latest
  BY <1>k, LatestIsLast DEF Kinds
<1>1. ASSUME NEW n \in Rounds, NEW points \in Filings, File(n, points) PROVE StoreInv'
  <2>1. /\ UNCHANGED <<arbitrated, versions, done, decider, lost, undone, answers>>
        /\ pc = "idle" /\ pc' = "landed" /\ step' = <<"review", n>> /\ Latest' = Latest
    BY <1>1 DEF File, Latest
  <2>2. \A m \in Rounds \ {n} : filed'[m] = filed[m] /\ read'[m] = read[m]
    BY <1>1, <1>k, FiledFindings DEF File, Kinds
  <2>3. ~HasAccepted(n)'
    BY <1>1, FiledFindings DEF HasAccepted, StatusOf
  <2>4. \A m \in Rounds : HasAccepted(m)' => HasAccepted(m)
    BY <2>2, <2>3 DEF HasAccepted, FindingsOf, Missing
  <2>5. WorkIsDue' /\ HoldsGrow' /\ VersionsAreNamed'
    BY <2>1 DEF WorkIsDue, HoldsGrow, VersionsAreNamed, AtWork
  <2>6. DecidedIsHeld'
    <3>1. ASSUME NEW m \in Rounds, NEW v \in versions, HoldsDecision(m, v) PROVE HoldsDecision(m, v)'
      BY <2>1, <3>1 DEF HoldsDecision, AtWork
    <3> QED
      BY <2>1, <2>4, <3>1 DEF DecidedIsHeld
  <2>7. ASSUME NEW m \in Rounds, NEW k \in Rounds, <<"arbitrate", m>> \in done \ undone, m < k, ~Missing(k)'
        PROVE  arbitrated[m] <= read'[k]
    <3>1. CASE k = n
      <4>1. arbitrated[m] # None
        BY <2>7 DEF WorkIsDue
      <4>2. read'[n] = Latest
        BY <1>1, <1>k DEF File, Kinds
      <4> QED
        BY <1>l, <3>1, <4>1, <4>2 DEF VersionsAreNamed
    <3>2. CASE k # n
      BY <2>2, <2>7, <3>2 DEF ReadersSee, Missing
    <3> QED
      BY <3>1, <3>2
  <2> QED
    BY <2>1, <2>5, <2>6, <2>7 DEF ReadersSee
<1>2. ASSUME NEW n \in 1..Cap, NEW d \in [OpenIn(n) -> {"accepted", "rejected"}], Decide(n, d)
      PROVE  StoreInv'
  <2>0. n \in Rounds /\ Ready(<<"arbitrate", n>>)
    BY <1>2 DEF Rounds, Decide
  <2>1. /\ UNCHANGED <<arbitrated, versions, done, undone, read>> /\ Latest' = Latest
        /\ pc = "idle" /\ pc' = "store" /\ step' = <<"arbitrate", n>>
    BY <1>2 DEF Decide, Latest
  <2>2. <<"arbitrate", n>> \notin done /\ ~Missing(n)
    BY <2>0, ArbitrationIsDue
  <2>3. \A m \in Rounds \ {n} :
          filed'[m] = filed[m] /\ decider'[m] = decider[m] /\ (m \in lost' <=> m \in lost)
    BY <1>2, <1>k, <2>0, DecidedFindings DEF Decide, Kinds
  <2>4. \A m \in Rounds \ {n} : HasAccepted(m)' = HasAccepted(m) /\ Missing(m)' = Missing(m)
    BY <2>3 DEF HasAccepted, FindingsOf, Missing
  <2>5. WorkIsDue' /\ HoldsGrow' /\ VersionsAreNamed' /\ ReadersSee'
    <3>1. ReadersSee'
      BY <2>1, <2>2, <2>4 DEF ReadersSee
    <3>2. \A m \in Rounds : AtWork(m)' => m = n
      BY <2>1 DEF AtWork
    <3>3. WorkIsDue'
      BY <2>1, <2>2, <3>2 DEF WorkIsDue
    <3> QED
      BY <2>1, <3>1, <3>3 DEF HoldsGrow, VersionsAreNamed
  <2>6. ASSUME NEW m \in Rounds, NEW v \in versions, HoldsDecision(m, v), decider'[m] = decider[m]
        PROVE  HoldsDecision(m, v)'
    BY <2>1, <2>6 DEF HoldsDecision, AtWork
  <2>7. ASSUME NEW m \in Rounds \ lost', HasAccepted(m)', m # n
        PROVE  \E v \in versions' : HoldsDecision(m, v)'
    <3>1. PICK v \in versions : HoldsDecision(m, v)
      BY <2>1, <2>3, <2>4, <2>7 DEF DecidedIsHeld, AtWork
    <3> QED
      BY <2>1, <2>3, <2>6, <2>7, <3>1
  <2>8. ASSUME n \notin lost', HasAccepted(n)', DOMAIN d = {}
        PROVE  \E v \in versions' : HoldsDecision(n, v)'
    <3>1. HasAccepted(n)
      <4>1. PICK f \in FindingsOf(n)' : f.status = "accepted"
        BY <2>8 DEF HasAccepted
      <4>2. PICK g \in FindingsOf(n) :
              IF g.status = "open" THEN f.status \in {"accepted", "rejected"} /\ DOMAIN d # {} ELSE f = g
        BY <1>2, <2>0, DecidedFindings
      <4> QED
        BY <2>8, <4>1, <4>2 DEF HasAccepted
    <3>2. lost' = lost /\ decider' = decider
      BY <1>2, <2>8 DEF Decide
    <3>3. PICK v \in versions : HoldsDecision(n, v)
      BY <2>0, <2>1, <2>8, <3>1, <3>2 DEF DecidedIsHeld, AtWork
    <3> QED
      BY <2>0, <2>1, <2>6, <3>2, <3>3
  <2>9. DOMAIN d # {} => decider'[n] = answers' /\ AtWork(n)'
    BY <1>2, <1>k, <2>0, <2>1 DEF Decide, Kinds, AtWork
  <2>10. DecidedIsHeld'
    BY <2>0, <2>1, <2>7, <2>8, <2>9 DEF DecidedIsHeld
  <2> QED
    BY <2>5, <2>10
<1>4. ASSUME StoreVersion PROVE StoreInv'
  <2>1. /\ UNCHANGED <<filed, arbitrated, done, step, answers, read, decider, lost, undone>>
        /\ pc = "store" /\ pc' = "record"
        /\ versions' = versions \union {[number |-> Latest + 1, holds |-> Held \union {answers}]}
    BY <1>4 DEF StoreVersion
  <2>n. PICK new \in versions' :
          /\ new.number = Latest + 1 /\ new.holds = Held \union {answers}
          /\ versions' = versions \union {new}
    <3> DEFINE v == [number |-> Latest + 1, holds |-> Held \union {answers}]
    <3>1. v \in versions' /\ v.number = Latest + 1 /\ v.holds = Held \union {answers} /\ versions' = versions \union {v}
      BY <2>1
    <3> QED
      BY <3>1
  <2>3. Latest' = Latest + 1
    <3>1. versions' \in SUBSET [number : Nat, holds : SUBSET Nat]
      BY <1>4, TypeStep DEF TypeOK, Kinds, Next, Loop
    <3>2. \A v \in versions' : v.number <= Latest + 1
      BY <2>n, <1>l
    <3>3. /\ Latest' \in Nat /\ \A v \in versions' : v.number <= Latest'
          /\ Latest' # 0 => \E v \in versions' : v.number = Latest'
      <4>1. Latest + 1 \in Nat
        BY <1>l
      <4> QED
        BY <3>1, <3>2, <4>1, LastNumber DEF Latest
    <3>4. Latest + 1 <= Latest'
      BY <2>n, <3>3
    <3> QED
      BY <1>l, <3>2, <3>3, <3>4
  <2>4. \A m \in Rounds : arbitrated[m] # Latest + 1
    <3> SUFFICES ASSUME NEW m \in Rounds, arbitrated[m] = Latest + 1 PROVE FALSE
      OBVIOUS
    <3>1. arbitrated[m] # None
      BY <1>l, NoneAssumption
    <3>2. PICK v \in versions : v.number = arbitrated[m]
      BY <3>1 DEF VersionsAreNamed
    <3> QED
      BY <1>l, <3>2
  <2>5. VersionsAreNamed'
    <3>1. \E v \in versions' : v.number = Latest + 1
      BY <2>n
    <3>2. \A v \in versions : v \in versions'
      BY <2>1
    <3> QED
      BY <2>1, <2>3, <2>4, <3>1, <3>2 DEF VersionsAreNamed
  <2>6. WorkIsDue' /\ ReadersSee'
    BY <1>3, <2>1 DEF WorkIsDue, ReadersSee, AtWork
  <2>7. HoldsGrow'
    <3>1. ASSUME NEW u \in versions PROVE u.holds \subseteq new.holds /\ ~(new.number <= u.number)
      <4>1. PICK w \in versions : w.number = Latest /\ u.number <= w.number
        <5>1. CASE u.number = Latest
          BY <1>l, <5>1
        <5>2. CASE u.number # Latest
          <6>1. Latest # 0
            BY <1>l, <5>2
          <6> QED
            BY <1>l, <6>1, LatestIsLast
        <5> QED
          BY <5>1, <5>2
      <4>2. u.holds \subseteq w.holds /\ w.holds \subseteq Held
        BY <4>1 DEF HoldsGrow, Held
      <4> QED
        BY <1>l, <2>n, <4>2
    <3> QED
      BY <2>n, <3>1 DEF HoldsGrow
  <2>8. step[1] = "arbitrate" /\ step[2] \in Rounds /\ step = <<"arbitrate", step[2]>>
    BY <1>k, <2>1 DEF StepInHand, Kinds, Steps
  <2>9. ASSUME NEW m \in Rounds \ lost, HasAccepted(m) PROVE \E v \in versions' : HoldsDecision(m, v)'
    <3>1. CASE AtWork(m) /\ decider[m] = answers
      <4>1. step[2] = m /\ <<"arbitrate", m>> \notin done
        BY <3>1 DEF AtWork, WorkIsDue
      <4>2. HoldsDecision(m, new)'
        BY <2>1, <2>n, <2>4, <3>1, <4>1 DEF HoldsDecision
      <4> QED
        BY <4>2
    <3>2. CASE ~(AtWork(m) /\ decider[m] = answers)
      <4>1. PICK v \in versions : HoldsDecision(m, v)
        BY <2>9, <3>2 DEF DecidedIsHeld
      <4>2. v.number # Latest + 1 /\ v \in versions'
        BY <1>l, <2>1
      <4>3. HoldsDecision(m, v)'
        BY <2>1, <2>3, <4>1, <4>2 DEF HoldsDecision
      <4> QED
        BY <4>2, <4>3
    <3> QED
      BY <3>1, <3>2
  <2>10. DecidedIsHeld'
    BY <1>3, <2>1, <2>9 DEF DecidedIsHeld
  <2> QED
    BY <2>5, <2>6, <2>7, <2>10
<1>5. ASSUME Record PROVE StoreInv'
  <2> DEFINE n == step[2]
  <2>1. n \in Rounds /\ step = <<"arbitrate", n>>
    BY <1>5, <1>k DEF Record, StepInHand, Kinds, Steps
  <2>2. /\ UNCHANGED <<filed, versions, done, step, answers, read, decider, lost, undone>> /\ Latest' = Latest
        /\ pc = "record" /\ pc' = "landed"
        /\ arbitrated'[n] = Latest /\ \A m \in Rounds \ {n} : arbitrated'[m] = arbitrated[m]
    BY <1>5, <1>k, <2>1 DEF Record, Kinds, Latest
  <2>3. <<"arbitrate", n>> \notin done /\ Latest # None /\ \A m \in Rounds : AtWork(m) => m = n
    BY <1>l, <2>1, <2>2, NoneAssumption DEF WorkIsDue, AtWork
  <2> HIDE DEF n
  <2>4. VersionsAreNamed'
    BY <2>1, <2>2 DEF VersionsAreNamed
  <2>5. WorkIsDue' /\ HoldsGrow'
    BY <2>1, <2>2, <2>3 DEF WorkIsDue, HoldsGrow, AtWork
  <2>6. ReadersSee'
    BY <1>3, <2>1, <2>2, <2>3 DEF ReadersSee
  <2>7. ASSUME NEW m \in Rounds \ lost, HasAccepted(m) PROVE \E v \in versions : HoldsDecision(m, v)'
    <3>1. PICK v \in versions : HoldsDecision(m, v)
      BY <2>2, <2>7 DEF DecidedIsHeld
    <3>2. CASE m = n
      <4>1. PICK w \in versions : w.number = Latest
        BY <2>2 DEF VersionsAreNamed
      <4>2. decider[m] \in w.holds
        BY <1>l, <3>1, <4>1 DEF HoldsGrow, HoldsDecision
      <4>3. \A x \in Rounds \ {n} : arbitrated[x] # Latest
        BY <2>2 DEF VersionsAreNamed
      <4>4. HoldsDecision(m, w)'
        BY <2>2, <3>2, <4>1, <4>2, <4>3 DEF HoldsDecision
      <4> QED
        BY <4>4
    <3>3. CASE m # n
      <4>1. v.number # Latest
        BY <2>1, <2>2, <3>1, <3>3 DEF HoldsDecision
      <4>2. ~AtWork(m) /\ ~AtWork(m)'
        BY <2>1, <2>2, <3>3 DEF AtWork
      <4>3. HoldsDecision(m, v)'
        BY <2>2, <3>1, <3>3, <4>1, <4>2 DEF HoldsDecision
      <4> QED
        BY <4>3
    <3> QED
      BY <3>2, <3>3
  <2>8. DecidedIsHeld'
    BY <1>3, <2>2, <2>7 DEF DecidedIsHeld
  <2> QED
    BY <2>4, <2>5, <2>6, <2>8
<1>6. ASSUME MarkDone PROVE StoreInv'
  <2>1. /\ UNCHANGED <<filed, versions, arbitrated, step, answers, read, decider, lost, undone>>
        /\ pc = "landed" /\ pc' = "idle" /\ done' = done \union {step}
    BY <1>6 DEF MarkDone
  <2>2. \A m \in Rounds : <<"arbitrate", m>> \in done' => <<"arbitrate", m>> \in done \/ AtWork(m)
    BY <2>1 DEF AtWork
  <2>3. WorkIsDue' /\ HoldsGrow' /\ VersionsAreNamed'
    BY <2>1, <2>2 DEF WorkIsDue, HoldsGrow, VersionsAreNamed, AtWork
  <2>4. DecidedIsHeld'
    <3>1. ASSUME NEW m \in Rounds \ lost, HasAccepted(m) PROVE \E v \in versions : HoldsDecision(m, v)'
      <4>1. PICK v \in versions : HoldsDecision(m, v)
        BY <2>1, <3>1 DEF DecidedIsHeld
      <4>2. HoldsDecision(m, v)'
        BY <2>1, <2>2, <4>1 DEF HoldsDecision, AtWork
      <4> QED
        BY <4>2
    <3> QED
      BY <1>3, <2>1, <3>1 DEF DecidedIsHeld
  <2>5. ReadersSee'
    <3> SUFFICES ASSUME NEW m \in Rounds, NEW k \in Rounds, <<"arbitrate", m>> \in done' \ undone, m < k, ~Missing(k)
                 PROVE  arbitrated[m] <= read[k]
      BY <1>3, <2>1 DEF ReadersSee
    <3>1. <<"arbitrate", m>> \in done
      <4>1. Before(k) /\ m \in 1..(k - 1)
        BY DEF ArbitratedBefore, Rounds
      <4> QED
        BY <4>1 DEF Before
    <3> QED
      BY <3>1 DEF ReadersSee
  <2> QED
    BY <2>3, <2>4, <2>5
<1>9. ASSUME Die PROVE StoreInv'
  <2>1. /\ UNCHANGED <<filed, versions, arbitrated, done, step, answers, read, decider, undone>>
        /\ pc' = "idle" /\ lost \subseteq lost'
        /\ pc = "store" /\ decider[step[2]] = answers => step[2] \in lost'
    BY <1>9 DEF Die
  <2>2. WorkIsDue' /\ HoldsGrow' /\ VersionsAreNamed' /\ ReadersSee'
    BY <1>3, <2>1 DEF WorkIsDue, HoldsGrow, VersionsAreNamed, ReadersSee, AtWork
  <2>3. ASSUME NEW m \in Rounds \ lost', HasAccepted(m) PROVE \E v \in versions : HoldsDecision(m, v)'
    <3>1. ~(AtWork(m) /\ pc = "store" /\ decider[m] = answers)
      BY <2>1, <2>3 DEF AtWork
    <3>2. PICK v \in versions : HoldsDecision(m, v)
      BY <2>1, <2>3, <3>1 DEF DecidedIsHeld
    <3>3. HoldsDecision(m, v)'
      BY <2>1, <3>2 DEF HoldsDecision, AtWork
    <3> QED
      BY <3>3
  <2>4. DecidedIsHeld'
    BY <1>3, <2>1, <2>3 DEF DecidedIsHeld
  <2> QED
    BY <2>2, <2>4
<1>7. ASSUME NEW s \in Steps, Undo(s) PROVE StoreInv'
  <2>0. s[2] \in Rounds /\ s = <<s[1], s[2]>> /\ s[1] \in {"review", "arbitrate"}
    BY DEF Steps
  <2>1. /\ UNCHANGED <<step, pc, answers, read, decider>> /\ pc = "idle"
        /\ undone' = undone \union {s} /\ done' = done \ {s}
    BY <1>7 DEF Undo
  <2>2. CASE s[1] = "review"
    <3>1. /\ UNCHANGED <<arbitrated, versions, lost>> /\ Latest' = Latest /\ filed'[s[2]] = None
          /\ \A m \in Rounds \ {s[2]} : filed'[m] = filed[m]
      BY <1>7, <1>k, <2>0, <2>2 DEF Undo, Kinds, Latest
    <3>2. \A m \in Rounds : (HasAccepted(m)' => HasAccepted(m)) /\ (Missing(m) => Missing(m)')
      BY <2>0, <3>1 DEF HasAccepted, FindingsOf, Missing
    <3>3. \A m : <<"arbitrate", m>> \in done' <=> <<"arbitrate", m>> \in done
      BY <2>0, <2>1, <2>2
    <3>4. WorkIsDue' /\ HoldsGrow' /\ VersionsAreNamed'
      BY <2>1, <3>1, <3>3 DEF WorkIsDue, HoldsGrow, VersionsAreNamed, AtWork
    <3>5. ReadersSee'
      BY <2>1, <3>1, <3>2, <3>3 DEF ReadersSee
    <3>6. \A m \in Rounds, v \in versions : HoldsDecision(m, v) => HoldsDecision(m, v)'
      BY <2>1, <3>1, <3>3 DEF HoldsDecision, AtWork
    <3>7. DecidedIsHeld'
      BY <2>1, <3>1, <3>2, <3>6 DEF DecidedIsHeld, AtWork
    <3> QED
      BY <3>4, <3>5, <3>7
  <2>3. CASE s[1] = "arbitrate"
    <3> DEFINE n == s[2]
    <3>1. /\ UNCHANGED filed /\ arbitrated'[n] = None /\ s = <<"arbitrate", n>>
          /\ \A m \in Rounds \ {n} : arbitrated'[m] = arbitrated[m]
          /\ versions' = {v \in versions : v.number # arbitrated[n]} /\ lost' = lost \union {n}
      BY <1>7, <1>k, <2>0, <2>3 DEF Undo, Kinds
    <3>2. n \in Rounds
      BY <2>0
    <3>3. \A m \in Rounds : arbitrated'[m] # None => m # n /\ arbitrated[m] # None /\ arbitrated[m] # arbitrated[n]
      BY <3>1, <3>2 DEF VersionsAreNamed
    <3>4. \A m : m # n => (<<"arbitrate", m>> \in done' <=> <<"arbitrate", m>> \in done)
      BY <2>1, <3>1
    <3>5. <<"arbitrate", n>> \notin done'
      BY <2>1, <3>1
    <3> HIDE DEF n
    <3>6. WorkIsDue' /\ HoldsGrow'
      BY <2>1, <3>1, <3>4, <3>5 DEF WorkIsDue, HoldsGrow, AtWork
    <3>7. VersionsAreNamed'
      BY <2>1, <3>1, <3>3 DEF VersionsAreNamed
    <3>8. ReadersSee'
      BY <1>3, <2>1, <3>1, <3>4, <3>5 DEF ReadersSee
    <3>9. ASSUME NEW m \in Rounds \ lost', HasAccepted(m) PROVE \E v \in versions' : HoldsDecision(m, v)'
      <4>1. m # n /\ m \notin lost
        BY <3>1, <3>9
      <4>2. PICK v \in versions : HoldsDecision(m, v)
        BY <2>1, <3>9, <4>1 DEF DecidedIsHeld, AtWork
      <4>3. v \in versions'
        BY <3>1, <3>2, <4>1, <4>2 DEF HoldsDecision
      <4>4. \A x \in Rounds \ {m} : arbitrated'[x] # v.number
        <5>1. v.number # None
          BY <1>l, NoneAssumption
        <5> QED
          BY <3>1, <3>2, <4>2, <5>1 DEF HoldsDecision
      <4>5. HoldsDecision(m, v)'
        BY <2>1, <3>1, <3>4, <4>1, <4>2, <4>4 DEF HoldsDecision, AtWork
      <4> QED
        BY <4>3, <4>5
    <3>10. DecidedIsHeld'
      BY <1>3, <3>1, <3>9 DEF DecidedIsHeld
    <3> QED
      BY <3>6, <3>7, <3>8, <3>10
  <2> QED
    BY <2>0, <2>2, <2>3
<1>8. CASE UNCHANGED vars
  <2>1. Latest' = Latest
    BY <1>8 DEF vars, Latest
  <2>2. \A m, v : HoldsDecision(m, v)' = HoldsDecision(m, v)
    BY <1>8, <2>1 DEF vars, HoldsDecision, AtWork
  <2> QED
    BY <1>3, <1>8, <2>1, <2>2 DEF vars, WorkIsDue, HoldsGrow, DecidedIsHeld, VersionsAreNamed, ReadersSee, AtWork
<1> QED
  BY <1>1, <1>2, <1>4, <1>5, <1>6, <1>7, <1>8, <1>9 DEF Next, Loop

------------------------------------------------------------------------------
(* The results.                                                              *)

IInv == StepInHand /\ RoundsInv /\ ReadInv /\ StoreInv

LEMMA Invariant == Spec => [](TypeOK /\ IInv)
<1>1. Init => IInv
  <2> SUFFICES ASSUME Init PROVE IInv
    OBVIOUS
  <2>1. \A n \in Rounds : filed[n] = None /\ arbitrated[n] = None /\ FindingsOf(n) = {}
    BY DEF Init, FindingsOf, Missing
  <2>2. pc = "idle" /\ done = {}
    BY DEF Init
  <2>3. RoundsInv
    BY <2>1, <2>2 DEF RoundsInv, ClosingIsCarried, ArbitratedIsDecided, EarlierIsOver, NoThirdExchange, Missing
  <2>4. ReadInv /\ StepInHand
    BY <2>1, <2>2 DEF ReadInv, ArbitratedBefore, LastReadIsLatest, Missing, StepInHand
  <2>6. HoldsGrow
    BY DEF Init, HoldsGrow
  <2>5. StoreInv
    BY <2>1, <2>2, <2>6 DEF StoreInv, WorkIsDue, DecidedIsHeld, VersionsAreNamed, ReadersSee, HasAccepted, AtWork
  <2> QED
    BY <2>3, <2>4, <2>5 DEF IInv
<1>2. TypeOK /\ IInv /\ [Next]_vars => IInv'
  <2>1. TypeOK /\ IInv /\ [Next]_vars => ArbitratedBefore
    BY DEF IInv, ReadInv
  <2> QED
    BY <2>1, StepStep, RoundsStep, ReadStep, StoreStep DEF IInv
<1> QED
  BY <1>1, <1>2, TypeCorrect, PTL DEF Spec

\* However often an answer was landed twice, a step undone or the process killed: a point the
\* author rejected twice before a round is not put to it again in that round
\* (review/rounds.py `_land_findings`).
THEOREM TwoRejectionsAreEnough == Spec => []NoThirdExchange
<1>1. IInv => NoThirdExchange
  BY DEF IInv, RoundsInv
<1> QED
  BY <1>1, Invariant, PTL

\* What the author accepted is in the version the arbitration names, through every death after the
\* version was stored; a death before that loses it, and then every later reviewer has that version,
\* or a newer one, before it (review/rounds.py `_land_arbitration`, `packet`).
THEOREM AcceptedIsInTheVersion == Spec => []AcceptedIsStored
<1>1. TypeOK /\ IInv => AcceptedIsStored
  <2> SUFFICES ASSUME TypeOK, StoreInv, NEW n \in Rounds, <<"arbitrate", n>> \in done, HasAccepted(n)
               PROVE  /\ n \in lost \/ \E v \in versions : v.number = arbitrated[n] /\ decider[n] \in v.holds
                      /\ <<"arbitrate", n>> \notin undone =>
                           \A k \in Rounds : n < k /\ ~Missing(k) => arbitrated[n] <= read[k]
    BY DEF IInv, AcceptedIsStored, HasAccepted
  <2>1. ~AtWork(n)
    BY DEF StoreInv, WorkIsDue
  <2>2. n \notin lost => \E v \in versions : HoldsDecision(n, v)
    BY <2>1 DEF StoreInv, DecidedIsHeld
  <2> QED
    BY <2>2 DEF HoldsDecision, StoreInv, ReadersSee
<1> QED
  BY <1>1, Invariant, PTL

LEMMA LastRoundExists ==
  ASSUME TypeOK, IsDone
  PROVE  LastRound \in RoundsFiled /\ (filed[LastRound] = <<>> \/ Closing(LastRound))
<1> DEFINE T == {n \in RoundsFiled : filed[n] = <<>> \/ Closing(n)}
           Is(n) == (filed[n] = <<>> \/ Closing(n)) /\ \A k \in 1..(n - 1) : filed[k] # <<>>
<1>0. RoundsFiled \subseteq Nat
  BY DEF RoundsFiled, Rounds
<1>1. T # {} /\ T \in SUBSET Nat
  BY <1>0 DEF IsDone, Converged, Closing
<1>2. PICK n \in T : \A m \in T : n <= m
  BY <1>1, LeastOfNaturals
<1>3. ASSUME NEW k \in 1..(n - 1) PROVE filed[k] # <<>>
  <2>1. k \in RoundsFiled /\ ~(n <= k)
    BY DEF RoundsFiled, Rounds
  <2> QED
    BY <1>2, <2>1
<1>4. \E m \in RoundsFiled : Is(m)
  BY <1>2, <1>3
<1>5. LastRound = CHOOSE m \in RoundsFiled : Is(m)
  BY DEF LastRound
<1> HIDE DEF Is
<1>6. LastRound \in RoundsFiled /\ Is(LastRound)
  BY <1>4, <1>5
<1> QED
  BY <1>6 DEF Is

\* When the loop is over nothing is open and the verdict cannot ask for a revision, unless a
\* review was undone; and the round that ended it read the version every later step uses, unless
\* an arbitration was undone (review/rounds.py `steps`, `is_done`, `packet`).
THEOREM LoopEndsReviewed == Spec => []EndsReviewed
<1>1. TypeOK /\ IInv => SettledAtEnd
  <2> SUFFICES ASSUME TypeOK, IInv, IsDone, \A n \in Rounds : Reviewed(n)
               PROVE  Verdict # "revise" /\ \A f \in AllRunFindings : f.status # "open"
    BY DEF SettledAtEnd, Over, Reviewed
  <2>0. EarlierIsOver /\ ClosingIsCarried
    BY DEF IInv, RoundsInv
  <2>1. \A n \in Rounds : ~Missing(n) =>
          \A k \in 1..(n - 1) : ~Missing(k) /\ filed[k] # <<>> /\ \A f \in FindingsOf(k) : f.status # "open"
    <3>1. \A n \in Rounds : 1..(n - 1) \subseteq Rounds
      BY DEF Rounds
    <3> QED
      BY <2>0, <3>1 DEF EarlierIsOver
  <2>2. ASSUME NEW n \in Rounds, NEW f \in FindingsOf(n), f.status = "open" PROVE FALSE
    <3>1. ~Missing(n) /\ filed[n] # <<>> /\ n # Cap + 1
      BY <2>0, <2>2 DEF FindingsOf, ClosingIsCarried, Closing
    <3>2. PICK m \in RoundsFiled : filed[m] = <<>> \/ m = Cap + 1
      BY DEF IsDone, Converged
    <3>3. m \in Rounds /\ ~Missing(m) /\ m # n
      BY <3>1, <3>2 DEF RoundsFiled, Rounds
    <3>4. CASE n < m
      <4>1. n \in 1..(m - 1)
        BY <3>3, <3>4 DEF Rounds
      <4> QED
        BY <2>1, <2>2, <3>3, <4>1
    <3>5. CASE m < n
      <4>1. m \in 1..(n - 1) /\ m # Cap + 1
        BY <3>3, <3>5 DEF Rounds
      <4> QED
        BY <2>1, <3>1, <3>2, <4>1
    <3> QED
      BY <3>3, <3>4, <3>5 DEF Rounds
  <2>3. \A f \in AllRunFindings : f.status # "open"
    BY <2>2 DEF AllRunFindings
  <2>4. Verdict # "revise"
    <3> DEFINE unsettled == {f \in AllFindings : f.status \in {"open", "carried", "escalated"}}
               closed == Cap + 1 \in RoundsFiled
    <3>1. ASSUME NEW f \in unsettled, f.status # "escalated" PROVE closed
      <4>1. PICK n \in RoundsFiled : f \in FindingsOf(n)
        BY DEF AllFindings
      <4>2. n \in Rounds /\ f.status = "carried"
        BY <2>2, <3>1, <4>1 DEF RoundsFiled
      <4> QED
        BY <2>0, <4>1, <4>2 DEF ClosingIsCarried, Closing
    <3>2. CASE unsettled = {}
      BY <3>2 DEF Verdict
    <3>3. CASE /\ unsettled # {}
               /\ \/ \E f \in unsettled : f.status = "escalated"
                  \/ closed /\ \E f \in unsettled : f.point \in Blocking
      BY <3>3 DEF Verdict
    <3>4. CASE /\ unsettled # {}
               /\ ~\/ \E f \in unsettled : f.status = "escalated"
                   \/ closed /\ \E f \in unsettled : f.point \in Blocking
      BY <3>1, <3>4 DEF Verdict
    <3> QED
      BY <3>2, <3>3, <3>4
  <2> QED
    BY <2>3, <2>4
<1>2. TypeOK /\ IInv => LastRevisionReviewed
  <2> SUFFICES ASSUME TypeOK, IInv, NoArbitrationUndone, IsDone PROVE read[LastRound] = Latest
    BY DEF LastRevisionReviewed, NeverUnreviewed, NoArbitrationUndone, Over
  <2>1. LastReadIsLatest
    BY DEF IInv, ReadInv, NoArbitrationUndone
  <2>2. LastRound \in Rounds /\ ~Missing(LastRound) /\ (filed[LastRound] = <<>> \/ Closing(LastRound))
    BY LastRoundExists DEF RoundsFiled, Rounds
  <2> QED
    BY <2>1, <2>2 DEF LastReadIsLatest
<1>3. TypeOK /\ IInv => EndsReviewed
  BY <1>1, <1>2 DEF EndsReviewed
<1> QED
  BY <1>3, Invariant, PTL
==============================================================================
