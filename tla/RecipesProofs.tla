----------------------------- MODULE RecipesProofs -----------------------------
(***************************************************************************)
(* What holds of every run of the recipes, for any properties, rounds of   *)
(* fixing and times a gate is sent back: the kinds, the ids given, the     *)
(* contract that is built, the rulings, the report.  And, at the end, of   *)
(* the documents the code builder's steps write and of the clauses it      *)
(* reports on (modules Documents and Verification).                        *)
(***************************************************************************)
EXTENDS Recipes, Documents, Verification, FiniteSetTheorems, WellFoundedInduction, TLAPS

Numbers == Nat \ {0}
Gates == {"ledger", "blocks", "tolerances", "verification", "rubric", "verdict"}

\* A step's key: the kind of work, then what it is about.
StepKeys ==
  {<<w>> : w \in {"freeze", "fill", "coverage", "judge", "report"}}
    \union {<<"store", a>> : a \in Artifacts} \union {<<"loop", l>> : l \in Loops}
    \union {<<"write", f>> : f \in BuildFiles} \union {<<"case", s>> : s \in Sides}
    \union {<<"verify", c>> : c \in Numbers} \union {<<"revise", r>> : r \in Numbers}
    \union {<<"gate", g, r>> : g \in Gates, r \in Numbers}
    \union {<<"fix", f, c>> : f \in BuildFiles, c \in Numbers}
    \union {<<"ruling", p, q, c>> : p \in Props, q \in {1, 2}, c \in Numbers}

Answers == {"proceed", "revise", "set", "blank", "supported", "undecided"}
Rulings == {"test_bug", "test_stands", "implementation_bug", "contract_ambiguity"}
Judged == {"supported", "refuted", "undecided"}

Hands == [key : StepKeys, pc : {"call", "write", "freeze", "mark", "landed"}, seen : Nat]

\* Every variable holds a value of its kind.
TypeOK ==
  /\ version \in [Artifacts -> BOOLEAN]
  /\ decision \subseteq [gate : Gates \X Numbers, answer : Answers]
  /\ marks \subseteq StepKeys
  /\ undecided \in BOOLEAN /\ frozen \in BOOLEAN
  /\ written \subseteq BuildFiles
  /\ results \in Seq([failing : SUBSET Props, current : BOOLEAN])
  /\ rulings \subseteq [property : Props, question : {1, 2}, cycle : Numbers, verdict : Rulings, id : Nat, fresh : BOOLEAN]
  /\ \E n \in Nat : \A r \in rulings : r.id <= n
  /\ case \in [Sides -> Nat]
  /\ verdict \in Judged \union {None}
  /\ report \in Nat \union Judged \union Answers \union {None}
  /\ recipe \in {"code_builder", "debate"} /\ pool \in BOOLEAN
  /\ done \subseteq StepKeys /\ hand \subseteq Hands
  /\ cut \subseteq {"fill", "verify", "ruling"}
  /\ faults \in 0..MaxFaults

------------------------------------------------------------------------------
(* Keys and lines. *)

\* A set of naturals with a member has a least one.
LEMMA LeastOfNaturals ==
  ASSUME NEW T \in SUBSET Nat, T # {}
  PROVE  \E x \in T : \A y \in T : x <= y
<1>1. PICK x \in T : \A y \in T : <<y, x>> \notin OpToRel(<, Nat)
  BY NatLessThanWellFounded, WFMin
<1>2. \A y \in T : ~(y < x)
  BY <1>1 DEF OpToRel
<1> QED
  BY <1>2

\* A key is its kind of work and what that kind is about.
LEMMA KeyShapes ==
  ASSUME NEW k \in StepKeys
  PROVE  /\ k[1] = "store" => k[2] \in Artifacts /\ k = <<"store", k[2]>>
         /\ k[1] = "loop" => k[2] \in Loops /\ k = <<"loop", k[2]>>
         /\ k[1] = "write" => k[2] \in BuildFiles /\ k = <<"write", k[2]>>
         /\ k[1] = "case" => k[2] \in Sides
         /\ k[1] = "verify" => k[2] \in Numbers /\ k = <<"verify", k[2]>>
         /\ k[1] = "revise" => k[2] \in Numbers /\ k = <<"revise", k[2]>>
         /\ k[1] = "gate" => k[2] \in Gates /\ k[3] \in Numbers /\ k = <<"gate", k[2], k[3]>>
         /\ k[1] = "fix" => k[2] \in BuildFiles /\ k[3] \in Numbers /\ k = <<"fix", k[2], k[3]>>
         /\ k[1] = "ruling" => /\ k[2] \in Props /\ k[3] \in {1, 2} /\ k[4] \in Numbers
                               /\ k = <<"ruling", k[2], k[3], k[4]>>
BY DEF StepKeys

\* The first stretch of the design line.
LEMMA OpeningIsALine ==
  /\ OpeningLine \in Seq(StepKeys) /\ Len(OpeningLine) = 8
BY DEF OpeningLine, StepKeys, Artifacts, Loops, Gates, Numbers

\* The last stretch.
LEMMA VSpecIsALine ==
  VSpecLine \in Seq(StepKeys) /\ Len(VSpecLine) = 5
BY DEF VSpecLine, StepKeys, Artifacts, Loops, Gates, Numbers

\* The freeze, with the tolerances or without.
LEMMA FreezeIsALine ==
  FreezeLine \in Seq(StepKeys) /\ Len(FreezeLine) = (IF undecided THEN 3 ELSE 1)
<1>1. CASE undecided
  BY <1>1 DEF FreezeLine, StepKeys, Gates, Numbers
<1>2. CASE ~undecided
  BY <1>2 DEF FreezeLine, StepKeys
<1> QED
  BY <1>1, <1>2

\* How often the blocks were sent back is a number.
LEMMA SentIsANumber == SentBack \subseteq Nat /\ IsFiniteSet(SentBack) /\ Cardinality(SentBack) \in Nat
<1>1. SentBack \in SUBSET (1..MaxRevise)
  BY DEF SentBack
<1>2. IsFiniteSet(1..MaxRevise)
  BY RecipeAssumption, FS_Interval
<1>3. IsFiniteSet(SentBack)
  BY <1>1, <1>2, FS_Subset
<1> QED
  BY <1>1, <1>3, FS_CardinalityType

\* The gates on the blocks, with a revision between two.
LEMMA BlocksIsALine ==
  BlocksLine \in Seq(StepKeys) /\ Len(BlocksLine) = 2 * Cardinality(SentBack) + 1
<1> DEFINE n == Cardinality(SentBack)
<1>1. n \in Nat
  BY SentIsANumber
<1> HIDE DEF n
<1>2. \A i \in 1..(2 * n + 1) : i % 2 = 1 => (i + 1) \div 2 \in Numbers
  BY <1>1 DEF Numbers
<1>3. \A i \in 1..(2 * n + 1) : i % 2 # 1 => i \div 2 \in Numbers
  BY <1>1 DEF Numbers
<1>4. \A i \in 1..(2 * n + 1) :
        (IF i % 2 = 1 THEN <<"gate", "blocks", (i + 1) \div 2>> ELSE <<"revise", i \div 2>>) \in StepKeys
  BY <1>2, <1>3 DEF StepKeys, Gates
<1>5. BlocksLine = [i \in 1..(2 * n + 1) |-> IF i % 2 = 1 THEN <<"gate", "blocks", (i + 1) \div 2>> ELSE <<"revise", i \div 2>>]
  BY DEF BlocksLine, n
<1>6. 2 * n + 1 \in Nat
  BY <1>1
<1>7. BlocksLine \in [1..(2 * n + 1) -> StepKeys]
  BY <1>4, <1>5
<1> QED
  BY <1>6, <1>7 DEF n

\* A line that goes on: its steps are those of its first stretch and, once that is walked, those
\* of the second, the first of which waits for the last before it.
Continues(s, a, b) ==
  /\ Through(a)
  /\ \E i \in 1..Len(b) : s.key = b[i] /\ s.after = {IF i = 1 THEN a[Len(a)] ELSE b[i - 1]}

\* The steps of a joined line are those of its first stretch, or continue it.
LEMMA JoinedSteps ==
  ASSUME NEW a \in Seq(StepKeys), NEW b \in Seq(StepKeys), Len(a) > 0, NEW s \in LineSteps(a \o b)
  PROVE  s \in LineSteps(a) \/ Continues(s, a, b)
<1> DEFINE ab == a \o b
<1>1. /\ ab \in Seq(StepKeys) /\ Len(ab) = Len(a) + Len(b)
      /\ \A i \in 1..Len(a) : ab[i] = a[i]
      /\ \A i \in 1..Len(b) : ab[Len(a) + i] = b[i]
      /\ DOMAIN ab = 1..Len(ab) /\ DOMAIN a = 1..Len(a) /\ DOMAIN b = 1..Len(b)
  OBVIOUS
<1>2. PICK i \in 1..Len(ab) : /\ \A h \in 1..(i - 1) : Exists(ab[h])
                              /\ s = [key |-> ab[i], after |-> IF i = 1 THEN {} ELSE {ab[i - 1]}]
  BY <1>1 DEF LineSteps
<1> HIDE DEF ab
<1>3. CASE i <= Len(a)
  <2>1. \A h \in 1..(i - 1) : Exists(a[h])
    <3>1. TAKE h \in 1..(i - 1)
    <3>2. ab[h] = a[h] /\ Exists(ab[h])
      BY <1>1, <1>2, <1>3
    <3> QED
      BY <3>2
  <2>2. ab[i] = a[i] /\ (i # 1 => ab[i - 1] = a[i - 1])
    BY <1>1, <1>2, <1>3
  <2>3. s = [key |-> a[i], after |-> IF i = 1 THEN {} ELSE {a[i - 1]}] /\ i \in DOMAIN a
    <3>1. i \in DOMAIN a
      BY <1>1, <1>3
    <3>2. CASE i = 1
      BY <1>2, <2>2, <3>1, <3>2
    <3>3. CASE i # 1
      BY <1>2, <2>2, <3>1, <3>3
    <3> QED
      BY <3>2, <3>3
  <2> QED
    BY <2>1, <2>3 DEF LineSteps
<1>4. CASE i > Len(a)
  <2>0. PICK j \in 1..Len(b) : i = Len(a) + j
    <3>1. i - Len(a) \in 1..Len(b) /\ i = Len(a) + (i - Len(a))
      BY <1>1, <1>4
    <3> QED
      BY <3>1
  <2>1. Through(a)
    <3>1. ASSUME NEW h \in 1..Len(a) PROVE Exists(a[h])
      <4>1. h \in 1..(i - 1) /\ ab[h] = a[h]
        BY <1>1, <1>4
      <4> QED
        BY <4>1, <1>2
    <3> QED
      BY <1>1, <3>1 DEF Through
  <2>3. s.key = b[j]
    BY <1>1, <1>2, <2>0
  <2>4. s.after = {IF j = 1 THEN a[Len(a)] ELSE b[j - 1]}
    <3>1. i # 1 /\ s.after = {ab[i - 1]}
      BY <1>2, <1>4
    <3>2. CASE j = 1
      BY <3>1, <3>2, <1>1, <2>0
    <3>3. CASE j # 1
      <4>1. j - 1 \in 1..Len(b) /\ i - 1 = Len(a) + (j - 1)
        BY <2>0, <3>3
      <4>2. ab[i - 1] = b[j - 1]
        BY <1>1, <4>1
      <4> QED
        BY <3>1, <3>3, <4>2
    <3> QED
      BY <3>2, <3>3
  <2> QED
    BY <2>1, <2>3, <2>4 DEF Continues
<1>5. i <= Len(a) \/ i > Len(a)
  BY <1>1
<1> QED
  BY <1>3, <1>4, <1>5

\* Two stretches in a row are a line, which ends as the second does.
LEMMA JoinedLine ==
  ASSUME NEW a \in Seq(StepKeys), NEW b \in Seq(StepKeys), Len(b) > 0
  PROVE  /\ a \o b \in Seq(StepKeys) /\ Len(a \o b) = Len(a) + Len(b)
         /\ (a \o b)[Len(a \o b)] = b[Len(b)]
<1>1. a \o b \in Seq(StepKeys) /\ Len(a \o b) = Len(a) + Len(b) /\ \A i \in 1..Len(b) : (a \o b)[Len(a) + i] = b[i]
  OBVIOUS
<1>2. Len(b) \in 1..Len(b) /\ Len(a) \in Nat
  OBVIOUS
<1> QED
  BY <1>1, <1>2

\* Steps that were all taken leave a line walked.
LEMMA LineIsWalked ==
  ASSUME NEW line \in Seq(StepKeys), \A s \in LineSteps(line) : Exists(s.key)
  PROVE  Through(line)
<1> DEFINE T == {i \in 1..Len(line) : ~Exists(line[i])}
<1>1. SUFFICES ASSUME T # {} PROVE FALSE
  BY DEF Through
<1>2. PICK i \in T : \A j \in T : i <= j
  <2>1. T \in SUBSET Nat
    OBVIOUS
  <2> HIDE DEF T
  <2> QED
    BY <1>1, <2>1, LeastOfNaturals
<1>3. \A h \in 1..(i - 1) : Exists(line[h])
  <2>1. TAKE h \in 1..(i - 1)
  <2>2. h \in 1..Len(line) /\ ~(i <= h)
    BY <1>2
  <2> QED
    BY <1>2, <2>2
<1>4. [key |-> line[i], after |-> IF i = 1 THEN {} ELSE {line[i - 1]}] \in LineSteps(line)
  <2>1. i \in {j \in DOMAIN line : \A h \in 1..(j - 1) : Exists(line[h])}
    BY <1>2, <1>3
  <2> QED
    BY <2>1 DEF LineSteps
<1> QED
  BY <1>2, <1>4
Sent == Cardinality(SentBack)

\* The blocks line: a gate, then for each time it was sent back a revision and a gate.
LEMMA BlocksEntries ==
  ASSUME NEW i \in 1..Len(BlocksLine)
  PROVE  \/ \E r \in 1..(Sent + 1) : /\ i = 2 * r - 1 /\ BlocksLine[i] = <<"gate", "blocks", r>>
                                     /\ r # 1 => BlocksLine[i - 1] = <<"revise", r - 1>>
         \/ \E r \in 1..Sent : /\ i = 2 * r /\ BlocksLine[i] = <<"revise", r>>
                               /\ BlocksLine[i - 1] = <<"gate", "blocks", r>>
<1> DEFINE n == Sent
<1>1. n \in Nat
  BY SentIsANumber DEF Sent
<1>2. BlocksLine = [j \in 1..(2 * n + 1) |-> IF j % 2 = 1 THEN <<"gate", "blocks", (j + 1) \div 2>> ELSE <<"revise", j \div 2>>]
  BY DEF BlocksLine, Sent
<1>3. Len(BlocksLine) = 2 * n + 1
  BY BlocksIsALine DEF Sent
<1> HIDE DEF n
<1>4. i \in 1..(2 * n + 1)
  BY <1>3
<1>5. CASE i % 2 = 1
  <2>1. PICK r \in 1..(n + 1) : i = 2 * r - 1
    <3>1. (i + 1) \div 2 \in 1..(n + 1) /\ i = 2 * ((i + 1) \div 2) - 1
      BY <1>1, <1>4, <1>5
    <3> QED
      BY <3>1
  <2>2. (i + 1) \div 2 = r
    BY <1>1, <2>1
  <2>3. BlocksLine[i] = <<"gate", "blocks", r>>
    BY <1>2, <1>4, <1>5, <2>2
  <2>4. r # 1 => BlocksLine[i - 1] = <<"revise", r - 1>>
    <3>1. SUFFICES ASSUME r # 1 PROVE BlocksLine[i - 1] = <<"revise", r - 1>>
      OBVIOUS
    <3>2. i - 1 \in 1..(2 * n + 1) /\ (i - 1) % 2 # 1 /\ (i - 1) \div 2 = r - 1
      BY <1>1, <1>4, <2>1, <3>1
    <3> QED
      BY <1>2, <3>2
  <2> QED
    BY <2>1, <2>3, <2>4 DEF n
<1>6. CASE i % 2 # 1
  <2>1. PICK r \in 1..n : i = 2 * r
    <3>1. i \div 2 \in 1..n /\ i = 2 * (i \div 2)
      BY <1>1, <1>4, <1>6
    <3> QED
      BY <3>1
  <2>2. i \div 2 = r
    BY <1>1, <2>1
  <2>3. BlocksLine[i] = <<"revise", r>>
    BY <1>2, <1>4, <1>6, <2>2
  <2>4. BlocksLine[i - 1] = <<"gate", "blocks", r>>
    <3>1. i - 1 \in 1..(2 * n + 1) /\ (i - 1) % 2 = 1 /\ ((i - 1) + 1) \div 2 = r
      BY <1>1, <1>4, <2>1
    <3> QED
      BY <1>2, <3>1
  <2> QED
    BY <2>1, <2>3, <2>4 DEF n
<1> QED
  BY <1>5, <1>6

\* What the steps of the design line are and wait for.
DesignKey(s) ==
  \/ \E i \in 1..8 : s.key = OpeningLine[i] /\ s.after = IF i = 1 THEN {} ELSE {OpeningLine[i - 1]}
  \/ \E r \in 1..(Sent + 1) :
       /\ s.key = <<"gate", "blocks", r>>
       /\ s.after = {IF r = 1 THEN <<"loop", "audit">> ELSE <<"revise", r - 1>>}
  \/ \E r \in 1..Sent : s.key = <<"revise", r>> /\ s.after = {<<"gate", "blocks", r>>}
  \/ /\ s.key = <<"freeze">> /\ s.after = {<<"gate", "blocks", Sent + 1>>}
     /\ Answer(<<"blocks", Sent + 1>>) # None
  \/ undecided /\ s.key = <<"gate", "tolerances", 1>> /\ s.after = {<<"freeze">>}
  \/ undecided /\ s.key = <<"fill">> /\ s.after = {<<"gate", "tolerances", 1>>}
  \/ s.key = <<"store", "vspec">> /\ s.after = {IF undecided THEN <<"fill">> ELSE <<"freeze">>}
  \/ s.key = <<"loop", "vspec">> \/ s.key = <<"coverage">> \/ s.key = <<"gate", "verification", 1>>
  \/ s.key = <<"store", "tasks">>

\* The steps the design line shows are the ones DesignKey tells.
LEMMA DesignSteps ==
  ASSUME NEW s \in LineSteps(DesignLine)
  PROVE  DesignKey(s)
<1> DEFINE ob == OpeningLine \o BlocksLine
           obf == ob \o FreezeLine
<1>0. Sent \in Nat /\ Len(BlocksLine) = 2 * Sent + 1
  BY SentIsANumber, BlocksIsALine DEF Sent
<1>1. /\ OpeningLine \in Seq(StepKeys) /\ BlocksLine \in Seq(StepKeys) /\ FreezeLine \in Seq(StepKeys) /\ VSpecLine \in Seq(StepKeys)
      /\ Len(OpeningLine) = 8 /\ Len(VSpecLine) = 5
      /\ Len(FreezeLine) = IF undecided THEN 3 ELSE 1
  BY OpeningIsALine, BlocksIsALine, FreezeIsALine, VSpecIsALine
<1>2. /\ ob \in Seq(StepKeys) /\ Len(ob) = 8 + Len(BlocksLine)
      /\ ob[Len(ob)] = BlocksLine[Len(BlocksLine)]
  <2>1. Len(BlocksLine) > 0
    BY <1>0
  <2>2. /\ ob \in Seq(StepKeys) /\ Len(ob) = Len(OpeningLine) + Len(BlocksLine)
        /\ ob[Len(ob)] = BlocksLine[Len(BlocksLine)]
    BY <1>1, <2>1, JoinedLine
  <2> QED
    BY <1>1, <2>2
<1>3. /\ obf \in Seq(StepKeys) /\ Len(obf) = Len(ob) + Len(FreezeLine)
      /\ obf[Len(obf)] = FreezeLine[Len(FreezeLine)]
  <2>1. Len(FreezeLine) > 0
    BY <1>1
  <2> HIDE DEF ob
  <2> QED
    BY <1>1, <1>2, <2>1, JoinedLine
<1>4. DesignLine = obf \o VSpecLine
  BY DEF DesignLine
<1>5. BlocksLine[Len(BlocksLine)] = <<"gate", "blocks", Sent + 1>>
  <2>1. Len(BlocksLine) \in 1..Len(BlocksLine)
    BY <1>0
  <2> QED
    BY <1>0, <2>1, BlocksEntries
<1>6. OpeningLine[8] = <<"loop", "audit">> /\ Len(OpeningLine) > 0 /\ Len(ob) > 0 /\ Len(obf) > 0
  BY <1>0, <1>1, <1>2, <1>3 DEF OpeningLine
<1>7. Exists(<<"gate", "blocks", Sent + 1>>) => Answer(<<"blocks", Sent + 1>>) # None
  BY DEF Exists
<1> HIDE DEF ob, obf
<1>a. CASE s \in LineSteps(OpeningLine)
  <2>1. PICK i \in 1..8 : s = [key |-> OpeningLine[i], after |-> IF i = 1 THEN {} ELSE {OpeningLine[i - 1]}]
    BY <1>1, <1>a DEF LineSteps
  <2> QED
    BY <2>1 DEF DesignKey
<1>b. ASSUME NEW i \in 1..Len(BlocksLine), s.key = BlocksLine[i],
             s.after = {IF i = 1 THEN OpeningLine[Len(OpeningLine)] ELSE BlocksLine[i - 1]}
      PROVE  DesignKey(s)
  <2>1. CASE \E r \in 1..(Sent + 1) : /\ i = 2 * r - 1 /\ BlocksLine[i] = <<"gate", "blocks", r>>
                                      /\ r # 1 => BlocksLine[i - 1] = <<"revise", r - 1>>
    <3>1. PICK r \in 1..(Sent + 1) : /\ i = 2 * r - 1 /\ BlocksLine[i] = <<"gate", "blocks", r>>
                                     /\ r # 1 => BlocksLine[i - 1] = <<"revise", r - 1>>
      BY <2>1
    <3>2. i = 1 <=> r = 1
      BY <1>0, <3>1
    <3>3. s.key = <<"gate", "blocks", r>> /\ s.after = {IF r = 1 THEN <<"loop", "audit">> ELSE <<"revise", r - 1>>}
      BY <1>1, <1>6, <1>b, <3>1, <3>2
    <3> QED
      BY <3>3 DEF DesignKey
  <2>2. CASE \E r \in 1..Sent : /\ i = 2 * r /\ BlocksLine[i] = <<"revise", r>>
                                /\ BlocksLine[i - 1] = <<"gate", "blocks", r>>
    <3>1. PICK r \in 1..Sent : /\ i = 2 * r /\ BlocksLine[i] = <<"revise", r>>
                               /\ BlocksLine[i - 1] = <<"gate", "blocks", r>>
      BY <2>2
    <3>2. i # 1
      BY <1>0, <3>1
    <3>3. s.key = <<"revise", r>> /\ s.after = {<<"gate", "blocks", r>>}
      BY <1>b, <3>1, <3>2
    <3> QED
      BY <3>3 DEF DesignKey
  <2> QED
    BY <2>1, <2>2, BlocksEntries
<1>c. ASSUME NEW i \in 1..Len(FreezeLine), s.key = FreezeLine[i], Through(ob),
             s.after = {IF i = 1 THEN ob[Len(ob)] ELSE FreezeLine[i - 1]}
      PROVE  DesignKey(s)
  <2>1. Exists(<<"gate", "blocks", Sent + 1>>)
    <3>1. Len(ob) \in DOMAIN ob
      BY <1>2, <1>6
    <3> QED
      BY <1>2, <1>5, <1>c, <3>1 DEF Through
  <2>2. ob[Len(ob)] = <<"gate", "blocks", Sent + 1>>
    BY <1>2, <1>5
  <2>3. FreezeLine[1] = <<"freeze">>
    BY DEF FreezeLine
  <2>4. undecided => FreezeLine[2] = <<"gate", "tolerances", 1>> /\ FreezeLine[3] = <<"fill">>
    BY DEF FreezeLine
  <2>5. CASE i = 1
    BY <1>7, <1>c, <2>1, <2>2, <2>3, <2>5 DEF DesignKey
  <2>6. CASE i # 1
    <3>1. undecided /\ i \in {2, 3}
      BY <1>1, <2>6
    <3>2. CASE i = 2
      <4>1. s.key = <<"gate", "tolerances", 1>> /\ s.after = {<<"freeze">>}
        <5>1. i - 1 = 1 /\ i # 1
          BY <3>2
        <5>2. s.after = {FreezeLine[i - 1]}
          BY <1>c, <5>1
        <5>3. FreezeLine[i] = FreezeLine[2] /\ FreezeLine[i - 1] = FreezeLine[1]
          BY <3>2, <5>1
        <5> QED
          BY <1>c, <2>3, <2>4, <3>1, <5>2, <5>3
      <4> QED
        BY <3>1, <4>1 DEF DesignKey
    <3>3. CASE i = 3
      <4>1. s.key = <<"fill">> /\ s.after = {<<"gate", "tolerances", 1>>}
        <5>1. i - 1 = 2 /\ i # 1
          BY <3>3
        <5>2. s.after = {FreezeLine[i - 1]}
          BY <1>c, <5>1
        <5>3. FreezeLine[i] = FreezeLine[3] /\ FreezeLine[i - 1] = FreezeLine[2]
          BY <3>3, <5>1
        <5> QED
          BY <1>c, <2>4, <3>1, <5>2, <5>3
      <4> QED
        BY <3>1, <4>1 DEF DesignKey
    <3> QED
      BY <3>1, <3>2, <3>3
  <2> QED
    BY <2>5, <2>6
<1>d. ASSUME NEW i \in 1..Len(VSpecLine), s.key = VSpecLine[i],
             s.after = {IF i = 1 THEN obf[Len(obf)] ELSE VSpecLine[i - 1]}
      PROVE  DesignKey(s)
  <2>1. i \in {1, 2, 3, 4, 5}
    BY <1>1
  <2>2. obf[Len(obf)] = IF undecided THEN <<"fill">> ELSE <<"freeze">>
    BY <1>1, <1>3 DEF FreezeLine
  <2>3. /\ VSpecLine[1] = <<"store", "vspec">> /\ VSpecLine[2] = <<"loop", "vspec">> /\ VSpecLine[3] = <<"coverage">>
        /\ VSpecLine[4] = <<"gate", "verification", 1>> /\ VSpecLine[5] = <<"store", "tasks">>
    BY DEF VSpecLine
  <2>4. CASE i = 1
    BY <1>d, <2>2, <2>3, <2>4 DEF DesignKey
  <2>5. CASE i # 1
    BY <1>d, <2>1, <2>3, <2>5 DEF DesignKey
  <2> QED
    BY <2>4, <2>5
<1>e. s \in LineSteps(obf) \/ Continues(s, obf, VSpecLine)
  BY <1>1, <1>3, <1>4, <1>6, JoinedSteps
<1>f. s \in LineSteps(obf) => s \in LineSteps(ob) \/ Continues(s, ob, FreezeLine)
  BY <1>1, <1>2, <1>6, JoinedSteps DEF obf
<1>g. s \in LineSteps(ob) => s \in LineSteps(OpeningLine) \/ Continues(s, OpeningLine, BlocksLine)
  BY <1>1, <1>6, JoinedSteps DEF ob
<1>h. Continues(s, obf, VSpecLine) => DesignKey(s)
  BY <1>d DEF Continues
<1>i. Continues(s, ob, FreezeLine) => DesignKey(s)
  BY <1>c DEF Continues
<1>j. Continues(s, OpeningLine, BlocksLine) => DesignKey(s)
  BY <1>b DEF Continues
<1> QED
  BY <1>a, <1>e, <1>f, <1>g, <1>h, <1>i, <1>j
\* What the steps behind the design line are and wait for.
BuildKey(s) ==
  \/ \E f \in BuildFiles : s.key = <<"write", f>>
  \/ \E c \in Cycles : s.key = <<"verify", c>> /\ s = VerifyStep(c)
  \/ \E c \in Open, p \in Props :
       /\ Triaged(c) /\ p \in Failing(c)
       /\ s.key = <<"ruling", p, 1, c>> /\ s.after = {<<"verify", c>>}
  \/ \E c \in Open, p \in Props :
       /\ Triaged(c) /\ p \in Failing(c) /\ Ruling(p, 1, c) = "test_stands"
       /\ s.key = <<"ruling", p, 2, c>> /\ s.after = {<<"ruling", p, 1, c>>}
  \/ \E c \in Open, f \in BuildFiles :
       /\ Triaged(c) /\ RulingsIn(c) /\ f \in ToFix(c)
       /\ s.key = <<"fix", f, c>> /\ s.after = {LastRuling(p, c) : p \in Failing(c)}
  \/ \E c \in Open :
       /\ Triaged(c) => RulingsIn(c) /\ ToFix(c) = {}
       /\ s.key = <<"report">> /\ s.after = {<<"verify", c>>}

\* And what those of the debate are.
DebateKey(s) ==
  \/ s.key \in {<<"store", a>> : a \in {"brief", "hypotheses", "rebuttal"}}
  \/ s.key = <<"loop", "hypotheses">> \/ s.key = <<"gate", "rubric", 1>>
  \/ \E z \in Sides : s.key = <<"case", z>>
  \/ s.key = <<"judge">>
  \/ s.key = <<"gate", "verdict", 1>> /\ s.after = {<<"judge">>}
  \/ s.key = <<"report">> /\ s.after = {<<"gate", "verdict", 1>>}

\* A version of the results is of its kind.
LEMMA ResultsAre ==
  ASSUME TypeOK, NEW c \in 1..Len(results)
  PROVE  results[c] \in [failing : SUBSET Props, current : BOOLEAN]
<1> DEFINE R == [failing : SUBSET Props, current : BOOLEAN]
<1>1. results \in Seq(R)
  BY DEF TypeOK
<1> HIDE DEF R
<1>2. results[c] \in R
  BY <1>1
<1> QED
  BY <1>2 DEF R

\* An open cycle has results, and what fails in it are properties.
LEMMA FailingAreProps ==
  ASSUME TypeOK, NEW c \in Open
  PROVE  c \in 1..Len(results) /\ c \in 1..(FixRounds + 1) /\ Failing(c) \subseteq Props
<1>1. c \in 1..(FixRounds + 1) /\ Len(results) >= c
  BY DEF Open, Cycles
<1>2. c \in 1..Len(results)
  BY <1>1, RecipeAssumption DEF TypeOK
<1>3. results[c] \in [failing : SUBSET Props, current : BOOLEAN]
  BY <1>2, ResultsAre
<1>4. results[c].failing \in SUBSET Props
  BY <1>3
<1> QED
  BY <1>1, <1>2, <1>4 DEF Failing

\* The steps listed behind the design line are the ones BuildKey tells.
LEMMA BuildStepsAre ==
  ASSUME TypeOK, NEW s \in BuildSteps \union TriageSteps \union ReportStep
  PROVE  BuildKey(s)
<1>1. CASE s \in BuildSteps
  BY <1>1 DEF BuildSteps, BuildKey
<1>2. CASE s \in ReportStep
  BY <1>2 DEF ReportStep, BuildKey
<1>3. CASE s \in {VerifyStep(c) : c \in Cycles}
  BY <1>3 DEF BuildKey, VerifyStep
<1>4. ASSUME NEW c \in Open, Triaged(c), s \in RulingSteps(c)
      PROVE  BuildKey(s)
  <2>1. Failing(c) \subseteq Props
    BY FailingAreProps
  <2>2. CASE s \in {[key |-> <<"ruling", p, 1, c>>, after |-> {<<"verify", c>>}] : p \in Failing(c)}
    BY <1>4, <2>1, <2>2 DEF BuildKey
  <2>3. CASE s \in {[key |-> <<"ruling", p, 2, c>>, after |-> {<<"ruling", p, 1, c>>}] :
                      p \in {x \in Failing(c) : Ruling(x, 1, c) = "test_stands"}}
    <3>1. PICK p \in Failing(c) : /\ Ruling(p, 1, c) = "test_stands"
                                  /\ s = [key |-> <<"ruling", p, 2, c>>, after |-> {<<"ruling", p, 1, c>>}]
      BY <2>3
    <3>2. s.key = <<"ruling", p, 2, c>> /\ s.after = {<<"ruling", p, 1, c>>} /\ p \in Props
      BY <2>1, <3>1
    <3> QED
      BY <1>4, <3>1, <3>2 DEF BuildKey
  <2> QED
    BY <1>4, <2>2, <2>3 DEF RulingSteps
<1>5. ASSUME NEW c \in Open, Triaged(c), RulingsIn(c), s \in FixSteps(c)
      PROVE  BuildKey(s)
  <2>1. PICK f \in ToFix(c) : s = [key |-> <<"fix", f, c>>, after |-> {LastRuling(p, c) : p \in Failing(c)}]
    BY <1>5 DEF FixSteps
  <2>2. f \in BuildFiles /\ s.key = <<"fix", f, c>> /\ s.after = {LastRuling(p, c) : p \in Failing(c)}
    BY <2>1 DEF ToFix
  <2> QED
    BY <1>5, <2>1, <2>2 DEF BuildKey
<1>6. CASE s \in UNION {RulingSteps(c) \union If(RulingsIn(c), FixSteps(c)) : c \in {b \in Open : Triaged(b)}}
  <2>1. PICK c \in Open : Triaged(c) /\ s \in RulingSteps(c) \union If(RulingsIn(c), FixSteps(c))
    BY <1>6
  <2>2. s \in RulingSteps(c) \/ (RulingsIn(c) /\ s \in FixSteps(c))
    BY <2>1 DEF If
  <2> QED
    BY <1>4, <1>5, <2>1, <2>2
<1> QED
  BY <1>1, <1>2, <1>3, <1>6 DEF TriageSteps

\* The steps of the debate are the ones DebateKey tells.
LEMMA DebateStepsAre ==
  ASSUME NEW s \in DebateSteps
  PROVE  DebateKey(s)
<1>1. CASE s \in LineSteps(HypothesesLine)
  <2>1. PICK i \in 1..4 : s.key = HypothesesLine[i]
    BY <1>1 DEF LineSteps, HypothesesLine
  <2> QED
    BY <2>1 DEF HypothesesLine, DebateKey
<1>2. CASE s \in CaseSteps
  BY <1>2 DEF CaseSteps, DebateKey
<1>3. CASE s = RebuttalStep
  BY <1>3 DEF RebuttalStep, DebateKey
<1>4. CASE s \in JudgmentSteps
  <2>1. PICK t \in LineSteps(JudgmentLine) :
          s = [t EXCEPT !.after = IF t.key = <<"judge">> THEN {<<"store", "rebuttal">>} ELSE t.after]
    BY <1>4 DEF JudgmentSteps
  <2>2. PICK i \in 1..3 : t = [key |-> JudgmentLine[i], after |-> IF i = 1 THEN {} ELSE {JudgmentLine[i - 1]}]
    BY DEF LineSteps, JudgmentLine
  <2>3. JudgmentLine[1] = <<"judge">> /\ JudgmentLine[2] = <<"gate", "verdict", 1>> /\ JudgmentLine[3] = <<"report">>
    BY DEF JudgmentLine
  <2>4. CASE i = 1
    BY <2>1, <2>2, <2>3, <2>4 DEF DebateKey
  <2>5. CASE i = 2
    <3>1. t = [key |-> <<"gate", "verdict", 1>>, after |-> {<<"judge">>}]
      BY <2>2, <2>3, <2>5
    <3>2. s.key = <<"gate", "verdict", 1>> /\ s.after = {<<"judge">>}
      BY <2>1, <3>1
    <3> QED
      BY <3>2 DEF DebateKey
  <2>6. CASE i = 3
    <3>1. t = [key |-> <<"report">>, after |-> {<<"gate", "verdict", 1>>}]
      <4>1. i - 1 = 2 /\ i # 1
        BY <2>6
      <4>2. JudgmentLine[i - 1] = JudgmentLine[2] /\ JudgmentLine[i] = JudgmentLine[3]
        BY <2>6, <4>1
      <4> QED
        BY <2>2, <2>3, <4>1, <4>2
    <3>2. s.key = <<"report">> /\ s.after = {<<"gate", "verdict", 1>>}
      BY <2>1, <3>1
    <3> QED
      BY <3>2 DEF DebateKey
  <2> QED
    BY <2>4, <2>5, <2>6
<1> QED
  BY <1>1, <1>2, <1>3, <1>4 DEF DebateSteps, If

\* The steps a program lists.
LEMMA ListedAre ==
  ASSUME TypeOK, NEW s \in Listed
  PROVE  IF recipe = "debate" THEN DebateKey(s) ELSE DesignKey(s) \/ BuildKey(s)
<1>1. recipe = "debate" => s \in DebateSteps
  BY DEF Listed
<1>2. recipe # "debate" => s \in LineSteps(DesignLine) \/ s \in BuildSteps \union TriageSteps \union ReportStep
  BY DEF Listed, CodeBuilderSteps, If
<1> QED
  BY <1>1, <1>2, DebateStepsAre, DesignSteps, BuildStepsAre

\* What the design line lists are keys.
LEMMA DesignKeysAreKeys ==
  ASSUME NEW s, DesignKey(s) PROVE s.key \in StepKeys
<1>0. Sent \in Nat
  BY SentIsANumber DEF Sent
<1>1. ASSUME NEW i \in 1..8, s.key = OpeningLine[i] PROVE s.key \in StepKeys
  <2>1. i \in 1..Len(OpeningLine) /\ OpeningLine \in Seq(StepKeys)
    BY OpeningIsALine
  <2>2. OpeningLine[i] \in StepKeys
    BY <2>1
  <2> QED
    BY <1>1, <2>2
<1>2. ASSUME NEW r \in 1..(Sent + 1), s.key = <<"gate", "blocks", r>> PROVE s.key \in StepKeys
  <2>1. r \in Numbers
    BY <1>0 DEF Numbers
  <2> QED
    BY <1>2, <2>1 DEF StepKeys, Gates
<1>3. ASSUME NEW r \in 1..Sent, s.key = <<"revise", r>> PROVE s.key \in StepKeys
  <2>1. r \in Numbers
    BY <1>0 DEF Numbers
  <2> QED
    BY <1>3, <2>1 DEF StepKeys
<1>4. /\ <<"freeze">> \in StepKeys /\ <<"fill">> \in StepKeys /\ <<"coverage">> \in StepKeys
      /\ <<"gate", "tolerances", 1>> \in StepKeys /\ <<"gate", "verification", 1>> \in StepKeys
      /\ <<"store", "vspec">> \in StepKeys /\ <<"store", "tasks">> \in StepKeys /\ <<"loop", "vspec">> \in StepKeys
  BY DEF StepKeys, Gates, Numbers, Artifacts, Loops
<1> QED
  BY <1>1, <1>2, <1>3, <1>4 DEF DesignKey

\* Cycles are counted from one.
LEMMA CyclesAreNumbers == Cycles \subseteq Numbers /\ Open \subseteq Numbers
  BY RecipeAssumption DEF Cycles, Open, Numbers

\* So are the keys of the build.
LEMMA BuildKeysAreKeys ==
  ASSUME NEW s, BuildKey(s) PROVE s.key \in StepKeys
<1>1. Cycles \subseteq Numbers /\ Open \subseteq Numbers
  BY CyclesAreNumbers
<1> QED
  BY <1>1 DEF BuildKey, StepKeys

\* And those of the debate.
LEMMA DebateKeysAreKeys ==
  ASSUME NEW s, DebateKey(s) PROVE s.key \in StepKeys
  BY DEF DebateKey, StepKeys, Artifacts, Loops, Gates, Numbers, Sides

\* What is ready are keys.
LEMMA ReadyAreKeys ==
  ASSUME TypeOK PROVE Ready \subseteq StepKeys
<1>1. ASSUME NEW s \in Listed PROVE s.key \in StepKeys
  BY ListedAre, DesignKeysAreKeys, BuildKeysAreKeys, DebateKeysAreKeys
<1> QED
  BY <1>1 DEF Ready
------------------------------------------------------------------------------
(* What the steps do to the round. *)

\* A step at work moves on, and nothing else of the round.
Moves(h, pc) ==
  /\ UNCHANGED driveVars
  /\ \E g \in Hands : g.key = h.key /\ g.pc = pc /\ hand' = (hand \ {h}) \union {g}

Lands(h) ==
  \/ Store(h) \/ Review(h) \/ Gate(h) \/ Freeze(h) \/ Coverage(h) \/ Verify(h) \/ Judge(h)
  \/ Report(h) \/ RulingWrite(h) \/ CaseWrite(h)

\* Every step of a worker that is no read moves it on.
LEMMA StepsMove ==
  ASSUME TypeOK, NEW h \in hand
  PROVE  /\ Lands(h) \/ Mark(h) => Moves(h, "landed")
         /\ Revise(h) \/ FreezeAgain(h) => Moves(h, "mark")
         /\ Fill(h) => Moves(h, "freeze")
         /\ WriteFile(h) => Moves(h, "mark") \/ Moves(h, "landed")
<1>1. h \in Hands
  BY DEF TypeOK
<1>2. /\ [h EXCEPT !.pc = "landed"] \in Hands /\ [h EXCEPT !.pc = "landed"].key = h.key
      /\ [h EXCEPT !.pc = "landed"].pc = "landed"
      /\ [h EXCEPT !.pc = "mark"] \in Hands /\ [h EXCEPT !.pc = "mark"].key = h.key
      /\ [h EXCEPT !.pc = "mark"].pc = "mark"
      /\ [h EXCEPT !.pc = "freeze"] \in Hands /\ [h EXCEPT !.pc = "freeze"].key = h.key
      /\ [h EXCEPT !.pc = "freeze"].pc = "freeze"
  BY <1>1 DEF Hands
<1>3. Goto(h, "landed") /\ UNCHANGED driveVars => Moves(h, "landed")
  BY <1>2 DEF Goto, Moves
<1>4. Goto(h, "mark") /\ UNCHANGED driveVars => Moves(h, "mark")
  BY <1>2 DEF Goto, Moves
<1>5. Goto(h, "freeze") /\ UNCHANGED driveVars => Moves(h, "freeze")
  BY <1>2 DEF Goto, Moves
<1>6. Lands(h) \/ Mark(h) => Goto(h, "landed") /\ UNCHANGED driveVars
  BY DEF Lands, Store, Review, Gate, Freeze, Coverage, Verify, Judge, Report, RulingWrite, CaseWrite, Mark
<1>7. Revise(h) \/ FreezeAgain(h) => Goto(h, "mark") /\ UNCHANGED driveVars
  BY DEF Revise, FreezeAgain
<1>8. Fill(h) => Goto(h, "freeze") /\ UNCHANGED driveVars
  BY DEF Fill
<1>9. WriteFile(h) => (Goto(h, "mark") \/ Goto(h, "landed")) /\ UNCHANGED driveVars
  BY DEF WriteFile
<1> QED
  BY <1>3, <1>4, <1>5, <1>6, <1>7, <1>8, <1>9

\* The largest of the ids taken.
LEMMA MaxOfBounded ==
  ASSUME NEW S \in SUBSET Nat, S # {}, NEW b \in Nat, \A x \in S : x <= b
  PROVE  Max(S) \in S /\ \A x \in S : x <= Max(S)
<1> DEFINE U == {c \in Nat : \A x \in S : x <= c}
<1>1. PICK c \in U : \A d \in U : c <= d
  <2>1. b \in U /\ U \in SUBSET Nat
    OBVIOUS
  <2> QED
    BY <2>1, LeastOfNaturals
<1>2. c \in S
  <2>1. SUFFICES ASSUME c \notin S PROVE FALSE
    OBVIOUS
  <2>2. \A x \in S : x < c
    BY <2>1, <1>1
  <2>3. c # 0
    <3>1. PICK x \in S : TRUE
      OBVIOUS
    <3> QED
      BY <2>2, <3>1
  <2>4. c - 1 \in U
    BY <2>2, <2>3
  <2> QED
    BY <1>1, <2>4
<1> HIDE DEF U
<1>3. \E x \in S : \A y \in S : x >= y
  BY <1>1, <1>2 DEF U
<1>4. Max(S) \in S /\ \A y \in S : Max(S) >= y
  BY <1>3 DEF Max
<1> QED
  BY <1>4

\* The largest id of a ruling is a number no ruling's id exceeds.
LEMMA TopOfRulings ==
  ASSUME TypeOK
  PROVE  LET top == Max({r.id : r \in rulings} \union {0})
         IN top \in Nat /\ \A r \in rulings : r.id <= top
<1> DEFINE S == {r.id : r \in rulings} \union {0}
<1>1. PICK n \in Nat : \A r \in rulings : r.id <= n
  BY DEF TypeOK
<1>2. \A r \in rulings : r.id \in Nat
  BY DEF TypeOK
<1>3. S \in SUBSET Nat /\ S # {} /\ \A x \in S : x <= n
  BY <1>1, <1>2
<1>4. \A r \in rulings : r.id \in S
  OBVIOUS
<1> HIDE DEF S
<1>5. Max(S) \in S /\ \A x \in S : x <= Max(S)
  BY <1>3, MaxOfBounded
<1> QED
  BY <1>3, <1>4, <1>5 DEF S

\* So is the largest number of an argument.
LEMMA TopOfCases ==
  ASSUME TypeOK
  PROVE  LET top == Max({case[s] : s \in Sides})
         IN top \in Nat /\ \A s \in Sides : case[s] <= top
<1> DEFINE S == {case[s] : s \in Sides}
<1>1. case["support"] \in Nat /\ case["challenge"] \in Nat
  BY DEF TypeOK, Sides
<1>2. S = {case["support"], case["challenge"]}
  BY DEF Sides
<1>3. \A s \in Sides : case[s] \in S
  OBVIOUS
<1>4. S \in SUBSET Nat /\ S # {} /\ \A x \in S : x <= case["support"] + case["challenge"]
  <2>1. \A a, b \in Nat : /\ {a, b} \in SUBSET Nat /\ {a, b} # {}
                          /\ \A x \in {a, b} : x <= a + b
    OBVIOUS
  <2> QED
    BY <1>1, <1>2, <2>1
<1>5. case["support"] + case["challenge"] \in Nat
  BY <1>1
<1> HIDE DEF S
<1>6. Max(S) \in S /\ \A x \in S : x <= Max(S)
  BY <1>4, <1>5, MaxOfBounded
<1> QED
  BY <1>3, <1>4, <1>6 DEF S
------------------------------------------------------------------------------
(* Kinds. *)

\* A ruling that is on its way is about results that are there.
RulingsHaveResults == \A h \in hand : h.key[1] = "ruling" => h.key[4] \in 1..Len(results)

FilesOK ==
  /\ version \in [Artifacts -> BOOLEAN]
  /\ decision \subseteq [gate : Gates \X Numbers, answer : Answers]
  /\ marks \subseteq StepKeys
  /\ undecided \in BOOLEAN /\ frozen \in BOOLEAN
  /\ written \subseteq BuildFiles
  /\ results \in Seq([failing : SUBSET Props, current : BOOLEAN])
  /\ rulings \subseteq [property : Props, question : {1, 2}, cycle : Numbers, verdict : Rulings, id : Nat, fresh : BOOLEAN]
  /\ \E n \in Nat : \A r \in rulings : r.id <= n
  /\ case \in [Sides -> Nat]
  /\ verdict \in Judged \union {None}
  /\ report \in Nat \union Judged \union Answers \union {None}

DriveOK ==
  /\ recipe \in {"code_builder", "debate"} /\ pool \in BOOLEAN
  /\ done \subseteq StepKeys /\ hand \subseteq Hands
  /\ cut \subseteq {"fill", "verify", "ruling"}
  /\ faults \in 0..MaxFaults

\* The kinds of the files, and those of the round.
LEMMA TypeIs == TypeOK <=> FilesOK /\ DriveOK
  BY DEF TypeOK, FilesOK, DriveOK

\* A run begins with everything of its kind.
LEMMA TypeInit == Init => TypeOK
<1>1. <<>> \in Seq([failing : SUBSET Props, current : BOOLEAN])
  OBVIOUS
<1>2. ASSUME Init PROVE FilesOK
  <2>1. FilesInit /\ rulings = {} /\ 0 \in Nat
    BY <1>2 DEF Init, FilesInit
  <2>2. \E n \in Nat : \A r \in rulings : r.id <= n
    BY <2>1
  <2> QED
    BY <1>1, <2>1, <2>2 DEF FilesInit, FilesOK
<1>3. ASSUME Init PROVE DriveOK
  BY <1>3, FaultsAssumption DEF Init, DriveOK
<1> QED
  BY <1>2, <1>3, TypeIs

\* Every step leaves the round's variables of their kinds.
LEMMA DriveKinds ==
  ASSUME TypeOK, [Next]_vars PROVE DriveOK'
<1>0. DriveOK
  BY TypeIs
<1>1. CASE UNCHANGED vars
  BY <1>0, <1>1 DEF vars, DriveOK
<1>2. CASE Round
  <2>1. Ready \subseteq StepKeys
    BY ReadyAreKeys
  <2>2. hand' \subseteq Hands
    BY <1>2, <2>1 DEF Round, Hands
  <2> QED
    BY <1>0, <1>2, <2>2 DEF Round, driveVars, DriveOK
<1>3. ASSUME NEW h \in hand, NEW pc, Moves(h, pc) PROVE DriveOK'
  BY <1>0, <1>3 DEF Moves, driveVars, DriveOK
<1>4. ASSUME NEW h \in hand, RulingRead(h) PROVE DriveOK'
  <2>1. h \in Hands
    BY <1>0 DEF DriveOK
  <2>2. Max({r.id : r \in rulings} \union {0}) + 1 \in Nat
    BY TopOfRulings
  <2> DEFINE n == Max({r.id : r \in rulings} \union {0}) + 1
  <2>3. hand' = (hand \ {h}) \union {[h EXCEPT !.pc = "write", !.seen = n]} /\ UNCHANGED driveVars
    BY <1>4 DEF RulingRead, Saw
  <2> HIDE DEF n
  <2>4. [h EXCEPT !.pc = "write", !.seen = n] \in Hands
    BY <2>1, <2>2 DEF Hands, n
  <2> QED
    BY <1>0, <2>3, <2>4 DEF driveVars, DriveOK
<1>5. ASSUME NEW h \in hand, CaseRead(h) PROVE DriveOK'
  <2>1. h \in Hands
    BY <1>0 DEF DriveOK
  <2> DEFINE n == Max({case[s] : s \in Sides}) + 1
  <2>2. n \in Nat
    BY TopOfCases
  <2>3. hand' = (hand \ {h}) \union {[h EXCEPT !.pc = "write", !.seen = n]} /\ UNCHANGED driveVars
    BY <1>5 DEF CaseRead, Saw
  <2> HIDE DEF n
  <2>4. [h EXCEPT !.pc = "write", !.seen = n] \in Hands
    BY <2>1, <2>2 DEF Hands
  <2> QED
    BY <1>0, <2>3, <2>4 DEF driveVars, DriveOK
<1>6. ASSUME NEW h \in hand, MarkDone(h) PROVE DriveOK'
  <2>1. h.key \in StepKeys
    BY <1>0 DEF DriveOK, Hands
  <2> QED
    BY <1>0, <1>6, <2>1 DEF MarkDone, DriveOK
<1>7. ASSUME NEW h \in hand, Refuse(h) PROVE DriveOK'
  BY <1>0, <1>7, FaultsAssumption DEF Refuse, DriveOK
<1>8. CASE Die
  <2>1. cut' \subseteq {"fill", "verify", "ruling"} /\ UNCHANGED <<recipe, pool, done>> /\ hand' = {}
    BY <1>0, <1>8 DEF Die, DriveOK
  <2>2. faults' \in 0..MaxFaults
    BY <1>0, <1>8, FaultsAssumption DEF Die, DriveOK
  <2> QED
    BY <1>0, <2>1, <2>2 DEF DriveOK
<1> QED
  BY <1>1, <1>2, <1>3, <1>4, <1>5, <1>6, <1>7, <1>8, StepsMove DEF Next, Work, Lands

\* And the files.
LEMMA FilesKinds ==
  ASSUME TypeOK, RulingsHaveResults, [Next]_vars PROVE FilesOK'
<1>0. FilesOK /\ hand \subseteq Hands
  BY TypeIs DEF DriveOK
<1>k. \A h \in hand : h.key \in StepKeys
  BY <1>0 DEF Hands
<1>1. CASE UNCHANGED files
  BY <1>0, <1>1 DEF files, FilesOK
<1>2. ASSUME NEW h \in hand, Store(h) PROVE FilesOK'
  <2>1. Put(h.key[2]) /\ undecided' \in BOOLEAN /\ frozen' \in BOOLEAN
    BY <1>0, <1>2 DEF Store, PutContract, FilesOK
  <2> QED
    BY <1>0, <1>2, <2>1 DEF Store, Put, FilesOK
<1>3. ASSUME NEW h \in hand, Review(h) PROVE FilesOK'
  BY <1>0, <1>3, <1>k DEF Review, PutContract, Put, Marked, FilesOK
<1>4. ASSUME NEW h \in hand, Gate(h) PROVE FilesOK'
  <2> DEFINE g == <<h.key[2], h.key[3]>>
  <2>1. g \in Gates \X Numbers
    BY <1>4, <1>k, KeyShapes DEF Gate
  <2>2. GateAnswers(g) \subseteq Answers
    BY DEF GateAnswers, Answers
  <2>3. decision' = decision \/ \E a \in GateAnswers(g) : decision' = decision \union {[gate |-> g, answer |-> a]}
    BY <1>4 DEF Gate
  <2> HIDE DEF g
  <2>4. decision' \subseteq [gate : Gates \X Numbers, answer : Answers]
    BY <1>0, <2>1, <2>2, <2>3 DEF FilesOK
  <2> QED
    BY <1>0, <1>4, <2>4 DEF Gate, FilesOK
<1>5. ASSUME NEW h \in hand, Freeze(h) \/ Coverage(h) PROVE FilesOK'
  <2>1. <<"freeze">> \in StepKeys /\ <<"coverage">> \in StepKeys
    BY DEF StepKeys
  <2> QED
    BY <1>0, <1>5, <2>1 DEF Freeze, Coverage, Marked, FilesOK
<1>6. ASSUME NEW h \in hand, Verify(h) PROVE FilesOK'
  <2> DEFINE R == [failing : SUBSET Props, current : BOOLEAN]
             i == Min({Len(results), FixRounds}) + 1
  <2>1. results \in Seq(R)
    BY <1>0 DEF FilesOK
  <2>2. i \in 1..(FixRounds + 1)
    <3>1. Len(results) \in Nat /\ FixRounds \in Nat
      BY <2>1, RecipeAssumption
    <3> DEFINE S == {Len(results), FixRounds}
    <3>2. \E x \in S : \A y \in S : x =< y
      BY <3>1
    <3>3. Min(S) \in S /\ \A y \in S : Min(S) =< y
      BY <3>2 DEF Min
    <3>4. Min(S) \in Nat /\ Min(S) <= FixRounds
      BY <3>1, <3>3
    <3> QED
      BY <3>1, <3>4
  <2>3. MayFail[i] \subseteq SUBSET Props
    BY <2>2, RecipeAssumption
  <2>4. PICK bad \in MayFail[i] : results' = Append(results, [failing |-> bad, current |-> TRUE])
    BY <1>6 DEF Verify
  <2>5. [failing |-> bad, current |-> TRUE] \in R
    BY <2>3
  <2> HIDE DEF R, i
  <2>6. results' \in Seq(R)
    BY <2>1, <2>4, <2>5
  <2> QED
    BY <1>0, <1>6, <2>6 DEF Verify, FilesOK, R
<1>7. ASSUME NEW h \in hand, Judge(h) PROVE FilesOK'
  BY <1>0, <1>7 DEF Judge, FilesOK, Judged
<1>8. ASSUME NEW h \in hand, Report(h) PROVE FilesOK'
  <2>1. Answer(<<"verdict", 1>>) \in Answers \union {None}
    BY <1>0 DEF Answer, FilesOK
  <2>2. Len(results) \in Nat /\ verdict \in Judged \union {None}
    BY <1>0 DEF FilesOK
  <2>3. report' \in Nat \union Judged \union Answers \union {None}
    BY <1>8, <2>1, <2>2 DEF Report
  <2> QED
    BY <1>0, <1>8, <2>3 DEF Report, FilesOK
<1>9. ASSUME NEW h \in hand, Revise(h) \/ Fill(h) PROVE FilesOK'
  BY <1>0, <1>9 DEF Revise, Fill, PutContract, Put, FilesOK
<1>10. ASSUME NEW h \in hand, FreezeAgain(h) PROVE FilesOK'
  BY <1>0, <1>10 DEF FreezeAgain, FilesOK
<1>11. ASSUME NEW h \in hand, WriteFile(h) PROVE FilesOK'
  <2> DEFINE R == [failing : SUBSET Props, current : BOOLEAN]
  <2>1. results \in Seq(R)
    BY <1>0 DEF FilesOK
  <2>2. \A i \in DOMAIN results : [results[i] EXCEPT !.current = FALSE] \in R
    <3>1. ASSUME NEW i \in DOMAIN results PROVE results[i] \in R
      <4> HIDE DEF R
      <4> QED
        BY <2>1
    <3> QED
      BY <3>1
  <2>3. results' = [i \in DOMAIN results |-> [results[i] EXCEPT !.current = FALSE]]
    BY <1>11 DEF WriteFile
  <2> HIDE DEF R
  <2>4. results' \in [1..Len(results) -> R] /\ Len(results) \in Nat
    BY <2>1, <2>2, <2>3
  <2>5. results' \in Seq(R)
    BY <2>4
  <2>6. h.key[2] \in BuildFiles
    BY <1>11, <1>k, KeyShapes DEF WriteFile
  <2> QED
    BY <1>0, <1>11, <2>5, <2>6 DEF WriteFile, FilesOK, R
<1>12. ASSUME NEW h \in hand, Mark(h) PROVE FilesOK'
  BY <1>0, <1>12, <1>k DEF Mark, Marked, FilesOK
<1>13. ASSUME NEW h \in hand, RulingWrite(h) PROVE FilesOK'
  <2>1. h.key[2] \in Props /\ h.key[3] \in {1, 2} /\ h.key[4] \in Numbers /\ h.seen \in Nat
    BY <1>0, <1>13, <1>k, KeyShapes DEF RulingWrite, Hands
  <2>2. results[h.key[4]].current \in BOOLEAN
    <3>1. h.key[4] \in 1..Len(results)
      BY <1>13 DEF RulingWrite, RulingsHaveResults
    <3> QED
      BY <3>1, ResultsAre
  <2>3. PICK v \in Verdicts(h.key[3]) :
          rulings' = {r \in rulings : ~Same(r, h.key)} \union
            {[property |-> h.key[2], question |-> h.key[3], cycle |-> h.key[4], verdict |-> v,
              id |-> h.seen, fresh |-> results[h.key[4]].current]}
    BY <1>13 DEF RulingWrite
  <2>4. v \in Rulings
    BY DEF Verdicts, Rulings
  <2> DEFINE new == [property |-> h.key[2], question |-> h.key[3], cycle |-> h.key[4], verdict |-> v,
                     id |-> h.seen, fresh |-> results[h.key[4]].current]
  <2>5. new \in [property : Props, question : {1, 2}, cycle : Numbers, verdict : Rulings, id : Nat, fresh : BOOLEAN]
    BY <2>1, <2>2, <2>4
  <2>6. new.id = h.seen
    OBVIOUS
  <2>7. rulings' = {r \in rulings : ~Same(r, h.key)} \union {new}
    BY <2>3
  <2> HIDE DEF new
  <2>8. rulings' \subseteq [property : Props, question : {1, 2}, cycle : Numbers, verdict : Rulings, id : Nat, fresh : BOOLEAN]
    BY <1>0, <2>5, <2>7 DEF FilesOK
  <2>9. \E n \in Nat : \A r \in rulings' : r.id <= n
    <3>1. PICK n \in Nat : \A r \in rulings : r.id <= n
      BY <1>0 DEF FilesOK
    <3>2. \A r \in rulings : r.id \in Nat
      BY <1>0 DEF FilesOK
    <3>3. n + h.seen \in Nat /\ \A r \in rulings' : r.id <= n + h.seen
      BY <2>1, <2>6, <2>7, <3>1, <3>2
    <3> QED
      BY <3>3
  <2> QED
    BY <1>0, <1>13, <2>8, <2>9 DEF RulingWrite, FilesOK
<1>14. ASSUME NEW h \in hand, CaseWrite(h) PROVE FilesOK'
  <2>1. h.seen \in Nat
    BY <1>0 DEF Hands
  <2> QED
    BY <1>0, <1>14, <2>1 DEF CaseWrite, FilesOK
<1>15. ASSUME NEW h \in hand, RulingRead(h) \/ CaseRead(h) \/ MarkDone(h) \/ Refuse(h) PROVE UNCHANGED files
  BY <1>15 DEF RulingRead, CaseRead, MarkDone, Refuse
<1>16. Round \/ Die \/ UNCHANGED vars => UNCHANGED files
  BY DEF Round, Die, vars
<1> QED
  BY <1>1, <1>2, <1>3, <1>4, <1>5, <1>6, <1>7, <1>8, <1>9, <1>10, <1>11, <1>12, <1>13, <1>14, <1>15, <1>16
     DEF Next, Work
------------------------------------------------------------------------------
(* The round: which steps are at work. *)

Began(k) == k \in done \/ \E h \in hand : h.key = k

\* A step is at work once, and not when it is done.
HandsApart ==
  /\ \A g, h \in hand : g.key = h.key => g = h
  /\ \A h \in hand : h.key \notin done

OneAtATime == ~pool => \A g, h \in hand : g = h \/ g.pc = "call" \/ h.pc = "call"

\* A refusal or a death: steps are dropped, the files stay.
Drops == hand' \subseteq hand /\ cut \subseteq cut' /\ UNCHANGED <<files, recipe, pool, done>>

\* The reads of the landings move a worker on, and write nothing.
LEMMA ReadsMove ==
  ASSUME TypeOK, NEW h \in hand, RulingRead(h) \/ CaseRead(h)
  PROVE  Moves(h, "write") /\ UNCHANGED files
<1>1. DriveOK /\ h \in Hands
  BY TypeIs DEF DriveOK
<1>2. CASE RulingRead(h)
  <2> DEFINE n == Max({r.id : r \in rulings} \union {0}) + 1
  <2>1. n \in Nat
    BY TopOfRulings
  <2>2. hand' = (hand \ {h}) \union {[h EXCEPT !.pc = "write", !.seen = n]} /\ UNCHANGED <<files, driveVars>>
    BY <1>2 DEF RulingRead, Saw
  <2> HIDE DEF n
  <2>3. [h EXCEPT !.pc = "write", !.seen = n] \in Hands /\ [h EXCEPT !.pc = "write", !.seen = n].key = h.key
        /\ [h EXCEPT !.pc = "write", !.seen = n].pc = "write"
    BY <1>1, <2>1 DEF Hands
  <2> QED
    BY <2>2, <2>3 DEF Moves
<1>3. CASE CaseRead(h)
  <2> DEFINE n == Max({case[s] : s \in Sides}) + 1
  <2>1. n \in Nat
    BY TopOfCases
  <2>2. hand' = (hand \ {h}) \union {[h EXCEPT !.pc = "write", !.seen = n]} /\ UNCHANGED <<files, driveVars>>
    BY <1>3 DEF CaseRead, Saw
  <2> HIDE DEF n
  <2>3. [h EXCEPT !.pc = "write", !.seen = n] \in Hands /\ [h EXCEPT !.pc = "write", !.seen = n].key = h.key
        /\ [h EXCEPT !.pc = "write", !.seen = n].pc = "write"
    BY <1>1, <2>1 DEF Hands
  <2> QED
    BY <2>2, <2>3 DEF Moves
<1> QED
  BY <1>2, <1>3

Places == {"write", "freeze", "mark", "landed"}

\* What a step can be, as far as the round is concerned.
LEMMA StepKinds ==
  ASSUME TypeOK, [Next]_vars
  PROVE  \/ UNCHANGED vars
         \/ Round
         \/ \E h \in hand : At(h, h.pc) /\ \E pc \in Places : Moves(h, pc)
         \/ \E h \in hand : MarkDone(h)
         \/ Drops
<1>1. ASSUME NEW h \in hand, Refuse(h) PROVE Drops
  BY <1>1 DEF Refuse, Drops
<1>2. Die => Drops
  BY DEF Die, Drops
<1>3. ASSUME NEW h \in hand, Lands(h) \/ Mark(h) \/ Revise(h) \/ FreezeAgain(h) \/ Fill(h) \/ WriteFile(h)
                             \/ RulingRead(h) \/ CaseRead(h)
      PROVE  At(h, h.pc) /\ \E pc \in Places : Moves(h, pc)
  <2>1. At(h, h.pc)
    BY <1>3 DEF Lands, Store, Review, Gate, Freeze, Coverage, Verify, Judge, Report, RulingWrite,
       CaseWrite, Mark,
       Revise, FreezeAgain, Fill, WriteFile, RulingRead, CaseRead, At
  <2>2. Moves(h, "landed") \/ Moves(h, "mark") \/ Moves(h, "freeze") \/ Moves(h, "write")
    BY <1>3, StepsMove, ReadsMove
  <2> QED
    BY <2>1, <2>2 DEF Places
<1> QED
  BY <1>1, <1>2, <1>3 DEF Next, Work, Lands

\* A round takes what is ready, and begins nothing else.
LEMMA RoundTakesReady ==
  ASSUME Round
  PROVE  /\ hand = {} /\ UNCHANGED <<files, driveVars>>
         /\ \A h \in hand' : h.key \in Ready /\ h.pc = "call" /\ h.seen = 0
         /\ \A g, h \in hand' : g.key = h.key => g = h
         /\ \A k : Began(k)' => k \in done \/ k \in Ready
         /\ \A k : Began(k) => k \in done
  BY DEF Round, Began, driveVars

\* Every step keeps the round's steps apart, and one at a time where there is no pool.
LEMMA HandsStep ==
  ASSUME TypeOK, HandsApart, OneAtATime, [Next]_vars
  PROVE  HandsApart' /\ OneAtATime'
<1>1. CASE UNCHANGED vars
  BY <1>1 DEF vars, HandsApart, OneAtATime
<1>2. CASE Round
  <2>1. \A k \in Ready : k \notin done
    BY DEF Ready
  <2> QED
    BY <1>2, <2>1, RoundTakesReady DEF HandsApart, OneAtATime, driveVars
<1>3. ASSUME NEW h \in hand, At(h, h.pc), NEW pc \in Places, Moves(h, pc) PROVE HandsApart' /\ OneAtATime'
  <2>1. PICK g \in Hands : g.key = h.key /\ g.pc = pc /\ hand' = (hand \ {h}) \union {g}
    BY <1>3 DEF Moves
  <2>2. done' = done /\ pool' = pool
    BY <1>3 DEF Moves, driveVars
  <2>3. HandsApart'
    BY <2>1, <2>2 DEF HandsApart
  <2>4. OneAtATime'
    BY <1>3, <2>1, <2>2 DEF OneAtATime, At
  <2> QED
    BY <2>3, <2>4
<1>4. ASSUME NEW h \in hand, MarkDone(h) PROVE HandsApart' /\ OneAtATime'
  BY <1>4 DEF MarkDone, HandsApart, OneAtATime
<1>5. CASE Drops
  BY <1>5 DEF Drops, HandsApart, OneAtATime
<1> QED
  BY <1>1, <1>2, <1>3, <1>4, <1>5, StepKinds

\* Only a round begins steps, and what is done stays done.
LEMMA BeganKept ==
  ASSUME TypeOK, [Next]_vars
  PROVE  /\ done \subseteq done'
         /\ ~Round => \A k : Began(k)' => Began(k)
         /\ \A k : k \in done' => Began(k)
<1>1. CASE UNCHANGED vars
  BY <1>1 DEF vars, Began
<1>2. CASE Round
  BY <1>2, RoundTakesReady DEF Began, driveVars
<1>3. ASSUME NEW h \in hand, At(h, h.pc), NEW pc \in Places, Moves(h, pc)
      PROVE  done' = done /\ \A k : Began(k)' => Began(k)
  BY <1>3 DEF Moves, Began, driveVars
<1>4. ASSUME NEW h \in hand, MarkDone(h) PROVE done \subseteq done' /\ (\A k : Began(k)' => Began(k)) /\ \A k : k \in done' => Began(k)
  BY <1>4 DEF MarkDone, Began
<1>5. CASE Drops
  BY <1>5 DEF Drops, Began
<1> QED
  BY <1>1, <1>2, <1>3, <1>4, <1>5, StepKinds DEF Began

------------------------------------------------------------------------------
(* Ids. *)

NumbersAbove ==
  ~pool => \A h \in hand : h.pc = "write" =>
    /\ h.key[1] = "ruling" => \A r \in rulings : r.id < h.seen
    /\ h.key[1] = "case" => \A s \in Sides : case[s] < h.seen

\* Every step keeps the numbers read above those given, and so the ids apart.
LEMMA NumbersStep ==
  ASSUME TypeOK, OneAtATime, NumbersAbove, IdsNeverShared, [Next]_vars
  PROVE  NumbersAbove' /\ IdsNeverShared'
<1>a. hand \subseteq Hands /\ case \in [Sides -> Nat] /\ \A r \in rulings : r.id \in Nat
  BY DEF TypeOK
<1>1. ASSUME UNCHANGED <<rulings, case, pool>>, \A h \in hand' : h.pc = "write" => h \in hand
      PROVE  NumbersAbove' /\ IdsNeverShared'
  BY <1>1 DEF NumbersAbove, IdsNeverShared
<1>2. CASE UNCHANGED vars
  BY <1>1, <1>2 DEF vars, files
<1>3. CASE Round
  BY <1>1, <1>3, RoundTakesReady DEF files, driveVars
<1>4. ASSUME NEW h \in hand, MarkDone(h) PROVE NumbersAbove' /\ IdsNeverShared'
  BY <1>1, <1>4 DEF MarkDone, files
<1>5. CASE Drops
  BY <1>1, <1>5 DEF Drops, files
<1>6. ASSUME NEW h \in hand, UNCHANGED <<rulings, case>>, NEW pc, Moves(h, pc), pc # "write"
      PROVE  NumbersAbove' /\ IdsNeverShared'
  BY <1>1, <1>6 DEF Moves, driveVars
<1>7. ASSUME NEW h \in hand, RulingRead(h) \/ CaseRead(h) PROVE NumbersAbove' /\ IdsNeverShared'
  <2>1. UNCHANGED files /\ UNCHANGED driveVars
    BY <1>7 DEF RulingRead, CaseRead
  <2>2. IdsNeverShared'
    BY <2>1 DEF IdsNeverShared, files, driveVars
  <2>3. CASE RulingRead(h)
    <3> DEFINE n == Max({r.id : r \in rulings} \union {0}) + 1
               g == [h EXCEPT !.pc = "write", !.seen = n]
    <3>1. hand' = (hand \ {h}) \union {g} /\ h.key[1] = "ruling"
      BY <2>3 DEF RulingRead, Saw
    <3>2. \A r \in rulings : r.id < n
      BY <1>a, TopOfRulings
    <3>3. g.key = h.key /\ g.seen = n
      BY <1>a DEF Hands
    <3> HIDE DEF g, n
    <3> QED
      BY <2>1, <2>2, <3>1, <3>2, <3>3 DEF NumbersAbove, files, driveVars
  <2>4. CASE CaseRead(h)
    <3> DEFINE n == Max({case[s] : s \in Sides}) + 1
               g == [h EXCEPT !.pc = "write", !.seen = n]
    <3>1. hand' = (hand \ {h}) \union {g} /\ h.key[1] = "case"
      BY <2>4 DEF CaseRead, Saw
    <3>2. \A s \in Sides : case[s] < n
      BY <1>a, TopOfCases
    <3>3. g.key = h.key /\ g.seen = n
      BY <1>a DEF Hands
    <3> HIDE DEF g, n
    <3> QED
      BY <2>1, <2>2, <3>1, <3>2, <3>3 DEF NumbersAbove, files, driveVars
  <2> QED
    BY <1>7, <2>3, <2>4
\* One at a time: nothing else is about to write.
<1>8. ASSUME NEW h \in hand, h.pc # "call", NEW g, g.pc # "write", hand' = (hand \ {h}) \union {g}, ~pool
      PROVE  \A x \in hand' : x.pc # "write"
  BY <1>8 DEF OneAtATime
<1>9. ASSUME NEW h \in hand, RulingWrite(h) PROVE NumbersAbove' /\ IdsNeverShared'
  <2>1. PICK v \in Verdicts(h.key[3]) :
          rulings' = {r \in rulings : ~Same(r, h.key)} \union
            {[property |-> h.key[2], question |-> h.key[3], cycle |-> h.key[4], verdict |-> v,
              id |-> h.seen, fresh |-> results[h.key[4]].current]}
    BY <1>9 DEF RulingWrite
  <2>2. h.pc = "write" /\ h.key[1] = "ruling" /\ case' = case /\ pool' = pool
    BY <1>9 DEF RulingWrite, At, driveVars
  <2>3. SUFFICES ASSUME ~pool PROVE NumbersAbove' /\ IdsNeverShared'
    BY <2>2 DEF NumbersAbove, IdsNeverShared
  <2>4. NumbersAbove'
    <3>1. Moves(h, "landed")
      BY <1>9, StepsMove DEF Lands
    <3> QED
      BY <1>8, <2>2, <2>3, <3>1 DEF Moves, NumbersAbove
  <2>5. \A r \in rulings : r.id < h.seen
    BY <2>2, <2>3 DEF NumbersAbove
  <2> DEFINE new == [property |-> h.key[2], question |-> h.key[3], cycle |-> h.key[4], verdict |-> v,
              id |-> h.seen, fresh |-> results[h.key[4]].current]
  <2>6. new.id = h.seen /\ rulings' = {r \in rulings : ~Same(r, h.key)} \union {new}
    BY <2>1
  <2> HIDE DEF new
  <2>7. h.seen \in Nat
    BY <1>a DEF Hands
  <2>8. \A r, s \in rulings' : r.id = s.id => r = s
    BY <1>a, <2>3, <2>5, <2>6, <2>7 DEF IdsNeverShared
  <2> QED
    BY <2>2, <2>3, <2>4, <2>8 DEF IdsNeverShared
<1>10. ASSUME NEW h \in hand, CaseWrite(h) PROVE NumbersAbove' /\ IdsNeverShared'
  <2>1. /\ case' = [case EXCEPT ![h.key[2]] = h.seen] /\ rulings' = rulings /\ pool' = pool
        /\ h.pc = "write" /\ h.key[1] = "case"
    BY <1>10 DEF CaseWrite, At, driveVars
  <2>2. SUFFICES ASSUME ~pool PROVE NumbersAbove' /\ IdsNeverShared'
    BY <2>1 DEF NumbersAbove, IdsNeverShared
  <2>3. NumbersAbove'
    <3>1. Moves(h, "landed")
      BY <1>10, StepsMove DEF Lands
    <3> QED
      BY <1>8, <2>1, <2>2, <3>1 DEF Moves, NumbersAbove
  <2>4. \A s \in Sides : case[s] < h.seen
    BY <2>1, <2>2 DEF NumbersAbove
  <2>5. h.seen \in Nat
    BY <1>a DEF Hands
  <2>6. case["support"] \in Nat /\ case["challenge"] \in Nat /\ case["support"] < h.seen /\ case["challenge"] < h.seen
    BY <1>a, <2>4 DEF Sides
  <2>7. case'["support"] = case'["challenge"] => case'["support"] = 0
    BY <1>a, <2>1, <2>2, <2>5, <2>6 DEF IdsNeverShared, Sides
  <2> QED
    BY <2>1, <2>2, <2>3, <2>7 DEF IdsNeverShared
<1>11. ASSUME NEW h \in hand, Lands(h) \/ Mark(h) \/ Revise(h) \/ FreezeAgain(h) \/ Fill(h) \/ WriteFile(h),
              ~RulingWrite(h), ~CaseWrite(h)
       PROVE  NumbersAbove' /\ IdsNeverShared'
  <2>1. UNCHANGED <<rulings, case>>
    BY <1>11 DEF Lands, Store, Review, Gate, Freeze, Coverage, Verify, Judge, Report, Mark, Revise,
       FreezeAgain,
       Fill, WriteFile
  <2>2. Moves(h, "landed") \/ Moves(h, "mark") \/ Moves(h, "freeze")
    BY <1>11, StepsMove
  <2> QED
    BY <1>6, <2>1, <2>2
<1>12. (\E h \in hand : Refuse(h)) \/ Die => Drops
  BY DEF Refuse, Die, Drops
<1> QED
  BY <1>2, <1>3, <1>4, <1>5, <1>7, <1>9, <1>10, <1>11, <1>12 DEF Next, Work, Lands
------------------------------------------------------------------------------
(* Decisions. *)

AnswersAreSingle == \A x, y \in decision : x.gate = y.gate => x = y

\* The answer a set of decisions gives for a gate.
AnswerIn(d) == IF d = {} THEN None ELSE (CHOOSE x \in d : TRUE).answer
Given(D, g) == AnswerIn({x \in D : x.gate = g})

\* An answer is that of the one decision there is.
LEMMA GivenIs ==
  ASSUME NEW D, \A x, y \in D : x.gate = y.gate => x = y, NEW g
  PROVE  /\ \A x \in D : x.gate = g => Given(D, g) = x.answer
         /\ (\A x \in D : x.gate # g) => Given(D, g) = None
<1>1. ASSUME NEW x \in D, x.gate = g PROVE Given(D, g) = x.answer
  <2>1. {z \in D : z.gate = g} = {x}
    BY <1>1
  <2> QED
    BY <2>1 DEF Given, AnswerIn
<1>2. ASSUME \A x \in D : x.gate # g PROVE Given(D, g) = None
  <2>1. {z \in D : z.gate = g} = {}
    BY <1>2
  <2> QED
    BY <2>1 DEF Given, AnswerIn
<1> QED
  BY <1>1, <1>2

\* Answer, before and after a step.
LEMMA AnswerIsGiven == \A g : Answer(g) = Given(decision, g) /\ Answer(g)' = Given(decision', g)
  BY DEF Answer, Given, AnswerIn

\* None is not something a person, a ruling or the judge says.
LEMMA NoneIsNoAnswer ==
  /\ None \notin Answers /\ None \notin Rulings /\ None \notin Judged /\ None \notin Nat
  BY RecipeAssumption DEF Answers, Rulings, Judged

\* What a gate's step leaves: its own answer, and it may have had that before.
LEMMA GateStep ==
  ASSUME TypeOK, AnswersAreSingle, NEW h \in hand, Gate(h), NEW g, g = <<h.key[2], h.key[3]>>
  PROVE  /\ AnswersAreSingle'
         /\ \A x : x # g => Answer(x)' = Answer(x)
         /\ Answer(g)' # None
         /\ Answer(g) = None => Answer(g)' \in GateAnswers(g)
         /\ Answer(g) # None => decision' = decision
<1>1. CASE Answer(g) # None
  <2>1. decision' = decision
    BY <1>1 DEF Gate
  <2> QED
    BY <1>1, <2>1, AnswerIsGiven DEF AnswersAreSingle
<1>2. CASE Answer(g) = None
  <2>1. PICK a \in GateAnswers(g) : decision' = decision \union {[gate |-> g, answer |-> a]}
    BY <1>2 DEF Gate
  <2>2. \A x \in decision : x.gate # g
    <3>1. ASSUME NEW x \in decision, x.gate = g PROVE FALSE
      <4>1. Answer(g) = x.answer
        BY <3>1, AnswerIsGiven, GivenIs DEF AnswersAreSingle
      <4>2. x.answer \in Answers
        BY DEF TypeOK
      <4> QED
        BY <1>2, <4>1, <4>2, NoneIsNoAnswer
    <3> QED
      BY <3>1
  <2> DEFINE new == [gate |-> g, answer |-> a]
  <2>3. new.gate = g /\ new.answer = a /\ decision' = decision \union {new}
    BY <2>1
  <2> HIDE DEF new
  <2>4. \A x, y \in decision' : x.gate = y.gate => x = y
    BY <2>2, <2>3 DEF AnswersAreSingle
  <2>5. Given(decision', g) = a
    BY <2>3, <2>4, GivenIs
  <2>6. \A x : x # g => Given(decision', x) = Given(decision, x)
    <3>1. ASSUME NEW x, x # g PROVE Given(decision', x) = Given(decision, x)
      <4>1. {z \in decision' : z.gate = x} = {z \in decision : z.gate = x}
        BY <2>3, <3>1
      <4> QED
        BY <4>1 DEF Given
    <3> QED
      BY <3>1
  <2>7. a # None
    <3>1. a \in Answers
      BY DEF GateAnswers, Answers
    <3> QED
      BY <3>1, NoneIsNoAnswer
  <2> QED
    BY <1>2, <2>4, <2>5, <2>6, <2>7, AnswerIsGiven DEF AnswersAreSingle
<1> QED
  BY <1>1, <1>2

\* Only gates decide, and an answer stands.
LEMMA DecisionStep ==
  ASSUME TypeOK, AnswersAreSingle, [Next]_vars
  PROVE  /\ AnswersAreSingle'
         /\ \A g : Answer(g) # None => Answer(g)' = Answer(g)
         /\ decision' = decision \/ \E h \in hand : Gate(h)
<1>1. ASSUME NEW h \in hand, Gate(h) PROVE AnswersAreSingle' /\ \A g : Answer(g) # None => Answer(g)' = Answer(g)
  <2>1. AnswersAreSingle'
    BY <1>1, GateStep
  <2>2. ASSUME NEW x, Answer(x) # None PROVE Answer(x)' = Answer(x)
    <3> DEFINE g == <<h.key[2], h.key[3]>>
    <3>1. /\ x # g => Answer(x)' = Answer(x)
          /\ Answer(g) # None => decision' = decision
      BY <1>1, GateStep
    <3>2. CASE x = g
      BY <2>2, <3>1, <3>2, AnswerIsGiven
    <3> QED
      BY <3>1, <3>2
  <2> QED
    BY <2>1, <2>2
<1>2. decision' = decision => AnswersAreSingle' /\ \A g : Answer(g) # None => Answer(g)' = Answer(g)
  BY AnswerIsGiven DEF AnswersAreSingle
<1>3. decision' = decision \/ \E h \in hand : Gate(h)
  BY DEF Next, Work, vars, files, Round, Store, Review, Freeze, Coverage, Verify, Judge, Report,
     RulingWrite, CaseWrite, Mark,
       Revise, FreezeAgain, Fill, WriteFile, RulingRead, CaseRead, MarkDone, Refuse, Die
<1> QED
  BY <1>1, <1>2, <1>3

\* A person can send the blocks back as often as the bound allows.
RevisesAreCounted ==
  \A x \in decision : x.gate[1] = "blocks" /\ x.answer = "revise" => x.gate[2] \in 1..MaxRevise

\* Every step keeps the count of the times the blocks were sent back.
LEMMA RevisesStep ==
  ASSUME TypeOK, AnswersAreSingle, RevisesAreCounted, [Next]_vars PROVE RevisesAreCounted'
<1>1. CASE decision' = decision
  BY <1>1 DEF RevisesAreCounted
<1>2. ASSUME NEW h \in hand, Gate(h) PROVE RevisesAreCounted'
  <2> DEFINE g == <<h.key[2], h.key[3]>>
  <2>1. decision' = decision \/ \E a \in GateAnswers(g) : decision' = decision \union {[gate |-> g, answer |-> a]}
    BY <1>2 DEF Gate
  <2>2. h.key[3] \in Numbers
    BY <1>2, KeyShapes DEF Gate, TypeOK, Hands
  <2>3. \A a \in GateAnswers(g) : g[1] = "blocks" /\ a = "revise" => g[2] \in 1..MaxRevise
    <3>1. g[1] = "blocks" /\ ~(g[2] <= MaxRevise) => GateAnswers(g) = {"proceed"}
      BY DEF GateAnswers
    <3> QED
      BY <2>2, <3>1, RecipeAssumption DEF Numbers
  <2> HIDE DEF g
  <2> QED
    BY <2>1, <2>3 DEF RevisesAreCounted
<1> QED
  BY <1>1, <1>2, DecisionStep

\* How often the blocks were sent back: the rounds 1, 2, ... of their gate.
SentIsPrefix == SentBack = 1..Sent

\* The same answers count the same.
LEMMA SentIsSame ==
  ASSUME \A r : Answer(<<"blocks", r>>)' = Answer(<<"blocks", r>>)
  PROVE  SentBack' = SentBack /\ Sent' = Sent
<1>1. SentBack' = SentBack
  BY DEF SentBack
<1> QED
  BY <1>1 DEF Sent

\* The blocks are sent back gate after gate, and by the gate that asks.
LEMMA SentStep ==
  ASSUME TypeOK, AnswersAreSingle, SentIsPrefix, [Next]_vars,
         \A h \in hand : \A r : h.key = <<"gate", "blocks", r>> => r \in 1..(Sent + 1)
  PROVE  /\ SentIsPrefix'
         /\ SentBack \subseteq SentBack' /\ Sent <= Sent'
         /\ Sent' # Sent => \E h \in hand : h.key = <<"gate", "blocks", Sent + 1>> /\ Answer(<<"blocks", Sent + 1>>) = None
<1>0. Sent \in Nat
  BY SentIsANumber DEF Sent
<1>1. CASE \A r : Answer(<<"blocks", r>>)' = Answer(<<"blocks", r>>)
  BY <1>0, <1>1, SentIsSame DEF SentIsPrefix
<1>2. ASSUME NEW q, Answer(<<"blocks", q>>)' # Answer(<<"blocks", q>>) PROVE
        /\ SentIsPrefix'
        /\ SentBack \subseteq SentBack' /\ Sent <= Sent'
        /\ Sent' # Sent => \E h \in hand : h.key = <<"gate", "blocks", Sent + 1>> /\ Answer(<<"blocks", Sent + 1>>) = None
  <2>1. PICK h \in hand : Gate(h)
    BY <1>2, DecisionStep, AnswerIsGiven
  <2> DEFINE g == <<h.key[2], h.key[3]>>
  <2>2. /\ \A x : x # g => Answer(x)' = Answer(x)
        /\ Answer(g) = None => Answer(g)' \in GateAnswers(g)
    BY <2>1, GateStep
  <2>3. g = <<"blocks", q>>
    BY <1>2, <2>2
  <2>4. Answer(<<"blocks", q>>) = None
    BY <1>2, DecisionStep
  <2>5. h.key = <<"gate", "blocks", q>>
    <3>1. h.key \in StepKeys /\ h.key[1] = "gate"
      BY <2>1 DEF TypeOK, Hands, Gate
    <3>2. h.key = <<"gate", h.key[2], h.key[3]>>
      BY <3>1, KeyShapes
    <3> QED
      BY <2>3, <3>2
  <2>6. q \in 1..(Sent + 1)
    BY <2>5
  <2>7. q = Sent + 1
    <3>1. q \notin SentBack
      BY <2>4, NoneIsNoAnswer DEF SentBack, Answers
    <3> QED
      BY <1>0, <2>6, <3>1 DEF SentIsPrefix
  <2>8. \A r : r # q => Answer(<<"blocks", r>>)' = Answer(<<"blocks", r>>)
    BY <2>2, <2>3
  <2>9. SentBack' = SentBack \/ SentBack' = SentBack \union {q}
    <3>1. \A r : r # q => (r \in SentBack' <=> r \in SentBack)
      BY <2>8 DEF SentBack
    <3>2. q \notin SentBack
      BY <2>4, NoneIsNoAnswer DEF SentBack, Answers
    <3> QED
      BY <3>1, <3>2
  <2>10. CASE SentBack' = SentBack
    BY <1>0, <2>10 DEF SentIsPrefix, Sent
  <2>11. CASE SentBack' = SentBack \union {q}
    <3>1. SentBack' = 1..(Sent + 1)
      BY <1>0, <2>7, <2>11 DEF SentIsPrefix
    <3>2. Sent' = Sent + 1
      <4>1. Cardinality(1..(Sent + 1)) = Sent + 1
        BY <1>0, FS_Interval
      <4>2. Sent' = Cardinality(SentBack')
        BY DEF Sent
      <4> QED
        BY <3>1, <4>1, <4>2
    <3> QED
      BY <1>0, <2>4, <2>5, <2>7, <2>11, <3>1, <3>2 DEF SentIsPrefix
  <2> QED
    BY <2>9, <2>10, <2>11
<1> QED
  BY <1>1, <1>2
------------------------------------------------------------------------------
(* The contract: its versions come before it is hashed. *)

BlocksOver ==
  /\ Answer(<<"blocks", Sent + 1>>) \notin {None, "revise"}
  /\ \A q \in SentBack : <<"revise", q>> \in done

ContractOrder ==
  /\ Began(<<"loop", "contract">>) => <<"store", "contract">> \in done
  /\ Began(<<"loop", "audit">>) => <<"loop", "contract">> \in done
  /\ \A r : Began(<<"gate", "blocks", r>>) =>
       /\ r \in 1..(Sent + 1)
       /\ <<"loop", "audit">> \in done
       /\ \A q \in 1..(r - 1) : <<"revise", q>> \in done
  /\ \A r : Began(<<"revise", r>>) =>
       /\ r \in 1..Sent
       /\ <<"loop", "audit">> \in done
       /\ \A q \in 1..(r - 1) : <<"revise", q>> \in done
  /\ Began(<<"freeze">>) => <<"loop", "audit">> \in done /\ BlocksOver
  /\ Began(<<"gate", "tolerances", 1>>) => <<"freeze">> \in done
  /\ Began(<<"fill">>) => <<"gate", "tolerances", 1>> \in done

\* What a step at work has to do yet.
PcsFit ==
  \A h \in hand :
    /\ h.pc = "mark" => h.key[1] \in {"revise", "fill", "fix"}
    /\ h.pc = "freeze" => h.key = <<"fill">>
    /\ h.pc = "write" => h.key[1] \in {"ruling", "case"}

\* Every step keeps the workers where their kinds can be.
LEMMA PcsStep ==
  ASSUME TypeOK, PcsFit, [Next]_vars PROVE PcsFit'
<1>1. CASE UNCHANGED vars
  BY <1>1 DEF vars, PcsFit
<1>2. CASE Round
  BY <1>2, RoundTakesReady DEF PcsFit
<1>3. ASSUME NEW h \in hand, MarkDone(h) \/ Refuse(h) PROVE PcsFit'
  BY <1>3 DEF MarkDone, Refuse, PcsFit
<1>4. CASE Die
  BY <1>4 DEF Die, PcsFit
<1>5. ASSUME NEW h \in hand, NEW pc, Moves(h, pc), pc = "mark" => h.key[1] \in {"revise", "fill", "fix"},
             pc = "freeze" => h.key = <<"fill">>, pc = "write" => h.key[1] \in {"ruling", "case"}
      PROVE  PcsFit'
  BY <1>5 DEF Moves, PcsFit
<1>6. ASSUME NEW h \in hand, RulingRead(h) \/ CaseRead(h) PROVE PcsFit'
  BY <1>5, <1>6, ReadsMove DEF RulingRead, CaseRead
<1>7. ASSUME NEW h \in hand, Lands(h) \/ Mark(h) PROVE PcsFit'
  BY <1>5, <1>7, StepsMove
<1>8. ASSUME NEW h \in hand, Revise(h) \/ Fill(h) \/ FreezeAgain(h) PROVE PcsFit'
  <2>1. CASE Revise(h)
    BY <1>5, <2>1, StepsMove DEF Revise
  <2>2. CASE Fill(h)
    BY <1>5, <2>2, StepsMove DEF Fill
  <2>3. CASE FreezeAgain(h)
    <3>1. h.key[1] = "fill"
      BY <2>3 DEF FreezeAgain, At, PcsFit
    <3> QED
      BY <1>5, <2>3, <3>1, StepsMove
  <2> QED
    BY <1>8, <2>1, <2>2, <2>3
<1>9. ASSUME NEW h \in hand, WriteFile(h) PROVE PcsFit'
  <2>1. CASE h.key[1] = "fix"
    BY <1>5, <1>9, <2>1, StepsMove
  <2>2. CASE h.key[1] # "fix"
    <3>1. Goto(h, "landed") /\ UNCHANGED driveVars
      BY <1>9, <2>2 DEF WriteFile
    <3>2. h \in Hands
      BY DEF TypeOK
    <3>3. \A x \in hand' : x \in hand \/ x.pc = "landed"
      BY <3>1, <3>2 DEF Goto, Hands
    <3> QED
      BY <3>3 DEF PcsFit
  <2> QED
    BY <2>1, <2>2
<1> QED
  BY <1>1, <1>2, <1>3, <1>4, <1>6, <1>7, <1>8, <1>9 DEF Next, Work, Lands

\* What each step of the contract's line waits for.
LEMMA ContractWaits ==
  ASSUME TypeOK, NEW s \in Listed
  PROVE  /\ s.key = <<"loop", "contract">> => s.after = {<<"store", "contract">>}
         /\ s.key = <<"loop", "audit">> => s.after = {<<"loop", "contract">>}
         /\ \A r : s.key = <<"gate", "blocks", r>> =>
              r \in 1..(Sent + 1) /\ s.after = {IF r = 1 THEN <<"loop", "audit">> ELSE <<"revise", r - 1>>}
         /\ \A r : s.key = <<"revise", r>> => r \in 1..Sent /\ s.after = {<<"gate", "blocks", r>>}
         /\ s.key = <<"freeze">> => s.after = {<<"gate", "blocks", Sent + 1>>} /\ Answer(<<"blocks", Sent + 1>>) # None
         /\ s.key = <<"gate", "tolerances", 1>> => s.after = {<<"freeze">>}
         /\ s.key = <<"fill">> => undecided /\ s.after = {<<"gate", "tolerances", 1>>}
         /\ s.key = <<"store", "vspec">> => s.after = {IF undecided THEN <<"fill">> ELSE <<"freeze">>}
<1> DEFINE Q ==
         /\ s.key = <<"loop", "contract">> => s.after = {<<"store", "contract">>}
         /\ s.key = <<"loop", "audit">> => s.after = {<<"loop", "contract">>}
         /\ \A r : s.key = <<"gate", "blocks", r>> =>
              r \in 1..(Sent + 1) /\ s.after = {IF r = 1 THEN <<"loop", "audit">> ELSE <<"revise", r - 1>>}
         /\ \A r : s.key = <<"revise", r>> => r \in 1..Sent /\ s.after = {<<"gate", "blocks", r>>}
         /\ s.key = <<"freeze">> => s.after = {<<"gate", "blocks", Sent + 1>>} /\ Answer(<<"blocks", Sent + 1>>) # None
         /\ s.key = <<"gate", "tolerances", 1>> => s.after = {<<"freeze">>}
         /\ s.key = <<"fill">> => undecided /\ s.after = {<<"gate", "tolerances", 1>>}
         /\ s.key = <<"store", "vspec">> => s.after = {IF undecided THEN <<"fill">> ELSE <<"freeze">>}
<1>1. ASSUME BuildKey(s) PROVE Q
  <2>1. s.key[1] \in {"write", "verify", "ruling", "fix", "report"}
    BY <1>1 DEF BuildKey
  <2> QED
    BY <2>1
<1>2. ASSUME DebateKey(s) PROVE Q
  <2>1. \/ s.key[1] \in {"case", "judge", "report"}
        \/ s.key[1] = "store" /\ s.key[2] \in {"brief", "hypotheses", "rebuttal"}
        \/ s.key[1] = "loop" /\ s.key[2] = "hypotheses"
        \/ s.key[1] = "gate" /\ s.key[2] \in {"rubric", "verdict"}
    BY <1>2 DEF DebateKey
  <2> QED
    BY <2>1
<1>3. ASSUME DesignKey(s) PROVE Q
  <2>1. ASSUME NEW i \in 1..8, s.key = OpeningLine[i], s.after = IF i = 1 THEN {} ELSE {OpeningLine[i - 1]} PROVE Q
    <3>1. /\ OpeningLine[1] = <<"store", "brief">> /\ OpeningLine[2] = <<"store", "ledger">>
          /\ OpeningLine[3] = <<"gate", "ledger", 1>> /\ OpeningLine[4] = <<"store", "plan">>
          /\ OpeningLine[5] = <<"loop", "plan">> /\ OpeningLine[6] = <<"store", "contract">>
          /\ OpeningLine[7] = <<"loop", "contract">> /\ OpeningLine[8] = <<"loop", "audit">>
      BY DEF OpeningLine
    <3>2. CASE i \in 1..6
      <4>1. \/ s.key[1] = "store" /\ s.key[2] \in {"brief", "ledger", "plan", "contract"}
            \/ s.key[1] = "gate" /\ s.key[2] = "ledger"
            \/ s.key[1] = "loop" /\ s.key[2] = "plan"
        BY <2>1, <3>1, <3>2
      <4> QED
        BY <4>1
    <3>3. CASE i = 7
      <4>1. i - 1 = 6 /\ i # 1
        BY <3>3
      <4>2. OpeningLine[i - 1] = OpeningLine[6] /\ OpeningLine[i] = OpeningLine[7]
        BY <3>3, <4>1
      <4>3. s.key = <<"loop", "contract">> /\ s.after = {<<"store", "contract">>}
        BY <2>1, <3>1, <4>1, <4>2
      <4> QED
        BY <4>3
    <3>4. CASE i = 8
      <4>1. i - 1 = 7 /\ i # 1
        BY <3>4
      <4>2. OpeningLine[i - 1] = OpeningLine[7] /\ OpeningLine[i] = OpeningLine[8]
        BY <3>4, <4>1
      <4>3. s.key = <<"loop", "audit">> /\ s.after = {<<"loop", "contract">>}
        BY <2>1, <3>1, <4>1, <4>2
      <4> QED
        BY <4>3
    <3> QED
      BY <3>2, <3>3, <3>4
  <2>2. ASSUME NEW r \in 1..(Sent + 1), s.key = <<"gate", "blocks", r>>,
               s.after = {IF r = 1 THEN <<"loop", "audit">> ELSE <<"revise", r - 1>>}
        PROVE  Q
    BY <2>2
  <2>3. ASSUME NEW r \in 1..Sent, s.key = <<"revise", r>>, s.after = {<<"gate", "blocks", r>>} PROVE Q
    BY <2>3
  <2>4. ASSUME s.key = <<"freeze">>, s.after = {<<"gate", "blocks", Sent + 1>>}, Answer(<<"blocks", Sent + 1>>) # None
        PROVE  Q
    BY <2>4
  <2>5. ASSUME undecided /\ s.key = <<"gate", "tolerances", 1>> /\ s.after = {<<"freeze">>} PROVE Q
    BY <2>5
  <2>6. ASSUME undecided /\ s.key = <<"fill">> /\ s.after = {<<"gate", "tolerances", 1>>} PROVE Q
    BY <2>6
  <2>7. ASSUME s.key = <<"store", "vspec">> /\ s.after = {IF undecided THEN <<"fill">> ELSE <<"freeze">>} PROVE Q
    BY <2>7
  <2>8. ASSUME s.key = <<"loop", "vspec">> \/ s.key = <<"coverage">> \/ s.key = <<"gate", "verification", 1>>
               \/ s.key = <<"store", "tasks">>
        PROVE  Q
    <3>1. \/ s.key[1] = "loop" /\ s.key[2] = "vspec"
          \/ s.key[1] = "coverage"
          \/ s.key[1] = "gate" /\ s.key[2] = "verification"
          \/ s.key[1] = "store" /\ s.key[2] = "tasks"
      BY <2>8
    <3> QED
      BY <3>1
  <2> HIDE DEF Q
  <2> QED
    BY <1>3, <2>1, <2>2, <2>3, <2>4, <2>5, <2>6, <2>7, <2>8 DEF DesignKey
<1> QED
  BY <1>1, <1>2, <1>3, ListedAre
\* Every step that is ready is listed, and what it waits for is done.
LEMMA ReadyAre ==
  ASSUME NEW k \in Ready PROVE \E s \in Listed : s.key = k /\ s.after \subseteq done /\ k \notin done
  BY DEF Ready

\* Every step keeps the order of the contract's line.
LEMMA ContractStep ==
  ASSUME TypeOK, HandsApart, AnswersAreSingle, RevisesAreCounted, SentIsPrefix, ContractOrder, [Next]_vars
  PROVE  SentIsPrefix' /\ ContractOrder'
<1>0. Sent \in Nat
  BY SentIsANumber DEF Sent
<1>1. /\ SentIsPrefix' /\ SentBack \subseteq SentBack' /\ Sent <= Sent'
      /\ Sent' # Sent => \E h \in hand : h.key = <<"gate", "blocks", Sent + 1>> /\ Answer(<<"blocks", Sent + 1>>) = None
  <2>1. \A h \in hand : \A r : h.key = <<"gate", "blocks", r>> => r \in 1..(Sent + 1)
    BY DEF ContractOrder, Began
  <2> QED
    BY <2>1, SentStep
<1>2. 1..Sent \subseteq 1..Sent' /\ 1..(Sent + 1) \subseteq 1..(Sent' + 1) /\ Sent' \in Nat
  <2>1. Sent' \in Nat
    <3>1. CASE Sent' = Sent
      BY <1>0, <3>1
    <3>2. CASE Sent' # Sent
      <4>1. IsFiniteSet(SentBack')
        <5>1. SentBack' \in SUBSET (1..MaxRevise)
          BY DEF SentBack
        <5>2. IsFiniteSet(1..MaxRevise)
          BY RecipeAssumption, FS_Interval
        <5> QED
          BY <5>1, <5>2, FS_Subset
      <4>2. Sent' = Cardinality(SentBack')
        BY DEF Sent
      <4> QED
        BY <4>1, <4>2, FS_CardinalityType
    <3> QED
      BY <3>1, <3>2
  <2>2. \A a, b \in Nat : a <= b => 1..a \subseteq 1..b /\ 1..(a + 1) \subseteq 1..(b + 1)
    OBVIOUS
  <2> QED
    BY <1>0, <1>1, <2>1, <2>2
<1>3. done \subseteq done'
  BY BeganKept
<1>4. BlocksOver => BlocksOver'
  <2>1. SUFFICES ASSUME BlocksOver PROVE BlocksOver'
    OBVIOUS
  <2>2. Sent' = Sent
    BY <1>1, <2>1 DEF BlocksOver
  <2>3. SentBack' = SentBack
    BY <1>1, <2>2 DEF SentIsPrefix
  <2>4. PICK n \in Nat : n = Sent
    BY <1>0
  <2>5. Answer(<<"blocks", n + 1>>)' = Answer(<<"blocks", n + 1>>)
    BY <2>1, <2>4, DecisionStep DEF BlocksOver
  <2>6. Answer(<<"blocks", n + 1>>)' \notin {None, "revise"}
    BY <2>1, <2>4, <2>5 DEF BlocksOver
  <2> QED
    BY <1>3, <2>1, <2>2, <2>3, <2>4, <2>6 DEF BlocksOver
<1>5. CASE ~Round
  <2>1. \A k : Began(k)' => Began(k)
    BY <1>5, BeganKept
  <2> QED
    BY <1>1, <1>2, <1>3, <1>4, <2>1 DEF ContractOrder
<1>6. CASE Round
  <2>1. UNCHANGED <<files, driveVars>>
    BY <1>6, RoundTakesReady
  <2>2. /\ SentBack' = SentBack /\ Sent' = Sent /\ \A x : Answer(x)' = Answer(x) /\ done' = done
    <3>1. \A x : Answer(x)' = Answer(x)
      BY <2>1, AnswerIsGiven DEF files
    <3> QED
      BY <2>1, <3>1, SentIsSame DEF driveVars
  <2>3. BlocksOver' <=> BlocksOver
    BY <2>2 DEF BlocksOver
  <2>4. \A k : Began(k)' => Began(k) \/ \E s \in Listed : s.key = k /\ s.after \subseteq done
    BY <1>6, RoundTakesReady, ReadyAre DEF Began
  <2>a. ASSUME Began(<<"loop", "contract">>)' PROVE <<"store", "contract">> \in done
    BY <2>4, <2>a, ContractWaits DEF ContractOrder
  <2>b. ASSUME Began(<<"loop", "audit">>)' PROVE <<"loop", "contract">> \in done
    BY <2>4, <2>b, ContractWaits DEF ContractOrder
  <2>c. ASSUME NEW r, Began(<<"gate", "blocks", r>>)'
        PROVE  r \in 1..(Sent + 1) /\ <<"loop", "audit">> \in done /\ \A q \in 1..(r - 1) : <<"revise", q>> \in done
    <3>1. CASE Began(<<"gate", "blocks", r>>)
      BY <3>1 DEF ContractOrder
    <3>2. CASE \E s \in Listed : s.key = <<"gate", "blocks", r>> /\ s.after \subseteq done
      <4>1. r \in 1..(Sent + 1) /\ (IF r = 1 THEN <<"loop", "audit">> ELSE <<"revise", r - 1>>) \in done
        BY <3>2, ContractWaits
      <4>2. CASE r = 1
        BY <4>1, <4>2
      <4>3. CASE r # 1
        <5>1. <<"revise", r - 1>> \in done
          BY <4>1, <4>3
        <5>2. <<"loop", "audit">> \in done /\ \A q \in 1..((r - 1) - 1) : <<"revise", q>> \in done
          BY <5>1 DEF ContractOrder, Began
        <5>3. \A q \in 1..(r - 1) : q = r - 1 \/ q \in 1..((r - 1) - 1)
          BY <1>0, <4>1
        <5> QED
          BY <4>1, <5>1, <5>2, <5>3
      <4> QED
        BY <4>2, <4>3
    <3> QED
      BY <2>4, <2>c, <3>1, <3>2
  <2>d. ASSUME NEW r, Began(<<"revise", r>>)'
        PROVE  r \in 1..Sent /\ <<"loop", "audit">> \in done /\ \A q \in 1..(r - 1) : <<"revise", q>> \in done
    <3>1. CASE Began(<<"revise", r>>)
      BY <3>1 DEF ContractOrder
    <3>2. CASE \E s \in Listed : s.key = <<"revise", r>> /\ s.after \subseteq done
      <4>1. r \in 1..Sent /\ <<"gate", "blocks", r>> \in done
        BY <3>2, ContractWaits
      <4> QED
        BY <4>1 DEF ContractOrder, Began
    <3> QED
      BY <2>4, <2>d, <3>1, <3>2
  <2>e. ASSUME Began(<<"freeze">>)' PROVE <<"loop", "audit">> \in done /\ BlocksOver
    <3>1. CASE Began(<<"freeze">>)
      BY <3>1 DEF ContractOrder
    <3>2. CASE \E s \in Listed : s.key = <<"freeze">> /\ s.after \subseteq done
      <4>1. <<"gate", "blocks", Sent + 1>> \in done /\ Answer(<<"blocks", Sent + 1>>) # None
        BY <3>2, ContractWaits
      <4>2. <<"loop", "audit">> \in done /\ \A q \in 1..((Sent + 1) - 1) : <<"revise", q>> \in done
        BY <4>1 DEF ContractOrder, Began
      <4>3. Answer(<<"blocks", Sent + 1>>) # "revise"
        <5>1. SUFFICES ASSUME Answer(<<"blocks", Sent + 1>>) = "revise" PROVE FALSE
          OBVIOUS
        <5>2. Sent + 1 \notin SentBack
          BY <1>0 DEF SentIsPrefix
        <5>3. Sent + 1 \notin 1..MaxRevise
          BY <5>1, <5>2 DEF SentBack
        <5>4. PICK x \in decision : x.gate = <<"blocks", Sent + 1>> /\ x.answer = "revise"
          BY <4>1, <5>1, AnswerIsGiven, GivenIs DEF AnswersAreSingle
        <5> QED
          BY <5>3, <5>4 DEF RevisesAreCounted
      <4> QED
        BY <1>0, <4>1, <4>2, <4>3 DEF BlocksOver, SentIsPrefix
    <3> QED
      BY <2>4, <2>e, <3>1, <3>2
  <2>f. ASSUME Began(<<"gate", "tolerances", 1>>)' PROVE <<"freeze">> \in done
    BY <2>4, <2>f, ContractWaits DEF ContractOrder
  <2>g. ASSUME Began(<<"fill">>)' PROVE <<"gate", "tolerances", 1>> \in done
    BY <2>4, <2>g, ContractWaits DEF ContractOrder
  <2> QED
    BY <1>1, <2>2, <2>3, <2>a, <2>b, <2>c, <2>d, <2>e, <2>f, <2>g DEF ContractOrder
<1> QED
  BY <1>5, <1>6
------------------------------------------------------------------------------
(* What is built on the contract is built on the hashed one. *)

\* A fill that waits to be called is still part of the program.
FillIsDue == \A h \in hand : h.key = <<"fill">> /\ h.pc = "call" => undecided

\* From the verification specification on the contract is complete.
ContractIsOver ==
  version["vspec"] \/ Began(<<"store", "vspec">>) =>
    /\ <<"freeze">> \in done
    /\ undecided => <<"fill">> \in done
    /\ \A h \in hand : h.key # <<"fill">>

\* What was hashed stays hashed, or a fill that will hash it again is at work.
Hashed ==
  "fill" \notin cut /\ (<<"freeze">> \in done \/ \E h \in hand : h.key = <<"freeze">> /\ h.pc = "landed") =>
    frozen \/ \E h \in hand : h.key = <<"fill">> /\ h.pc = "freeze"

\* Once the contract is being hashed no step at work stores another version, and no gate sends
\* the blocks back.
LEMMA WritersAreOver ==
  ASSUME TypeOK, HandsApart, SentIsPrefix, ContractOrder, Began(<<"freeze">>), NEW h \in hand
  PROVE  /\ h.key \notin {<<"store", "contract">>, <<"loop", "contract">>, <<"loop", "audit">>}
         /\ h.key[1] # "revise"
<1>1. h.key \in StepKeys /\ h.key \notin done /\ Began(h.key)
  BY DEF TypeOK, Hands, HandsApart, Began
<1>2. <<"loop", "audit">> \in done /\ BlocksOver
  BY DEF ContractOrder
<1>3. <<"loop", "contract">> \in done /\ <<"store", "contract">> \in done
  BY <1>2 DEF ContractOrder, Began
<1>4. ASSUME h.key[1] = "revise" PROVE FALSE
  <2>1. h.key = <<"revise", h.key[2]>>
    BY <1>1, <1>4, KeyShapes
  <2>2. h.key[2] \in 1..Sent
    BY <1>1, <2>1 DEF ContractOrder
  <2> QED
    BY <1>1, <1>2, <2>1, <2>2 DEF BlocksOver, SentIsPrefix
<1> QED
  BY <1>1, <1>2, <1>3, <1>4
\* The steps that store a version of the contract.
StoresContract(h) ==
  h.key \in {<<"store", "contract">>, <<"loop", "contract">>, <<"loop", "audit">>} \/ h.key[1] = "revise"

\* A step leaves the contract alone, hashes it, fills it, or stores another version of it.
LEMMA ContractFiles ==
  ASSUME TypeOK, PcsFit, NEW h \in hand, Lands(h) \/ Mark(h) \/ Revise(h) \/ WriteFile(h) \/ RulingRead(h) \/ CaseRead(h)
  PROVE  /\ version'["vspec"] = version["vspec"] \/ h.key = <<"store", "vspec">>
         /\ \/ UNCHANGED <<undecided, frozen>> /\ h.key # <<"freeze">>
            \/ StoresContract(h)
            \/ h.key = <<"freeze">> /\ frozen' = TRUE /\ undecided' = undecided
         /\ h.pc # "freeze"
<1>1. h.key \in StepKeys /\ version \in [Artifacts -> BOOLEAN]
  BY DEF TypeOK, Hands
<1>2. CASE Store(h)
  <2>1. h.key = <<"store", h.key[2]>> /\ h.key[2] \in Artifacts /\ h.pc = "call"
    BY <1>1, <1>2, KeyShapes DEF Store, At
  <2>2. CASE h.key[2] = "contract"
    <3>1. Put("contract") /\ h.key = <<"store", "contract">>
      BY <1>2, <2>1, <2>2 DEF Store, PutContract
    <3>2. version'["vspec"] = version["vspec"]
      BY <1>1, <3>1 DEF Put, Artifacts
    <3> QED
      BY <2>1, <3>1, <3>2 DEF StoresContract
  <2>3. CASE h.key[2] # "contract"
    <3>1. version' = [version EXCEPT ![h.key[2]] = TRUE] /\ UNCHANGED <<undecided, frozen>>
      BY <1>2, <2>3 DEF Store, Put
    <3>2. version'["vspec"] = version["vspec"] \/ h.key[2] = "vspec"
      BY <1>1, <3>1 DEF Artifacts
    <3>3. h.key # <<"freeze">> /\ (h.key[2] = "vspec" => h.key = <<"store", "vspec">>)
      BY <2>1
    <3> QED
      BY <2>1, <3>1, <3>2, <3>3
  <2> QED
    BY <2>2, <2>3
<1>3. CASE Review(h)
  <2>1. h.key = <<"loop", h.key[2]>> /\ h.pc = "call"
    BY <1>1, <1>3, KeyShapes DEF Review, At
  <2>2. CASE UNCHANGED <<version, undecided, frozen>>
    BY <2>1, <2>2
  <2>3. CASE Reviewed(h.key[2]) = "contract" /\ PutContract
    <3>1. h.key[2] \in {"contract", "audit"}
      BY <2>3 DEF Reviewed
    <3> QED
      BY <1>1, <2>1, <2>3, <3>1 DEF PutContract, Put, StoresContract
  <2> QED
    BY <1>3, <2>2, <2>3 DEF Review
<1>4. CASE Revise(h)
  BY <1>1, <1>4 DEF Revise, PutContract, Put, StoresContract, At
<1>5. CASE Freeze(h)
  BY <1>5 DEF Freeze, At
<1>6. CASE Gate(h) \/ Coverage(h) \/ Verify(h) \/ Judge(h) \/ Report(h) \/ RulingWrite(h) \/ CaseWrite(h)
           \/ WriteFile(h) \/ RulingRead(h) \/ CaseRead(h)
  <2>1. h.key[1] # "freeze"
    BY <1>6 DEF Gate, Coverage, Verify, Judge, Report, RulingWrite, CaseWrite, WriteFile, RulingRead,
       CaseRead
  <2>2. UNCHANGED <<version, undecided, frozen>> /\ h.pc # "freeze"
    BY <1>6 DEF Gate, Coverage, Verify, Judge, Report, RulingWrite, CaseWrite, WriteFile, RulingRead,
       CaseRead, At, files
  <2> QED
    BY <2>1, <2>2
<1>7. CASE Mark(h)
  BY <1>7 DEF Mark, At, PcsFit
<1> QED
  BY <1>2, <1>3, <1>4, <1>5, <1>6, <1>7 DEF Lands

\* Every step keeps the contract hashed once it was frozen.
LEMMA HashedStep ==
  ASSUME TypeOK, HandsApart, OneAtATime, PcsFit, SentIsPrefix, ContractOrder,
         FillIsDue, ContractIsOver, Hashed, [Next]_vars
  PROVE  FillIsDue' /\ ContractIsOver' /\ Hashed'
<1> DEFINE Goal == FillIsDue' /\ ContractIsOver' /\ Hashed'
<1>b. done \subseteq done' /\ (~Round => \A k : Began(k)' => Began(k))
  BY BeganKept
<1>f. Began(<<"fill">>) => <<"freeze">> \in done /\ Began(<<"freeze">>)
  BY DEF ContractOrder, Began
<1>v. version["vspec"] \/ Began(<<"store", "vspec">>) => Began(<<"freeze">>)
  BY DEF ContractIsOver, Began
<1>1. CASE UNCHANGED vars
  BY <1>1 DEF vars, files, FillIsDue, ContractIsOver, Hashed, Began
<1>2. CASE Round
  <2>1. UNCHANGED <<files, driveVars>> /\ hand = {} /\ \A h \in hand' : h.key \in Ready /\ h.pc = "call"
    BY <1>2, RoundTakesReady
  <2>2. <<"fill">> \in Ready => undecided /\ <<"fill">> \notin done
    BY ReadyAre, ContractWaits
  <2>3. <<"store", "vspec">> \in Ready => (IF undecided THEN <<"fill">> ELSE <<"freeze">>) \in done
    BY ReadyAre, ContractWaits
  <2>4. Began(<<"store", "vspec">>)' => <<"store", "vspec">> \in done \/ <<"store", "vspec">> \in Ready
    BY <1>2, RoundTakesReady
  <2>5. version["vspec"] \/ Began(<<"store", "vspec">>)' => <<"freeze">> \in done /\ (undecided => <<"fill">> \in done)
    <3>1. CASE version["vspec"] \/ Began(<<"store", "vspec">>)
      BY <3>1 DEF ContractIsOver
    <3>2. CASE <<"store", "vspec">> \in Ready
      BY <1>f, <2>3, <3>2 DEF Began
    <3> QED
      BY <2>4, <3>1, <3>2 DEF Began
  <2>6. FillIsDue'
    BY <2>1, <2>2 DEF FillIsDue, files
  <2>7. ContractIsOver'
    BY <2>1, <2>2, <2>5 DEF ContractIsOver, files, driveVars
  <2>8. Hashed'
    BY <2>1 DEF Hashed, files, driveVars
  <2> QED
    BY <2>6, <2>7, <2>8
<1>3. ASSUME NEW h \in hand, Lands(h) \/ Mark(h) \/ Revise(h) \/ WriteFile(h) \/ RulingRead(h) \/ CaseRead(h) PROVE Goal
  <2>1. PICK g \in Hands : g.key = h.key /\ g.pc \in {"write", "mark", "landed"} /\ hand' = (hand \ {h}) \union {g}
    <3>1. Moves(h, "landed") \/ Moves(h, "mark") \/ Moves(h, "write")
      BY <1>3, StepsMove, ReadsMove
    <3> QED
      BY <3>1 DEF Moves
  <2>2. done' = done /\ cut' = cut
    BY <1>3 DEF Lands, Store, Review, Gate, Freeze, Coverage, Verify, Judge, Report, RulingWrite,
       CaseWrite, Mark,
       Revise, WriteFile, RulingRead, CaseRead, driveVars
  <2>3. ~Round
    BY <1>3 DEF Round
  <2>4. /\ version'["vspec"] = version["vspec"] \/ h.key = <<"store", "vspec">>
        /\ \/ UNCHANGED <<undecided, frozen>> /\ h.key # <<"freeze">>
           \/ StoresContract(h)
           \/ h.key = <<"freeze">> /\ frozen' = TRUE /\ undecided' = undecided
        /\ h.pc # "freeze"
    BY <1>3, ContractFiles
  <2>5. version'["vspec"] \/ Began(<<"store", "vspec">>)' => version["vspec"] \/ Began(<<"store", "vspec">>)
    BY <1>b, <2>3, <2>4 DEF Began
  <2>6. CASE StoresContract(h)
    <3>1. ~Began(<<"freeze">>)
      BY <2>6, WritersAreOver DEF StoresContract
    <3>2. ~Began(<<"fill">>) /\ ~(version["vspec"] \/ Began(<<"store", "vspec">>))
      BY <1>f, <1>v, <3>1
    <3>3. ~Began(<<"freeze">>)' /\ ~Began(<<"fill">>)'
      BY <1>b, <2>3, <3>1, <3>2
    <3> QED
      BY <2>5, <3>2, <3>3 DEF FillIsDue, ContractIsOver, Hashed, Began
  <2>7. CASE ~StoresContract(h)
    <3>1. undecided' = undecided /\ (frozen' = frozen \/ frozen' = TRUE)
      BY <2>4, <2>7
    <3>2. FillIsDue'
      BY <2>1, <3>1 DEF FillIsDue
    <3>3. ContractIsOver'
      BY <2>1, <2>2, <2>5, <3>1 DEF ContractIsOver
    <3>4. Hashed'
      <4>1. CASE frozen' = TRUE
        BY <4>1 DEF Hashed
      <4>2. CASE frozen' = frozen /\ h.key # <<"freeze">>
        BY <2>1, <2>2, <2>4, <4>2 DEF Hashed
      <4> QED
        BY <2>4, <2>7, <4>1, <4>2
    <3> QED
      BY <3>2, <3>3, <3>4
  <2> QED
    BY <2>6, <2>7
<1>4. ASSUME NEW h \in hand, Fill(h) PROVE Goal
  <2>1. PICK g \in Hands : g.key = h.key /\ g.pc = "freeze" /\ hand' = (hand \ {h}) \union {g}
    BY <1>4, StepsMove DEF Moves
  <2>2. h.key = <<"fill">> /\ version'["vspec"] = version["vspec"] /\ done' = done
    BY <1>4 DEF Fill, Put, TypeOK, Artifacts, driveVars
  <2>3. ~(version["vspec"] \/ Began(<<"store", "vspec">>))
    BY <2>2 DEF ContractIsOver
  <2>4. ~(version'["vspec"] \/ Began(<<"store", "vspec">>)')
    BY <1>4, <1>b, <2>2, <2>3 DEF Round
  <2>5. FillIsDue'
    BY <2>1, <2>2 DEF FillIsDue, HandsApart
  <2> QED
    BY <2>1, <2>2, <2>4, <2>5 DEF ContractIsOver, Hashed
<1>5. ASSUME NEW h \in hand, FreezeAgain(h) PROVE Goal
  <2>1. PICK g \in Hands : g.key = h.key /\ g.pc = "mark" /\ hand' = (hand \ {h}) \union {g}
    BY <1>5, StepsMove DEF Moves
  <2>2. version' = version /\ undecided' = undecided /\ frozen' = TRUE /\ done' = done /\ ~Round
    BY <1>5 DEF FreezeAgain, driveVars, Round
  <2>3. FillIsDue'
    BY <2>1, <2>2 DEF FillIsDue
  <2>4. ContractIsOver'
    BY <1>b, <2>1, <2>2 DEF ContractIsOver
  <2> QED
    BY <2>2, <2>3, <2>4 DEF Hashed
<1>6. ASSUME NEW h \in hand, MarkDone(h) PROVE Goal
  <2>1. /\ hand' = hand \ {h} /\ done' = done \union {h.key} /\ cut' = cut /\ h.pc = "landed" /\ ~Round
        /\ UNCHANGED <<version, undecided, frozen>>
    BY <1>6 DEF MarkDone, At, files, Round
  <2>2. FillIsDue'
    BY <2>1 DEF FillIsDue
  <2>3. ContractIsOver'
    BY <1>b, <2>1 DEF ContractIsOver
  <2>4. Hashed'
    BY <2>1 DEF Hashed
  <2> QED
    BY <2>2, <2>3, <2>4
<1>7. ASSUME NEW h \in hand, Refuse(h) PROVE Goal
  <2>1. /\ UNCHANGED <<version, undecided, frozen, done, cut>> /\ ~Round /\ h.pc = "call"
        /\ hand' = IF pool THEN hand \ {h} ELSE {}
    BY <1>7 DEF Refuse, At, files, Round
  <2>2. \A g \in hand : g.pc = "freeze" => g \in hand'
    <3>1. ~pool => \A g \in hand \ {h} : g.pc = "call"
      BY <1>7 DEF Refuse, At
    <3> QED
      BY <2>1, <3>1
  <2>3. FillIsDue' /\ ContractIsOver'
    BY <1>b, <2>1 DEF FillIsDue, ContractIsOver
  <2>4. Hashed'
    BY <2>1, <2>2 DEF Hashed
  <2> QED
    BY <2>3, <2>4
<1>8. CASE Die
  <2>1. /\ UNCHANGED <<version, undecided, frozen, done>> /\ hand' = {} /\ ~Round
        /\ cut' = cut \union {h.key[1] : h \in {g \in hand : g.key[1] \in {"fill", "verify", "ruling"} /\ g.pc \notin {"call", "write"}}}
    BY <1>8 DEF Die, files, Round
  <2>2. (\E h \in hand : h.key = <<"fill">> /\ h.pc = "freeze") => "fill" \in cut'
    <3>1. SUFFICES ASSUME NEW h \in hand, h.key = <<"fill">>, h.pc = "freeze" PROVE "fill" \in cut'
      OBVIOUS
    <3>2. h.key[1] = "fill" /\ h \in {g \in hand : g.key[1] \in {"fill", "verify", "ruling"} /\ g.pc \notin {"call", "write"}}
      BY <3>1
    <3> QED
      BY <2>1, <3>2
  <2>3. FillIsDue' /\ ContractIsOver'
    BY <1>b, <2>1 DEF FillIsDue, ContractIsOver
  <2>4. Hashed'
    BY <2>1, <2>2 DEF Hashed
  <2> QED
    BY <2>3, <2>4
<1> QED
  BY <1>1, <1>2, <1>3, <1>4, <1>5, <1>6, <1>7, <1>8 DEF Next, Work, Lands
------------------------------------------------------------------------------
(* The cycles: verification, rulings, fixes. *)

\* Every failure of a cycle has its ruling, and the step that made it is done.
Settled(c) ==
  \A p \in Failing(c) :
    /\ <<"ruling", p, 1, c>> \in done
    /\ Ruling(p, 1, c) = "test_stands" => <<"ruling", p, 2, c>> \in done

\* A cycle that was ruled on and fixed.
Over(c) ==
  /\ c \in 1..Len(results) /\ <<"verify", c>> \in done
  /\ Triaged(c) /\ Settled(c) /\ ToFix(c) # {}
  /\ \A f \in ToFix(c) : <<"fix", f, c>> \in done

CycleOrder ==
  /\ Began(<<"verify", 1>>) => \A f \in BuildFiles : <<"write", f>> \in done
  /\ \A c : <<"verify", c>> \in done \/ (\E h \in hand : h.key = <<"verify", c>> /\ h.pc = "landed") => c \in 1..Len(results)
  /\ \A c : Began(<<"verify", c>>) => \A b \in 1..(c - 1) : Over(b)
  /\ \A p, q, c : Began(<<"ruling", p, q, c>>) =>
       /\ <<"verify", c>> \in done /\ p \in Failing(c)
       /\ q = 2 => <<"ruling", p, 1, c>> \in done /\ Ruling(p, 1, c) = "test_stands"
  /\ \A f, c : Began(<<"fix", f, c>>) =>
       /\ <<"verify", c>> \in done /\ Triaged(c) /\ Settled(c) /\ f \in ToFix(c)

\* What each step of a cycle waits for, and when it is listed.
LEMMA CycleWaits ==
  ASSUME TypeOK, NEW s \in Listed
  PROVE  /\ s.key = <<"verify", 1>> => s.after = {<<"write", f>> : f \in BuildFiles}
         /\ \A c : s.key = <<"verify", c>> =>
              /\ c \in Cycles
              /\ c # 1 => s.after = {<<"fix", f, c - 1>> : f \in ToFix(c - 1)}
         /\ \A p, q, c : s.key = <<"ruling", p, q, c>> =>
              /\ c \in Open /\ Triaged(c) /\ p \in Failing(c) /\ q \in {1, 2}
              /\ q = 1 => s.after = {<<"verify", c>>}
              /\ q = 2 => s.after = {<<"ruling", p, 1, c>>} /\ Ruling(p, 1, c) = "test_stands"
         /\ \A f, c : s.key = <<"fix", f, c>> =>
              /\ c \in Open /\ Triaged(c) /\ RulingsIn(c) /\ f \in ToFix(c)
              /\ s.after = {LastRuling(p, c) : p \in Failing(c)}
<1> DEFINE Q ==
         /\ s.key = <<"verify", 1>> => s.after = {<<"write", f>> : f \in BuildFiles}
         /\ \A c : s.key = <<"verify", c>> =>
              /\ c \in Cycles
              /\ c # 1 => s.after = {<<"fix", f, c - 1>> : f \in ToFix(c - 1)}
         /\ \A p, q, c : s.key = <<"ruling", p, q, c>> =>
              /\ c \in Open /\ Triaged(c) /\ p \in Failing(c) /\ q \in {1, 2}
              /\ q = 1 => s.after = {<<"verify", c>>}
              /\ q = 2 => s.after = {<<"ruling", p, 1, c>>} /\ Ruling(p, 1, c) = "test_stands"
         /\ \A f, c : s.key = <<"fix", f, c>> =>
              /\ c \in Open /\ Triaged(c) /\ RulingsIn(c) /\ f \in ToFix(c)
              /\ s.after = {LastRuling(p, c) : p \in Failing(c)}
<1>1. ASSUME s.key[1] \notin {"verify", "ruling", "fix"} PROVE Q
  BY <1>1
<1>2. DebateKey(s) \/ DesignKey(s) => s.key[1] \notin {"verify", "ruling", "fix"}
  <2>1. DebateKey(s) => s.key[1] \notin {"verify", "ruling", "fix"}
    BY DEF DebateKey
  <2>2. \A i \in 1..8 : OpeningLine[i][1] \in {"store", "loop", "gate"}
    BY DEF OpeningLine
  <2>3. DesignKey(s) => s.key[1] \notin {"verify", "ruling", "fix"}
    BY <2>2 DEF DesignKey
  <2> QED
    BY <2>1, <2>3
<1>3. ASSUME NEW c \in Cycles, s = VerifyStep(c) PROVE Q
  <2>1. /\ s.key = <<"verify", c>>
        /\ s.after = IF c = 1 THEN {<<"write", f>> : f \in BuildFiles} ELSE {<<"fix", f, c - 1>> : f \in ToFix(c - 1)}
    BY <1>3 DEF VerifyStep
  <2>2. \A d : s.key = <<"verify", d>> => d = c
    BY <2>1
  <2>3. s.key[1] = "verify"
    BY <2>1
  <2>4. s.key = <<"verify", 1>> => s.after = {<<"write", f>> : f \in BuildFiles}
    BY <2>1, <2>2
  <2>5. \A d : s.key = <<"verify", d>> => d \in Cycles /\ (d # 1 => s.after = {<<"fix", f, d - 1>> : f \in ToFix(d - 1)})
    BY <2>1, <2>2
  <2> QED
    BY <2>3, <2>4, <2>5
<1>4. ASSUME NEW c \in Open, NEW p \in Props, Triaged(c), p \in Failing(c),
             \/ s.key = <<"ruling", p, 1, c>> /\ s.after = {<<"verify", c>>}
             \/ Ruling(p, 1, c) = "test_stands" /\ s.key = <<"ruling", p, 2, c>> /\ s.after = {<<"ruling", p, 1, c>>}
      PROVE  Q
  <2>1. s.key[1] = "ruling"
    BY <1>4
  <2> QED
    BY <1>4, <2>1
<1>5. ASSUME NEW c \in Open, NEW f \in BuildFiles, Triaged(c), RulingsIn(c), f \in ToFix(c),
             s.key = <<"fix", f, c>>, s.after = {LastRuling(p, c) : p \in Failing(c)}
      PROVE  Q
  <2>1. s.key[1] = "fix"
    BY <1>5
  <2>2. \A e, d : s.key = <<"fix", e, d>> => e = f /\ d = c
    BY <1>5
  <2> QED
    BY <1>5, <2>1, <2>2
<1>6. BuildKey(s) => Q
  <2>1. (\E f \in BuildFiles : s.key = <<"write", f>>) \/ s.key = <<"report">> => s.key[1] \notin {"verify", "ruling", "fix"}
    OBVIOUS
  <2> HIDE DEF Q
  <2> QED
    BY <1>1, <1>3, <1>4, <1>5, <2>1 DEF BuildKey
<1> QED
  BY <1>1, <1>2, <1>6, ListedAre

\* The ruling a set of rulings holds.
RulingIn(R) == IF R = {} THEN None ELSE (CHOOSE x \in R : TRUE).verdict
About(R, p, q, c) == {x \in R : x.property = p /\ x.question = q /\ x.cycle = c}

\* A step is over: marked done, or about to be.
AtRest(k) == k \in done \/ \E h \in hand : h.key = k /\ h.pc = "landed"

\* Ruling, before and after a step.
LEMMA RulingIs ==
  \A p, q, c : /\ Ruling(p, q, c) = RulingIn(About(rulings, p, q, c))
               /\ Ruling(p, q, c)' = RulingIn(About(rulings', p, q, c))
  BY DEF Ruling, RulingIn, About

\* A ruling whose step is over stays as it is.
LEMMA RulingKept ==
  ASSUME TypeOK, HandsApart, [Next]_vars, NEW p, NEW q, NEW c, AtRest(<<"ruling", p, q, c>>)
  PROVE  Ruling(p, q, c)' = Ruling(p, q, c)
<1>1. CASE rulings' = rulings
  BY <1>1, RulingIs
<1>2. ASSUME NEW h \in hand, RulingWrite(h) PROVE Ruling(p, q, c)' = Ruling(p, q, c)
  <2>1. h.key \in StepKeys /\ h.key[1] = "ruling" /\ ~AtRest(h.key)
    BY <1>2 DEF TypeOK, Hands, RulingWrite, At, HandsApart, AtRest
  <2>2. h.key = <<"ruling", h.key[2], h.key[3], h.key[4]>>
    BY <2>1, KeyShapes
  <2>3. ~(h.key[2] = p /\ h.key[3] = q /\ h.key[4] = c)
    BY <2>1, <2>2
  <2>4. PICK v \in Verdicts(h.key[3]) :
          rulings' = {r \in rulings : ~Same(r, h.key)} \union
            {[property |-> h.key[2], question |-> h.key[3], cycle |-> h.key[4], verdict |-> v,
              id |-> h.seen, fresh |-> results[h.key[4]].current]}
    BY <1>2 DEF RulingWrite
  <2> DEFINE new == [property |-> h.key[2], question |-> h.key[3], cycle |-> h.key[4], verdict |-> v,
                     id |-> h.seen, fresh |-> results[h.key[4]].current]
  <2>5. new.property = h.key[2] /\ new.question = h.key[3] /\ new.cycle = h.key[4]
        /\ rulings' = {r \in rulings : ~Same(r, h.key)} \union {new}
    BY <2>4
  <2> HIDE DEF new
  <2>6. About(rulings', p, q, c) = About(rulings, p, q, c)
    BY <2>3, <2>5 DEF About, Same
  <2> QED
    BY <2>6, RulingIs
<1>3. rulings' = rulings \/ \E h \in hand : RulingWrite(h)
  BY DEF Next, Work, vars, files, Round, Store, Review, Gate, Freeze, Coverage, Verify, Judge, Report,
     CaseWrite, Mark,
       Revise, FreezeAgain, Fill, WriteFile, RulingRead, CaseRead, MarkDone, Refuse, Die
<1> QED
  BY <1>1, <1>2, <1>3

\* Results are only added, and what failed stays.
LEMMA ResultsKept ==
  ASSUME TypeOK, [Next]_vars
  PROVE  /\ Len(results) <= Len(results') /\ Len(results) \in Nat /\ Len(results') \in Nat
         /\ \A c \in 1..Len(results) : c \in 1..Len(results') /\ results'[c].failing = results[c].failing
         /\ \A c \in 1..Len(results) : results'[c].current = results[c].current \/ \E h \in hand : WriteFile(h)
         /\ results' = results \/ \E h \in hand : Verify(h) \/ WriteFile(h)
<1>0. Len(results) \in Nat /\ results \in Seq([failing : SUBSET Props, current : BOOLEAN])
  BY DEF TypeOK
<1>1. CASE results' = results
  BY <1>0, <1>1
<1>2. ASSUME NEW h \in hand, Verify(h)
      PROVE  /\ Len(results) <= Len(results') /\ Len(results') \in Nat
             /\ \A c \in 1..Len(results) : c \in 1..Len(results') /\ results'[c] = results[c]
  <2>1. PICK bad : results' = Append(results, [failing |-> bad, current |-> TRUE])
    BY <1>2 DEF Verify
  <2> DEFINE R == [failing : SUBSET Props, current : BOOLEAN] \union {[failing |-> bad, current |-> TRUE]}
             e == [failing |-> bad, current |-> TRUE]
  <2>2. results \in Seq(R) /\ e \in R /\ results' = Append(results, e)
    <3>1. \A i \in 1..Len(results) : results[i] \in R
      BY ResultsAre
    <3> QED
      BY <1>0, <2>1, <3>1
  <2> HIDE DEF R, e
  <2>3. Len(results') = Len(results) + 1 /\ \A c \in 1..Len(results) : results'[c] = results[c]
    BY <2>2
  <2> QED
    BY <1>0, <2>3
<1>3. ASSUME NEW h \in hand, WriteFile(h)
      PROVE  /\ Len(results) <= Len(results') /\ Len(results') \in Nat
             /\ \A c \in 1..Len(results) : c \in 1..Len(results') /\ results'[c].failing = results[c].failing
  <2>1. results' = [i \in DOMAIN results |-> [results[i] EXCEPT !.current = FALSE]]
    BY <1>3 DEF WriteFile
  <2>2. DOMAIN results = 1..Len(results)
    BY <1>0
  <2>3. Len(results') = Len(results)
    BY <1>0, <2>1, <2>2
  <2>4. \A c \in 1..Len(results) : results'[c].failing = results[c].failing
    <3>1. TAKE c \in 1..Len(results)
    <3>2. results[c] \in [failing : SUBSET Props, current : BOOLEAN]
      BY ResultsAre
    <3>3. results'[c] = [results[c] EXCEPT !.current = FALSE]
      BY <2>1, <2>2
    <3> QED
      BY <3>2, <3>3
  <2> QED
    BY <1>0, <2>3, <2>4
<1>4. results' = results \/ \E h \in hand : Verify(h) \/ WriteFile(h)
  BY DEF Next, Work, vars, files, Round, Store, Review, Gate, Freeze, Coverage, Judge, Report, CaseWrite,
     Mark,
       Revise, FreezeAgain, Fill, RulingWrite, RulingRead, CaseRead, MarkDone, Refuse, Die
<1> QED
  BY <1>0, <1>1, <1>2, <1>3, <1>4

\* What was ruled on stays so, and asks for the same fixes.
LEMMA SettledKept ==
  ASSUME TypeOK, HandsApart, [Next]_vars, NEW c \in 1..Len(results)
  PROVE  /\ Failing(c)' = Failing(c)
         /\ Triaged(c)' <=> Triaged(c)
         /\ Settled(c) => Settled(c)' /\ ToFix(c)' = ToFix(c)
         /\ Over(c) => Over(c)'
<1>1. c \in 1..Len(results') /\ results'[c].failing = results[c].failing
  BY ResultsKept
<1>2. Failing(c)' = Failing(c)
  BY <1>1 DEF Failing
<1>3. Triaged(c)' <=> Triaged(c)
  BY <1>2 DEF Triaged
<1>4. ASSUME Settled(c)
      PROVE  \A p \in Failing(c) : /\ Ruling(p, 1, c)' = Ruling(p, 1, c)
                                   /\ Ruling(p, 1, c) = "test_stands" => Ruling(p, 2, c)' = Ruling(p, 2, c)
  BY <1>4, RulingKept DEF Settled, AtRest
<1>5. done \subseteq done'
  BY BeganKept
<1>6. Settled(c) => Settled(c)'
  BY <1>2, <1>4, <1>5 DEF Settled
<1>7. Settled(c) => ToFix(c)' = ToFix(c)
  BY <1>2, <1>4 DEF ToFix
<1>8. Over(c) => Over(c)'
  BY <1>1, <1>3, <1>5, <1>6, <1>7 DEF Over
<1> QED
  BY <1>2, <1>3, <1>6, <1>7, <1>8

\* A verification is on file once Verify was taken.
LEMMA VerifyLands ==
  ASSUME TypeOK, PcsFit, [Next]_vars, NEW g \in hand', g.key[1] = "verify", g.pc = "landed"
  PROVE  g \in hand \/ \E h \in hand : Verify(h) /\ h.key = g.key
<1>1. CASE UNCHANGED vars
  BY <1>1 DEF vars
<1>2. CASE Round
  BY <1>2, RoundTakesReady
<1>3. ASSUME NEW h \in hand, MarkDone(h) \/ Refuse(h) PROVE g \in hand
  BY <1>3 DEF MarkDone, Refuse
<1>4. CASE Die
  BY <1>4 DEF Die
<1>5. ASSUME NEW h \in hand, Lands(h) \/ Mark(h) \/ Revise(h) \/ Fill(h) \/ FreezeAgain(h) \/ WriteFile(h)
                             \/ RulingRead(h) \/ CaseRead(h)
      PROVE  g \in hand \/ (Verify(h) /\ h.key = g.key)
  <2>1. \E pc : Moves(h, pc)
    BY <1>5, StepsMove, ReadsMove
  <2>2. SUFFICES ASSUME g \notin hand PROVE Verify(h) /\ h.key = g.key
    OBVIOUS
  <2>3. g.key = h.key
    BY <2>1, <2>2 DEF Moves
  <2>4. h.key[1] = "verify"
    BY <2>3
  <2>5. h.pc \notin {"mark", "freeze"}
    BY <2>4 DEF PcsFit
  <2>6. Verify(h)
    <3>1. Mark(h) \/ FreezeAgain(h) => h.pc \in {"mark", "freeze"}
      BY DEF Mark, FreezeAgain, At
    <3>2. Store(h) \/ Review(h) \/ Gate(h) \/ RulingWrite(h) \/ CaseWrite(h) \/ Revise(h) \/ RulingRead(h)
            \/ CaseRead(h) \/ WriteFile(h) => h.key[1] # "verify"
      BY DEF Store, Review, Gate, RulingWrite, CaseWrite, Revise, RulingRead, CaseRead, WriteFile
    <3>3. Freeze(h) \/ Coverage(h) \/ Judge(h) \/ Report(h) \/ Fill(h) => h.key[1] # "verify"
      BY DEF Freeze, Coverage, Judge, Report, Fill
    <3> QED
      BY <1>5, <2>4, <2>5, <3>1, <3>2, <3>3 DEF Lands
  <2> QED
    BY <2>3, <2>6
<1> QED
  BY <1>1, <1>2, <1>3, <1>4, <1>5 DEF Next, Work, Lands

\* A verification adds one version of the results, of the files as they are.
LEMMA VerifyAdds ==
  ASSUME TypeOK, NEW h \in hand, Verify(h)
  PROVE  /\ Len(results') = Len(results) + 1 /\ Len(results) \in Nat
         /\ results'[Len(results) + 1].current = TRUE
         /\ \A c \in 1..Len(results) : results'[c] = results[c]
<1>1. PICK bad : results' = Append(results, [failing |-> bad, current |-> TRUE])
  BY DEF Verify
<1> DEFINE R == [failing : SUBSET Props, current : BOOLEAN] \union {[failing |-> bad, current |-> TRUE]}
           e == [failing |-> bad, current |-> TRUE]
<1>2. results \in Seq(R) /\ e \in R /\ results' = Append(results, e) /\ Len(results) \in Nat
  <2>1. \A i \in 1..Len(results) : results[i] \in R
    BY ResultsAre
  <2>2. results \in Seq([failing : SUBSET Props, current : BOOLEAN])
    BY DEF TypeOK
  <2> QED
    BY <1>1, <2>1, <2>2
<1>3. e.current = TRUE
  OBVIOUS
<1> HIDE DEF R, e
<1>4. Len(results') = Len(results) + 1 /\ \A c \in 1..Len(results) : results'[c] = results[c]
  BY <1>2
<1>5. results'[Len(results) + 1] = e
  BY <1>2
<1> QED
  BY <1>2, <1>3, <1>4, <1>5

\* Every step keeps the order of the cycles.
LEMMA CycleStep ==
  ASSUME TypeOK, HandsApart, PcsFit, CycleOrder, [Next]_vars
  PROVE  CycleOrder'
<1>0. done \subseteq done' /\ (~Round => \A k : Began(k)' => Began(k)) /\ (\A k : k \in done' => Began(k))
  BY BeganKept
<1>d. \A k : k \in done => Began(k)
  BY DEF Began
<1>v. \A c : <<"verify", c>> \in done => c \in 1..Len(results)
  BY DEF CycleOrder
<1>1. CASE ~Round
  <2>1. Began(<<"verify", 1>>)' => \A f \in BuildFiles : <<"write", f>> \in done'
    BY <1>0, <1>1 DEF CycleOrder
  <2>2. ASSUME NEW c, <<"verify", c>> \in done' \/ (\E h \in hand' : h.key = <<"verify", c>> /\ h.pc = "landed")
        PROVE  c \in 1..Len(results')
    <3>1. c \in 1..Len(results) => c \in 1..Len(results')
      BY ResultsKept
    <3>2. CASE <<"verify", c>> \in done'
      <4>1. <<"verify", c>> \in done \/ \E h \in hand : h.key = <<"verify", c>> /\ h.pc = "landed"
        <5>1. done' = done \/ \E h \in hand : MarkDone(h)
          BY StepKinds, <1>1 DEF Moves, Drops, driveVars, vars
        <5> QED
          BY <3>2, <5>1 DEF MarkDone, At
      <4> QED
        BY <3>1, <4>1 DEF CycleOrder
    <3>3. ASSUME NEW g \in hand', g.key = <<"verify", c>>, g.pc = "landed" PROVE c \in 1..Len(results')
      <4>1. CASE g \in hand
        BY <3>1, <3>3, <4>1 DEF CycleOrder
      <4>2. ASSUME NEW h \in hand, Verify(h), h.key = g.key PROVE c \in 1..Len(results')
        <5>1. Len(results') = Len(results) + 1 /\ Len(results) \in Nat
          BY <4>2, VerifyAdds
        <5>2. c \in Numbers
          <6>1. h.key \in StepKeys /\ h.key = <<"verify", c>>
            BY <3>3, <4>2 DEF TypeOK, Hands
          <6>2. h.key[1] = "verify" /\ h.key[2] = c
            BY <6>1
          <6> QED
            BY <6>1, <6>2, KeyShapes
        <5>3. c # 1 => c - 1 \in 1..Len(results)
          <6>1. Began(<<"verify", c>>)
            BY <3>3, <4>2 DEF Began
          <6>2. \A b \in 1..(c - 1) : Over(b)
            BY <6>1 DEF CycleOrder
          <6>3. c # 1 => c - 1 \in 1..(c - 1)
            BY <5>2 DEF Numbers
          <6>4. c # 1 => Over(c - 1)
            BY <6>2, <6>3
          <6> QED
            BY <6>4 DEF Over
        <5> QED
          BY <5>1, <5>2, <5>3 DEF Numbers
      <4>3. g.key[1] = "verify"
        BY <3>3
      <4> QED
        BY <3>3, <4>1, <4>2, <4>3, VerifyLands
    <3> QED
      BY <2>2, <3>2, <3>3
  <2>3. ASSUME NEW c, Began(<<"verify", c>>)', NEW b \in 1..(c - 1) PROVE Over(b)'
    <3>1. Over(b)
      BY <1>0, <1>1, <2>3 DEF CycleOrder
    <3>2. b \in 1..Len(results)
      BY <3>1 DEF Over
    <3> QED
      BY <3>1, <3>2, SettledKept
  <2>4. ASSUME NEW p, NEW q, NEW c, Began(<<"ruling", p, q, c>>)'
        PROVE  /\ <<"verify", c>> \in done' /\ p \in Failing(c)'
               /\ q = 2 => <<"ruling", p, 1, c>> \in done' /\ Ruling(p, 1, c)' = "test_stands"
    <3>1. /\ <<"verify", c>> \in done /\ p \in Failing(c)
          /\ q = 2 => <<"ruling", p, 1, c>> \in done /\ Ruling(p, 1, c) = "test_stands"
      BY <1>0, <1>1, <2>4 DEF CycleOrder
    <3>2. c \in 1..Len(results)
      BY <1>v, <3>1
    <3>3. Failing(c)' = Failing(c)
      BY <3>2, SettledKept
    <3>4. q = 2 => Ruling(p, 1, c)' = Ruling(p, 1, c)
      BY <3>1, RulingKept DEF AtRest
    <3> QED
      BY <1>0, <3>1, <3>3, <3>4
  <2>5. ASSUME NEW f, NEW c, Began(<<"fix", f, c>>)'
        PROVE  /\ <<"verify", c>> \in done' /\ Triaged(c)' /\ Settled(c)' /\ f \in ToFix(c)'
    <3>1. <<"verify", c>> \in done /\ Triaged(c) /\ Settled(c) /\ f \in ToFix(c)
      BY <1>0, <1>1, <2>5 DEF CycleOrder
    <3>2. c \in 1..Len(results)
      BY <1>v, <3>1
    <3> QED
      BY <1>0, <3>1, <3>2, SettledKept
  <2> QED
    BY <2>1, <2>2, <2>3, <2>4, <2>5 DEF CycleOrder
<1>2. CASE Round
  <2>1. UNCHANGED <<files, driveVars>> /\ (\A k : Began(k)' => k \in done \/ k \in Ready) /\ \A h \in hand' : h.pc = "call"
    BY <1>2, RoundTakesReady
  <2>2. /\ results' = results /\ rulings' = rulings /\ done' = done
        /\ \A p, q, c : Ruling(p, q, c)' = Ruling(p, q, c)
    BY <2>1, RulingIs DEF files, driveVars
  <2>3. /\ \A c : Failing(c)' = Failing(c)
        /\ \A c : ToFix(c)' = ToFix(c)
        /\ \A c : Triaged(c)' <=> Triaged(c)
        /\ \A c : Settled(c)' <=> Settled(c)
        /\ \A c : Over(c)' <=> Over(c)
    <3>1. \A c : Failing(c)' = Failing(c)
      BY <2>2 DEF Failing
    <3>2. \A c : ToFix(c)' = ToFix(c)
      <4>1. TAKE c
      <4>2. Failing(c)' = Failing(c)
        BY <3>1
      <4> QED
        BY <2>2, <4>2 DEF ToFix
    <3>3. \A c : Triaged(c)' <=> Triaged(c)
      BY <3>1 DEF Triaged
    <3>4. \A c : Settled(c)' <=> Settled(c)
      BY <2>2, <3>1 DEF Settled
    <3>5. \A c : Over(c)' <=> Over(c)
      BY <2>2, <3>2, <3>3, <3>4 DEF Over
    <3> QED
      BY <3>1, <3>2, <3>3, <3>4, <3>5
  <2>4. Began(<<"verify", 1>>)' => \A f \in BuildFiles : <<"write", f>> \in done
    <3>1. <<"verify", 1>> \in Ready => \A f \in BuildFiles : <<"write", f>> \in done
      BY ReadyAre, CycleWaits
    <3> QED
      BY <1>d, <2>1, <3>1 DEF CycleOrder
  <2>5. \A c : <<"verify", c>> \in done' \/ (\E h \in hand' : h.key = <<"verify", c>> /\ h.pc = "landed") => c \in 1..Len(results')
    BY <1>v, <2>1, <2>2
  <2>6. ASSUME NEW c, Began(<<"verify", c>>)', NEW b \in 1..(c - 1) PROVE Over(b)
    <3>1. CASE <<"verify", c>> \in done
      BY <1>d, <3>1, <2>6 DEF CycleOrder
    <3>2. CASE <<"verify", c>> \in Ready
      <4>1. c \in Cycles /\ (c # 1 => \A f \in ToFix(c - 1) : <<"fix", f, c - 1>> \in done)
        BY <3>2, ReadyAre, CycleWaits
      <4>2. c \in Nat /\ b \in Nat /\ c # 1
        BY <2>6, <4>1, CyclesAreNumbers DEF Numbers
      <4>3. \A e \in 1..(c - 1) : Len(results) >= e /\ Triaged(e) /\ ToFix(e) # {}
        BY <4>1 DEF Cycles, Reached, Fixed
      <4>4. c - 1 \in 1..(c - 1)
        BY <2>6, <4>2
      <4> DEFINE d == c - 1
      <4>5. PICK f \in ToFix(d) : <<"fix", f, d>> \in done
        BY <4>1, <4>2, <4>3, <4>4
      <4> HIDE DEF d
      <4>6. <<"verify", d>> \in done /\ Triaged(d) /\ Settled(d)
        BY <1>d, <4>5 DEF CycleOrder
      <4>7. Over(d)
        <5>1. ToFix(d) # {} /\ \A e \in ToFix(d) : <<"fix", e, d>> \in done
          BY <4>1, <4>2, <4>3, <4>4 DEF d
        <5> QED
          BY <1>v, <4>6, <5>1 DEF Over
      <4>8. CASE b = d
        BY <4>7, <4>8
      <4>9. CASE b # d
        <5>1. b \in 1..(d - 1)
          BY <2>6, <4>2, <4>9 DEF d
        <5> QED
          BY <1>d, <4>6, <5>1 DEF CycleOrder
      <4> QED
        BY <4>8, <4>9
    <3> QED
      BY <2>1, <2>6, <3>1, <3>2
  <2>7. ASSUME NEW p, NEW q, NEW c, Began(<<"ruling", p, q, c>>)'
        PROVE  /\ <<"verify", c>> \in done /\ p \in Failing(c)
               /\ q = 2 => <<"ruling", p, 1, c>> \in done /\ Ruling(p, 1, c) = "test_stands"
    <3>1. CASE <<"ruling", p, q, c>> \in done
      BY <1>d, <3>1 DEF CycleOrder
    <3>2. CASE <<"ruling", p, q, c>> \in Ready
      <4>1. /\ p \in Failing(c) /\ q \in {1, 2}
            /\ q = 1 => <<"verify", c>> \in done
            /\ q = 2 => <<"ruling", p, 1, c>> \in done /\ Ruling(p, 1, c) = "test_stands"
        <5>1. PICK s \in Listed : s.key = <<"ruling", p, q, c>> /\ s.after \subseteq done
          BY <3>2, ReadyAre
        <5>2. /\ p \in Failing(c) /\ q \in {1, 2}
              /\ q = 1 => s.after = {<<"verify", c>>}
              /\ q = 2 => s.after = {<<"ruling", p, 1, c>>} /\ Ruling(p, 1, c) = "test_stands"
          BY <5>1, CycleWaits
        <5> QED
          BY <5>1, <5>2
      <4>2. q = 2 => <<"verify", c>> \in done
        BY <1>d, <4>1 DEF CycleOrder
      <4> QED
        BY <4>1, <4>2
    <3> QED
      BY <2>1, <2>7, <3>1, <3>2
  <2>8. ASSUME NEW f, NEW c, Began(<<"fix", f, c>>)'
        PROVE  <<"verify", c>> \in done /\ Triaged(c) /\ Settled(c) /\ f \in ToFix(c)
    <3>1. CASE <<"fix", f, c>> \in done
      BY <1>d, <3>1 DEF CycleOrder
    <3>2. CASE <<"fix", f, c>> \in Ready
      <4>1. Triaged(c) /\ f \in ToFix(c) /\ \A p \in Failing(c) : LastRuling(p, c) \in done
        <5>1. PICK s \in Listed : s.key = <<"fix", f, c>> /\ s.after \subseteq done
          BY <3>2, ReadyAre
        <5>2. Triaged(c) /\ f \in ToFix(c) /\ s.after = {LastRuling(p, c) : p \in Failing(c)}
          BY <5>1, CycleWaits
        <5> QED
          BY <5>1, <5>2
      <4>2. ASSUME NEW p \in Failing(c)
            PROVE  /\ <<"verify", c>> \in done
                   /\ <<"ruling", p, 1, c>> \in done
                   /\ Ruling(p, 1, c) = "test_stands" => <<"ruling", p, 2, c>> \in done
        <5>1. CASE Ruling(p, 1, c) = "test_bug"
          <6>1. <<"ruling", p, 1, c>> \in done
            BY <4>1, <5>1 DEF LastRuling
          <6> QED
            BY <1>d, <5>1, <6>1 DEF CycleOrder
        <5>2. CASE Ruling(p, 1, c) # "test_bug"
          <6>1. <<"ruling", p, 2, c>> \in done
            BY <4>1, <5>2 DEF LastRuling
          <6> QED
            BY <1>d, <6>1 DEF CycleOrder
        <5> QED
          BY <5>1, <5>2
      <4>3. Settled(c)
        BY <4>2 DEF Settled
      <4>4. <<"verify", c>> \in done
        BY <4>1, <4>2 DEF Triaged
      <4> QED
        BY <4>1, <4>3, <4>4
    <3> QED
      BY <2>1, <2>8, <3>1, <3>2
  <2> QED
    BY <2>2, <2>3, <2>4, <2>5, <2>6, <2>7, <2>8 DEF CycleOrder
<1> QED
  BY <1>1, <1>2

\* A ruling that is on its way is about results that are there.
LEMMA RulingsAreOfResults ==
  ASSUME TypeOK, CycleOrder PROVE RulingsHaveResults
<1>1. ASSUME NEW h \in hand, h.key[1] = "ruling" PROVE h.key[4] \in 1..Len(results)
  <2>1. h.key = <<"ruling", h.key[2], h.key[3], h.key[4]>>
    <3>1. h.key \in StepKeys
      BY DEF TypeOK, Hands
    <3> QED
      BY <1>1, <3>1, KeyShapes
  <2>2. Began(<<"ruling", h.key[2], h.key[3], h.key[4]>>)
    BY <2>1 DEF Began
  <2>3. <<"verify", h.key[4]>> \in done
    BY <2>2 DEF CycleOrder
  <2> QED
    BY <2>3 DEF CycleOrder
<1> QED
  BY <1>1 DEF RulingsHaveResults

\* Unless a verification was made twice, the results are those of the verifications begun.
CountOfResults ==
  "verify" \notin cut =>
    /\ \A c \in 1..Len(results) : Began(<<"verify", c>>)
    /\ \A h \in hand : h.key[1] = "verify" /\ h.pc = "call" => Len(results) = h.key[2] - 1

\* What is ruled on still is what was verified.
Freshness ==
  "verify" \notin cut =>
    /\ \A c \in 1..Len(results) : results[c].current \/ Settled(c)
    /\ \A h \in hand : h.key[1] = "ruling" => results[h.key[4]].current

\* The steps that leave results and rulings as they are.
LEMMA ResultsQuiet ==
  ASSUME [Next]_vars
  PROVE  \/ results' = results
         \/ \E h \in hand : Verify(h) \/ WriteFile(h)
  BY DEF Next, Work, vars, files, Round, Store, Review, Gate, Freeze, Coverage, Judge, Report, CaseWrite,
     Mark,
       Revise, FreezeAgain, Fill, RulingWrite, RulingRead, CaseRead, MarkDone, Refuse, Die

\* Every step keeps the count of the results.
LEMMA CountStep ==
  ASSUME TypeOK, HandsApart, PcsFit, CountOfResults, [Next]_vars
  PROVE  CountOfResults'
<1>0. Len(results) \in Nat /\ hand \subseteq Hands /\ \A h \in hand : h.key \in StepKeys
  BY DEF TypeOK, Hands
<1>c. cut \subseteq cut'
  BY DEF Next, Work, vars, driveVars, Round, Store, Review, Gate, Freeze, Coverage, Verify, Judge,
     Report, CaseWrite, Mark,
       Revise, FreezeAgain, Fill, WriteFile, RulingWrite, RulingRead, CaseRead, MarkDone, Refuse, Die
<1>1. SUFFICES ASSUME "verify" \notin cut', "verify" \notin cut
               PROVE  /\ \A c \in 1..Len(results') : Began(<<"verify", c>>)'
                      /\ \A h \in hand' : h.key[1] = "verify" /\ h.pc = "call" => Len(results') = h.key[2] - 1
  BY <1>c DEF CountOfResults
<1>2. /\ \A c \in 1..Len(results) : Began(<<"verify", c>>)
      /\ \A h \in hand : h.key[1] = "verify" /\ h.pc = "call" => Len(results) = h.key[2] - 1
  BY <1>1 DEF CountOfResults
<1>3. ASSUME Len(results') = Len(results),
             \A h \in hand' : h.pc = "call" => h \in hand,
             \A h \in hand : h.pc # "call" /\ h.key[1] = "verify" => h.key \in done' \/ \E g \in hand' : g.key = h.key,
             done \subseteq done'
      PROVE  /\ \A c \in 1..Len(results') : Began(<<"verify", c>>)'
             /\ \A h \in hand' : h.key[1] = "verify" /\ h.pc = "call" => Len(results') = h.key[2] - 1
  <2>1. ASSUME NEW c \in 1..Len(results) PROVE Began(<<"verify", c>>)'
    <3>1. Began(<<"verify", c>>)
      BY <1>2
    <3>2. ASSUME NEW h \in hand, h.key = <<"verify", c>> PROVE h.pc # "call"
      <4>1. h.key[1] = "verify" /\ h.key[2] = c
        BY <3>2
      <4> QED
        BY <1>0, <1>2, <4>1
    <3> QED
      BY <1>3, <3>1, <3>2 DEF Began
  <2> QED
    BY <1>2, <1>3, <2>1
<1>4. CASE UNCHANGED vars
  BY <1>3, <1>4 DEF vars, files
<1>5. CASE Round
  <2>1. /\ hand = {} /\ results' = results /\ done' = done
        /\ \A h \in hand' : h.key \in Ready
    BY <1>5, RoundTakesReady DEF files, driveVars
  <2>2. ASSUME NEW h \in hand', h.key[1] = "verify" PROVE Len(results) = h.key[2] - 1
    <3>1. h.key \in StepKeys
      BY <2>1, ReadyAreKeys
    <3>2. PICK c \in Numbers : h.key = <<"verify", c>> /\ h.key[2] = c
      BY <2>2, <3>1, KeyShapes
    <3>3. c \in Cycles
      BY <2>1, <3>2, ReadyAre, CycleWaits
    <3>4. Len(results) >= c - 1
      <4>1. CASE c = 1
        BY <1>0, <4>1
      <4>2. CASE c # 1
        <5>1. c - 1 \in 1..(c - 1)
          BY <3>2, <4>2 DEF Numbers
        <5> QED
          BY <3>3, <5>1 DEF Cycles, Reached
      <4> QED
        BY <4>1, <4>2
    <3>5. c \notin 1..Len(results)
      <4>1. <<"verify", c>> \notin done
        BY <2>1, <3>2, ReadyAre
      <4> QED
        BY <1>2, <2>1, <4>1 DEF Began
    <3> QED
      BY <1>0, <3>2, <3>4, <3>5 DEF Numbers
  <2>3. \A c \in 1..Len(results) : <<"verify", c>> \in done
    BY <1>2, <2>1 DEF Began
  <2> QED
    BY <2>1, <2>2, <2>3 DEF Began
<1>6. ASSUME NEW h \in hand, Lands(h) \/ Mark(h) \/ Revise(h) \/ Fill(h) \/ FreezeAgain(h) \/ WriteFile(h)
                             \/ RulingRead(h) \/ CaseRead(h), ~Verify(h)
      PROVE  /\ \A c \in 1..Len(results') : Began(<<"verify", c>>)'
             /\ \A g \in hand' : g.key[1] = "verify" /\ g.pc = "call" => Len(results') = g.key[2] - 1
  <2>1. PICK pc \in Places : Moves(h, pc)
    BY <1>6, StepsMove, ReadsMove DEF Places
  <2>2. PICK g \in Hands : g.key = h.key /\ g.pc = pc /\ hand' = (hand \ {h}) \union {g}
    BY <2>1 DEF Moves
  <2>3. done' = done /\ pc # "call"
    BY <2>1 DEF Moves, driveVars, Places
  <2>4. Len(results') = Len(results)
    <3>1. CASE WriteFile(h)
      <4>1. results' = [i \in DOMAIN results |-> [results[i] EXCEPT !.current = FALSE]] /\ DOMAIN results = 1..Len(results)
        BY <3>1 DEF WriteFile, TypeOK
      <4> QED
        BY <1>0, <4>1
    <3>2. CASE ~WriteFile(h)
      BY <1>6, <3>2 DEF Lands, Store, Review, Gate, Freeze, Coverage, Judge, Report, CaseWrite, Mark,
         Revise, FreezeAgain, Fill, RulingWrite, RulingRead, CaseRead, files
    <3> QED
      BY <3>1, <3>2
  <2> QED
    BY <1>3, <2>2, <2>3, <2>4
<1>7. ASSUME NEW h \in hand, Verify(h)
      PROVE  /\ \A c \in 1..Len(results') : Began(<<"verify", c>>)'
             /\ \A g \in hand' : g.key[1] = "verify" /\ g.pc = "call" => Len(results') = g.key[2] - 1
  <2>1. Len(results') = Len(results) + 1
    BY <1>7, VerifyAdds
  <2>2. PICK g \in Hands : g.key = h.key /\ g.pc = "landed" /\ hand' = (hand \ {h}) \union {g}
    BY <1>7, StepsMove DEF Lands, Moves
  <2>3. done' = done
    BY <1>7 DEF Verify, driveVars
  <2>4. h.key = <<"verify", h.key[2]>> /\ h.key[1] = "verify" /\ h.key[2] \in Numbers /\ h.pc = "call"
    BY <1>0, <1>7, KeyShapes DEF Verify, At
  <2>5. h.key[2] = Len(results) + 1
    BY <1>0, <1>2, <2>4 DEF Numbers
  <2>6. \A k : Began(k) => Began(k)'
    BY <2>2, <2>3 DEF Began
  <2>7. \A c : c = Len(results) + 1 => Began(<<"verify", c>>)'
    BY <2>2, <2>4, <2>5 DEF Began
  <2>8. \A c \in 1..Len(results') : Began(<<"verify", c>>)'
    <3>1. \A c \in 1..Len(results') : c \in 1..Len(results) \/ c = Len(results) + 1
      BY <1>0, <2>1
    <3> QED
      BY <1>2, <2>6, <2>7, <3>1
  <2>9. ASSUME NEW x \in hand', x.key[1] = "verify", x.pc = "call" PROVE FALSE
    <3>1. x \in hand /\ x # h
      BY <2>2, <2>9
    <3>2. x.key = <<"verify", x.key[2]>> /\ x.key[2] \in Numbers
      BY <1>0, <2>9, <3>1, KeyShapes
    <3>3. x.key[2] = Len(results) + 1
      BY <1>0, <1>2, <2>9, <3>1, <3>2 DEF Numbers
    <3>4. x.key = h.key
      BY <2>4, <2>5, <3>2, <3>3
    <3> QED
      BY <3>1, <3>4 DEF HandsApart
  <2> QED
    BY <2>8, <2>9
<1>8. ASSUME NEW h \in hand, MarkDone(h)
      PROVE  /\ \A c \in 1..Len(results') : Began(<<"verify", c>>)'
             /\ \A g \in hand' : g.key[1] = "verify" /\ g.pc = "call" => Len(results') = g.key[2] - 1
  <2>1. results' = results /\ done' = done \union {h.key} /\ hand' = hand \ {h}
    BY <1>8 DEF MarkDone, files
  <2> QED
    BY <1>3, <2>1
<1>9. ASSUME NEW h \in hand, Refuse(h)
      PROVE  /\ \A c \in 1..Len(results') : Began(<<"verify", c>>)'
             /\ \A g \in hand' : g.key[1] = "verify" /\ g.pc = "call" => Len(results') = g.key[2] - 1
  <2>1. /\ results' = results /\ done' = done /\ h.pc = "call" /\ hand' = IF pool THEN hand \ {h} ELSE {}
        /\ ~pool => \A g \in hand \ {h} : g.pc = "call"
    BY <1>9 DEF Refuse, files, At
  <2> QED
    BY <1>3, <2>1
<1>10. CASE Die
  <2>1. /\ results' = results /\ done' = done /\ hand' = {}
        /\ cut' = cut \union {h.key[1] : h \in {g \in hand : g.key[1] \in {"fill", "verify", "ruling"} /\ g.pc \notin {"call", "write"}}}
    BY <1>10 DEF Die, files
  <2>2. \A h \in hand : h.key[1] = "verify" => h.pc \in {"call", "write"}
    BY <1>1, <2>1
  <2>3. \A h \in hand : h.key[1] = "verify" => h.pc = "call"
    BY <2>2 DEF PcsFit
  <2> QED
    BY <1>3, <2>1, <2>3
<1> QED
  BY <1>4, <1>5, <1>6, <1>7, <1>8, <1>9, <1>10 DEF Next, Work, Lands

\* A cycle that is settled has nothing left to rule on.
LEMMA NothingToRule ==
  ASSUME NEW p, NEW q \in {1, 2}, NEW c, Settled(c), p \in Failing(c), q = 2 => Ruling(p, 1, c) = "test_stands"
  PROVE  <<"ruling", p, q, c>> \in done
BY DEF Settled

\* A ruling at work is about a failure that is not settled.
LEMMA RulingIsOpen ==
  ASSUME TypeOK, HandsApart, CycleOrder, NEW h \in hand, h.key[1] = "ruling"
  PROVE  h.key[4] \in 1..Len(results) /\ ~Settled(h.key[4])
<1>1. h.key \in StepKeys /\ h.key \notin done
  BY DEF TypeOK, Hands, HandsApart
<1>2. PICK p \in Props, q \in {1, 2}, c \in Numbers : h.key = <<"ruling", p, q, c>> /\ h.key[4] = c
  BY <1>1, KeyShapes
<1>3. /\ <<"verify", c>> \in done /\ p \in Failing(c)
      /\ q = 2 => Ruling(p, 1, c) = "test_stands"
  BY <1>2 DEF CycleOrder, Began
<1>4. ~Settled(c)
  BY <1>1, <1>2, <1>3, NothingToRule
<1> QED
  BY <1>2, <1>3, <1>4 DEF CycleOrder

\* When a file is written or fixed, every cycle so far is settled.
LEMMA WrittenWhenSettled ==
  ASSUME TypeOK, HandsApart, CycleOrder, CountOfResults, "verify" \notin cut, NEW h \in hand, WriteFile(h),
         NEW c \in 1..Len(results)
  PROVE  Settled(c)
<1>1. h.key \in StepKeys /\ h.key \notin done /\ Len(results) \in Nat
  BY DEF TypeOK, Hands, HandsApart
<1>2. Began(<<"verify", c>>)
  BY DEF CountOfResults
<1>3. CASE h.key[1] = "write"
  <2>1. PICK f \in BuildFiles : h.key = <<"write", f>>
    BY <1>1, <1>3, KeyShapes
  <2>2. 1 \in 1..Len(results)
    BY <1>1
  <2>3. Began(<<"verify", 1>>)
    BY <2>2 DEF CountOfResults
  <2> QED
    BY <1>1, <2>1, <2>3 DEF CycleOrder
<1>4. CASE h.key[1] = "fix"
  <2>1. PICK f \in BuildFiles, b \in Numbers : h.key = <<"fix", f, b>>
    BY <1>1, <1>4, KeyShapes
  <2>2. <<"verify", b>> \in done /\ Settled(b) /\ f \in ToFix(b)
    BY <2>1 DEF CycleOrder, Began
  <2>3. CASE c > b
    <3>1. b \in 1..(c - 1)
      BY <1>1, <2>1, <2>3 DEF Numbers
    <3>2. Over(b)
      BY <1>2, <3>1 DEF CycleOrder
    <3> QED
      BY <1>1, <2>1, <2>2, <3>2 DEF Over
  <2>4. CASE c < b
    <3>1. c \in 1..(b - 1)
      BY <1>1, <2>1, <2>4 DEF Numbers
    <3>2. Over(c)
      BY <2>2, <3>1 DEF CycleOrder, Began
    <3> QED
      BY <3>2 DEF Over
  <2> QED
    BY <1>1, <2>1, <2>2, <2>3, <2>4 DEF Numbers
<1> QED
  BY <1>3, <1>4 DEF WriteFile

\* Every step keeps the rulings about what was verified.
LEMMA FreshStep ==
  ASSUME TypeOK, HandsApart, PcsFit, CycleOrder, CountOfResults, Freshness, TriageIsFresh, [Next]_vars
  PROVE  Freshness' /\ TriageIsFresh'
<1>0. Len(results) \in Nat /\ hand \subseteq Hands /\ \A h \in hand : h.key \in StepKeys
  BY DEF TypeOK, Hands
<1>c. cut \subseteq cut'
  BY DEF Next, Work, vars, driveVars, Round, Store, Review, Gate, Freeze, Coverage, Verify, Judge,
     Report, CaseWrite, Mark,
       Revise, FreezeAgain, Fill, WriteFile, RulingWrite, RulingRead, CaseRead, MarkDone, Refuse, Die
<1>1. SUFFICES ASSUME "verify" \notin cut', "verify" \notin cut
               PROVE  /\ \A c \in 1..Len(results') : results'[c].current \/ Settled(c)'
                      /\ \A h \in hand' : h.key[1] = "ruling" => results'[h.key[4]].current
                      /\ \A r \in rulings' : r.fresh
  BY <1>c DEF Freshness, TriageIsFresh
<1>2. /\ \A c \in 1..Len(results) : results[c].current \/ Settled(c)
      /\ \A h \in hand : h.key[1] = "ruling" => results[h.key[4]].current
      /\ \A r \in rulings : r.fresh
  BY <1>1 DEF Freshness, TriageIsFresh
<1>3. \A c \in 1..Len(results) : Settled(c) => Settled(c)'
  BY SettledKept
<1>4. ASSUME NEW h \in hand', h.key[1] = "ruling" PROVE (\E g \in hand : g.key = h.key) \/ h.key \in Ready
  <2>1. CASE Round
    BY <1>4, <2>1, RoundTakesReady
  <2>2. CASE ~Round
    <3>1. hand' \subseteq hand \/ \E g \in hand : hand' \subseteq hand \union {x \in hand' : x.key = g.key}
      BY <2>2, StepKinds DEF Moves, Drops, MarkDone, vars
    <3> QED
      BY <1>4, <3>1
  <2> QED
    BY <2>1, <2>2
<1>5. ASSUME NEW h \in hand', h.key[1] = "ruling" PROVE h.key[4] \in 1..Len(results) /\ results[h.key[4]].current
  <2>1. CASE \E g \in hand : g.key = h.key
    BY <1>2, <1>5, <2>1, RulingIsOpen
  <2>2. CASE h.key \in Ready
    <3>1. h.key \in StepKeys
      BY <2>2, ReadyAreKeys
    <3>2. PICK p \in Props, q \in {1, 2}, c \in Numbers : h.key = <<"ruling", p, q, c>> /\ h.key[4] = c
      BY <1>5, <3>1, KeyShapes
    <3>3. PICK s \in Listed : s.key = <<"ruling", p, q, c>> /\ s.key \notin done
      BY <2>2, <3>2, ReadyAre
    <3>4. /\ c \in Open /\ p \in Failing(c)
          /\ q = 2 => Ruling(p, 1, c) = "test_stands"
      BY <3>3, CycleWaits
    <3>5. c \in 1..Len(results)
      BY <3>4, FailingAreProps
    <3>6. ~Settled(c)
      BY <3>3, <3>4, NothingToRule
    <3> QED
      BY <1>2, <3>2, <3>5, <3>6
  <2> QED
    BY <1>4, <1>5, <2>1, <2>2
<1>6. \A r \in rulings' : r.fresh
  <2>1. ASSUME NEW h \in hand, RulingWrite(h) PROVE \A r \in rulings' : r.fresh
    <3>1. results[h.key[4]].current
      BY <1>2, <2>1 DEF RulingWrite
    <3>2. PICK v \in Verdicts(h.key[3]) :
            rulings' = {r \in rulings : ~Same(r, h.key)} \union
              {[property |-> h.key[2], question |-> h.key[3], cycle |-> h.key[4], verdict |-> v,
                id |-> h.seen, fresh |-> results[h.key[4]].current]}
      BY <2>1 DEF RulingWrite
    <3> QED
      BY <1>2, <3>1, <3>2
  <2>2. rulings' = rulings \/ \E h \in hand : RulingWrite(h)
    BY DEF Next, Work, vars, files, Round, Store, Review, Gate, Freeze, Coverage, Verify, Judge, Report,
       CaseWrite, Mark,
       Revise, FreezeAgain, Fill, WriteFile, RulingRead, CaseRead, MarkDone, Refuse, Die
  <2> QED
    BY <1>2, <2>1, <2>2
<1>7. CASE results' = results
  BY <1>2, <1>3, <1>5, <1>6, <1>7
<1>8. ASSUME NEW h \in hand, Verify(h)
      PROVE  /\ \A c \in 1..Len(results') : results'[c].current \/ Settled(c)'
             /\ \A g \in hand' : g.key[1] = "ruling" => results'[g.key[4]].current
  <2>1. /\ Len(results') = Len(results) + 1
        /\ results'[Len(results) + 1].current = TRUE
        /\ \A c \in 1..Len(results) : results'[c] = results[c]
    BY <1>8, VerifyAdds
  <2>2. \A c \in 1..Len(results') : c \in 1..Len(results) \/ c = Len(results) + 1
    BY <1>0, <2>1
  <2>3. ASSUME NEW c \in 1..Len(results') PROVE results'[c].current \/ Settled(c)'
    <3>1. CASE c \in 1..Len(results)
      BY <1>2, <1>3, <2>1, <3>1
    <3>2. CASE c = Len(results) + 1
      BY <2>1, <3>2
    <3> QED
      BY <2>2, <3>1, <3>2
  <2> QED
    BY <1>5, <2>1, <2>3
<1>9. ASSUME NEW h \in hand, WriteFile(h)
      PROVE  /\ \A c \in 1..Len(results') : results'[c].current \/ Settled(c)'
             /\ \A g \in hand' : g.key[1] = "ruling" => results'[g.key[4]].current
  <2>1. \A c \in 1..Len(results) : Settled(c)
    BY <1>1, <1>9, WrittenWhenSettled
  <2>2. Len(results') = Len(results)
    <3>1. results' = [i \in DOMAIN results |-> [results[i] EXCEPT !.current = FALSE]] /\ DOMAIN results = 1..Len(results)
      BY <1>9 DEF WriteFile, TypeOK
    <3> QED
      BY <1>0, <3>1
  <2>3. \A c \in 1..Len(results') : Settled(c)'
    BY <1>3, <2>1, <2>2
  <2>4. ASSUME NEW g \in hand', g.key[1] = "ruling" PROVE FALSE
    <3>1. PICK x \in hand : x.key = g.key
      <4>1. \E pc : Moves(h, pc)
        BY <1>9, StepsMove
      <4> QED
        BY <2>4, <4>1 DEF Moves
    <3>2. x.key[1] = "ruling"
      BY <2>4, <3>1
    <3> QED
      BY <2>1, <3>2, RulingIsOpen
  <2> QED
    BY <2>3, <2>4
<1> QED
  BY <1>6, <1>7, <1>8, <1>9, ResultsQuiet

\* The inductive invariant: the kinds, the round, the numbers given, the decisions, the line the
\* contract is walked along, and the cycles.
RunInv ==
  /\ TypeOK /\ HandsApart /\ OneAtATime /\ PcsFit
  /\ NumbersAbove /\ IdsNeverShared
  /\ AnswersAreSingle /\ RevisesAreCounted /\ SentIsPrefix
  /\ ContractOrder /\ FillIsDue /\ ContractIsOver /\ Hashed
  /\ CycleOrder /\ CountOfResults /\ Freshness /\ TriageIsFresh

\* RunInv holds at the start of a run.
LEMMA RunInvInit == Init => RunInv
<1> SUFFICES ASSUME Init PROVE RunInv
  OBVIOUS
<1>1. hand = {} /\ done = {} /\ decision = {} /\ rulings = {} /\ results = <<>> /\ \A k : ~Began(k)
  BY DEF Init, FilesInit, Began
<1>2. TypeOK
  BY TypeInit
<1>3. HandsApart /\ OneAtATime /\ PcsFit /\ NumbersAbove /\ FillIsDue
  BY <1>1 DEF HandsApart, OneAtATime, PcsFit, NumbersAbove, FillIsDue
<1>4. IdsNeverShared
  BY DEF Init, FilesInit, IdsNeverShared, Sides
<1>5. AnswersAreSingle /\ RevisesAreCounted
  BY <1>1 DEF AnswersAreSingle, RevisesAreCounted
<1>6. SentIsPrefix
  <2>1. \A g : Answer(g) = None
    BY <1>1 DEF Answer
  <2>2. SentBack = {}
    BY <2>1, NoneIsNoAnswer DEF SentBack, Answers
  <2>3. Sent = 0
    BY <2>2, FS_EmptySet DEF Sent
  <2>4. {} = 1..0
    OBVIOUS
  <2> QED
    BY <2>2, <2>3, <2>4 DEF SentIsPrefix
<1>7. ContractOrder
  BY <1>1 DEF ContractOrder
<1>8. ContractIsOver /\ Hashed
  <2>1. ~version["vspec"]
    BY DEF Init, FilesInit, Artifacts
  <2> QED
    BY <1>1, <2>1 DEF ContractIsOver, Hashed
<1>9. CycleOrder
  BY <1>1 DEF CycleOrder
<1>10. CountOfResults /\ Freshness /\ TriageIsFresh
  <2>1. 1..Len(results) = {}
    BY <1>1
  <2> QED
    BY <1>1, <2>1 DEF CountOfResults, Freshness, TriageIsFresh
<1> QED
  BY <1>2, <1>3, <1>4, <1>5, <1>6, <1>7, <1>8, <1>9, <1>10 DEF RunInv

\* Every step keeps it, part by part.
LEMMA RunInvStep ==
  ASSUME RunInv, [Next]_vars PROVE RunInv'
<1> USE DEF RunInv
<1>1. TypeOK'
  <2>1. RulingsHaveResults
    BY RulingsAreOfResults
  <2>2. FilesOK' /\ DriveOK'
    BY <2>1, FilesKinds, DriveKinds
  <2> QED
    BY <2>2 DEF TypeOK, FilesOK, DriveOK
<1>2. HandsApart' /\ OneAtATime'
  BY HandsStep
<1>3. PcsFit'
  BY PcsStep
<1>4. NumbersAbove' /\ IdsNeverShared'
  BY NumbersStep
<1>5. AnswersAreSingle' /\ RevisesAreCounted'
  BY DecisionStep, RevisesStep
<1>6. SentIsPrefix' /\ ContractOrder'
  BY ContractStep
<1>7. FillIsDue' /\ ContractIsOver' /\ Hashed'
  BY HashedStep
<1>8. CycleOrder'
  BY CycleStep
<1>9. CountOfResults'
  BY CountStep
<1>10. Freshness' /\ TriageIsFresh'
  BY FreshStep
<1> QED
  BY <1>1, <1>2, <1>3, <1>4, <1>5, <1>6, <1>7, <1>8, <1>9, <1>10

\* So it holds of every state of a run.
LEMMA RunInvHolds == Spec => []RunInv
<1> QED
  BY RunInvInit, RunInvStep, PTL DEF Spec

\* Every variable keeps its kind: among others, the ids given have a largest one to go on from,
\* and every ruling that is written is about results that are there.
THEOREM TypeCorrect == Spec => []TypeOK
<1>1. RunInv => TypeOK
  BY DEF RunInv
<1> QED
  BY <1>1, RunInvHolds, PTL

\* An id is given once when steps run one at a time (IdsNeverShared).
THEOREM IdsAreApart == Spec => []IdsNeverShared
<1>1. RunInv => IdsNeverShared
  BY DEF RunInv
<1> QED
  BY <1>1, RunInvHolds, PTL

\* From the verification specification on freeze.json names the latest contract, unless a death
\* cut the fill of the tolerances short (FrozenIsBuilt).
THEOREM FrozenContractIsBuilt == Spec => []FrozenIsBuilt
<1>1. ASSUME RunInv PROVE FrozenIsBuilt
  <2>1. SUFFICES ASSUME version["vspec"], "fill" \notin cut PROVE frozen
    BY DEF FrozenIsBuilt
  <2>2. <<"freeze">> \in done /\ \A h \in hand : h.key # <<"fill">>
    BY <1>1, <2>1 DEF RunInv, ContractIsOver
  <2> QED
    BY <1>1, <2>1, <2>2 DEF RunInv, Hashed
<1> QED
  BY <1>1, RunInvHolds, PTL

\* A ruling was written while the files it judges were the ones verified (TriageIsFresh).
THEOREM RulingsAreFresh == Spec => []TriageIsFresh
<1>1. RunInv => TriageIsFresh
  BY DEF RunInv
<1> QED
  BY <1>1, RunInvHolds, PTL

------------------------------------------------------------------------------
(* What a step that is over left behind. *)

\* The steps but the driver's own.
Works(h) ==
  Lands(h) \/ Mark(h) \/ Revise(h) \/ Fill(h) \/ FreezeAgain(h) \/ WriteFile(h) \/ RulingRead(h) \/ CaseRead(h)

\* A step at work is not over yet, and stands where it said.
LEMMA WorksMove ==
  ASSUME TypeOK, NEW h \in hand, Works(h)
  PROVE  /\ h.pc # "landed" /\ ~Round /\ ~Die /\ done' = done /\ cut' = cut /\ recipe' = recipe
         /\ \E g \in Hands : g.key = h.key /\ g.pc \in Places /\ hand' = (hand \ {h}) \union {g}
<1>1. h.pc # "landed"
  BY DEF Works, Lands, Store, Review, Gate, Freeze, Coverage, Verify, Judge, Report, RulingWrite,
     CaseWrite, Mark,
     Revise, FreezeAgain, Fill, WriteFile, RulingRead, CaseRead, At
<1>2. PICK pc \in Places : Moves(h, pc)
  BY StepsMove, ReadsMove DEF Works, Places
<1>3. /\ done' = done /\ cut' = cut /\ recipe' = recipe
      /\ \E g \in Hands : g.key = h.key /\ g.pc \in Places /\ hand' = (hand \ {h}) \union {g}
  BY <1>2 DEF Moves, driveVars
<1>4. ~Round /\ ~Die
  BY <1>3 DEF Round, Die
<1> QED
  BY <1>1, <1>3, <1>4

\* The driver's steps leave the files alone.
LEMMA WhoWorks ==
  ASSUME [Next]_vars
  PROVE  \/ \E h \in hand : Works(h)
         \/ UNCHANGED files /\ (UNCHANGED vars \/ Round \/ Die \/ \E h \in hand : MarkDone(h) \/ Refuse(h))
  BY DEF Next, Work, Works, Lands, vars, Round, Die, MarkDone, Refuse

\* A step is over by its last write.
LEMMA RestsBy ==
  ASSUME TypeOK, [Next]_vars, NEW k, AtRest(k)', ~AtRest(k)
  PROVE  \E h \in hand : /\ h.key = k
                         /\ Lands(h) \/ Mark(h) \/ (WriteFile(h) /\ h.key[1] = "write")
<1>1. CASE UNCHANGED vars
  BY <1>1 DEF vars, AtRest
<1>2. CASE Round
  BY <1>2, RoundTakesReady DEF AtRest, driveVars
<1>3. ASSUME NEW h \in hand, MarkDone(h) PROVE FALSE
  BY <1>3 DEF MarkDone, At, AtRest
<1>4. ASSUME NEW h \in hand, Refuse(h) PROVE FALSE
  BY <1>4 DEF Refuse, AtRest
<1>5. CASE Die
  BY <1>5 DEF Die, AtRest
<1>6. ASSUME NEW h \in hand, Works(h)
      PROVE  h.key = k /\ (Lands(h) \/ Mark(h) \/ (WriteFile(h) /\ h.key[1] = "write"))
  <2>1. PICK g \in Hands : g.key = h.key /\ hand' = (hand \ {h}) \union {g}
    BY <1>6, WorksMove
  <2>2. done' = done
    BY <1>6, WorksMove
  <2>3. g.pc = "landed" /\ g.key = k
    BY <2>1, <2>2 DEF AtRest
  <2>4. g \notin hand
    BY <2>3 DEF AtRest
  <2>5. h \in Hands
    BY DEF TypeOK
  <2>6. ASSUME NEW pc, pc # "landed", Goto(h, pc) PROVE FALSE
    <3>1. \A x \in hand' : x \in hand \/ x.pc # "landed"
      BY <2>5, <2>6 DEF Goto, Hands
    <3> QED
      BY <2>1, <2>3, <2>4, <3>1
  <2>7. Revise(h) \/ FreezeAgain(h) => FALSE
    BY <2>6 DEF Revise, FreezeAgain
  <2>8. Fill(h) => FALSE
    BY <2>6 DEF Fill
  <2>9. WriteFile(h) => h.key[1] = "write"
    BY <2>6 DEF WriteFile
  <2>10. RulingRead(h) \/ CaseRead(h) => FALSE
    <3>1. ASSUME RulingRead(h) \/ CaseRead(h) PROVE \E x \in Hands : x.pc = "write" /\ hand' = (hand \ {h}) \union {x}
      BY <3>1, ReadsMove DEF Moves
    <3> QED
      BY <2>1, <2>3, <2>4, <3>1
  <2> QED
    BY <1>6, <2>1, <2>3, <2>7, <2>8, <2>9, <2>10 DEF Works
<1> QED
  BY <1>1, <1>2, <1>3, <1>4, <1>5, <1>6, WhoWorks

\* And stays over, but for a death before it was marked.
LEMMA RestKept ==
  ASSUME TypeOK, [Next]_vars, NEW k, AtRest(k)
  PROVE  AtRest(k)' \/ (Die /\ k \notin done)
<1>1. CASE UNCHANGED vars
  BY <1>1 DEF vars, AtRest
<1>2. CASE Round
  BY <1>2, RoundTakesReady DEF AtRest, driveVars
<1>3. ASSUME NEW h \in hand, MarkDone(h) PROVE AtRest(k)'
  BY <1>3 DEF MarkDone, AtRest
<1>4. ASSUME NEW h \in hand, Refuse(h) PROVE AtRest(k)'
  <2>1. /\ done' = done /\ h.pc = "call" /\ hand' = IF pool THEN hand \ {h} ELSE {}
        /\ ~pool => \A g \in hand \ {h} : g.pc = "call"
    BY <1>4 DEF Refuse, At
  <2> QED
    BY <2>1 DEF AtRest
<1>5. CASE Die
  BY <1>5 DEF Die, AtRest
<1>6. ASSUME NEW h \in hand, Works(h) PROVE AtRest(k)'
  <2>1. PICK g \in Hands : g.key = h.key /\ hand' = (hand \ {h}) \union {g}
    BY <1>6, WorksMove
  <2>2. done' = done /\ h.pc # "landed"
    BY <1>6, WorksMove
  <2> QED
    BY <2>1, <2>2 DEF AtRest
<1> QED
  BY <1>1, <1>2, <1>3, <1>4, <1>5, <1>6, WhoWorks

\* A ruling is there when one is on file.
LEMMA OneIsThere ==
  ASSUME NEW R, \A r \in R : r.verdict # None, NEW p, NEW q, NEW c
  PROVE  RulingIn(About(R, p, q, c)) # None <=> \E r \in R : r.property = p /\ r.question = q /\ r.cycle = c
<1> DEFINE A == About(R, p, q, c)
<1>1. \A r \in A : r \in R
  BY DEF About
<1>2. A # {} <=> \E r \in R : r.property = p /\ r.question = q /\ r.cycle = c
  BY DEF About
<1> HIDE DEF A
<1>3. A = {} => RulingIn(A) = None
  BY DEF RulingIn
<1>4. ASSUME A # {} PROVE RulingIn(A) # None
  <2>1. (CHOOSE x \in A : TRUE) \in A
    BY <1>4
  <2> QED
    BY <1>1, <1>4, <2>1 DEF RulingIn
<1> QED
  BY <1>2, <1>3, <1>4 DEF A

\* A ruling is told from None.
LEMMA RulingIsThere ==
  ASSUME TypeOK, NEW p, NEW q, NEW c
  PROVE  Ruling(p, q, c) # None <=> \E r \in rulings : r.property = p /\ r.question = q /\ r.cycle = c
<1>1. \A r \in rulings : r.verdict # None
  BY NoneIsNoAnswer DEF TypeOK
<1> QED
  BY <1>1, OneIsThere, RulingIs

\* The file a step leaves.
Left(k) == IF k[1] = "ruling" THEN Ruling(k[2], k[3], k[4]) # None ELSE Exists(k)

\* Every step that is over left its file (the report's aside: it is read by nothing).
RestLeft == \A k \in StepKeys : AtRest(k) /\ k[1] # "report" => Left(k)

\* The numbers read to number arguments from are not zero.
SeenCounts == \A h \in hand : h.pc = "write" => h.seen > 0

\* Every step keeps the numbers read positive.
LEMMA SeenStep ==
  ASSUME TypeOK, SeenCounts, [Next]_vars PROVE SeenCounts'
<1>1. ASSUME \A h \in hand' : h \in hand \/ h.pc # "write" PROVE SeenCounts'
  BY <1>1 DEF SeenCounts
<1>2. UNCHANGED vars \/ Round \/ Die \/ (\E h \in hand : MarkDone(h) \/ Refuse(h)) => \A h \in hand' : h \in hand \/ h.pc # "write"
  BY RoundTakesReady DEF vars, Die, MarkDone, Refuse
<1>3. ASSUME NEW h \in hand, Lands(h) \/ Mark(h) \/ Revise(h) \/ Fill(h) \/ FreezeAgain(h) \/ WriteFile(h)
      PROVE  \A g \in hand' : g \in hand \/ g.pc # "write"
  <2>1. Moves(h, "landed") \/ Moves(h, "mark") \/ Moves(h, "freeze")
    BY <1>3, StepsMove
  <2> QED
    BY <2>1 DEF Moves
<1>4. ASSUME NEW h \in hand, RulingRead(h) PROVE SeenCounts'
  <2> DEFINE n == Max({r.id : r \in rulings} \union {0}) + 1
  <2>1. n \in Nat /\ n > 0 /\ h \in Hands
    BY TopOfRulings DEF TypeOK
  <2>2. hand' = (hand \ {h}) \union {[h EXCEPT !.pc = "write", !.seen = n]}
    BY <1>4 DEF RulingRead, Saw
  <2> HIDE DEF n
  <2>3. [h EXCEPT !.pc = "write", !.seen = n].seen = n
    BY <2>1 DEF Hands
  <2> QED
    BY <2>1, <2>2, <2>3 DEF SeenCounts
<1>5. ASSUME NEW h \in hand, CaseRead(h) PROVE SeenCounts'
  <2> DEFINE n == Max({case[s] : s \in Sides}) + 1
  <2>1. n \in Nat /\ n > 0 /\ h \in Hands
    BY TopOfCases DEF TypeOK
  <2>2. hand' = (hand \ {h}) \union {[h EXCEPT !.pc = "write", !.seen = n]}
    BY <1>5 DEF CaseRead, Saw
  <2> HIDE DEF n
  <2>3. [h EXCEPT !.pc = "write", !.seen = n].seen = n
    BY <2>1 DEF Hands
  <2> QED
    BY <2>1, <2>2, <2>3 DEF SeenCounts
<1> QED
  BY <1>1, <1>2, <1>3, <1>4, <1>5, WhoWorks DEF Works

\* No file is taken away.
LEMMA FilesStay ==
  ASSUME TypeOK, TypeOK', AnswersAreSingle, SeenCounts, [Next]_vars
  PROVE  /\ \A a \in Artifacts : version[a] => version'[a]
         /\ marks \subseteq marks' /\ written \subseteq written'
         /\ \A s \in Sides : case[s] > 0 => case'[s] > 0
         /\ verdict # None => verdict' # None
         /\ \A p, q, c : Ruling(p, q, c) # None => Ruling(p, q, c)' # None
<1>k. \A h \in hand : h.key \in StepKeys /\ h \in Hands
  BY DEF TypeOK, Hands
<1>1. ASSUME NEW a \in Artifacts, version[a] PROVE version'[a]
  <2>1. \A b : Put(b) => version'[a]
    BY <1>1 DEF Put, TypeOK
  <2>2. version' = version \/ \E b : Put(b)
    BY DEF Next, Work, vars, files, Round, Store, Review, PutContract, Gate, Freeze, Coverage, Verify,
       Judge, Report, CaseWrite, Mark,
       Revise, FreezeAgain, Fill, WriteFile, RulingWrite, RulingRead, CaseRead, MarkDone, Refuse, Die
  <2> QED
    BY <1>1, <2>1, <2>2
<1>2. marks \subseteq marks' /\ written \subseteq written'
  BY DEF Next, Work, vars, files, Round, Store, Review, Marked, Gate, Freeze, Coverage, Verify, Judge,
     Report, CaseWrite, Mark,
     Revise, FreezeAgain, Fill, WriteFile, RulingWrite, RulingRead, CaseRead, MarkDone, Refuse, Die
<1>3. ASSUME NEW s \in Sides, case[s] > 0 PROVE case'[s] > 0
  <2>1. ASSUME NEW h \in hand, CaseWrite(h) PROVE case'[s] > 0
    <3>1. case' = [case EXCEPT ![h.key[2]] = h.seen] /\ h.seen > 0
      BY <2>1 DEF CaseWrite, At, SeenCounts
    <3> QED
      BY <1>3, <3>1 DEF TypeOK
  <2>2. case' = case \/ \E h \in hand : CaseWrite(h)
    BY DEF Next, Work, vars, files, Round, Store, Review, Gate, Freeze, Coverage, Verify, Judge, Report,
       Mark,
       Revise, FreezeAgain, Fill, WriteFile, RulingWrite, RulingRead, CaseRead, MarkDone, Refuse, Die
  <2> QED
    BY <1>3, <2>1, <2>2
<1>4. verdict # None => verdict' # None
  <2>1. (\E h \in hand : Judge(h)) => verdict' # None
    BY NoneIsNoAnswer DEF Judge, Judged
  <2>2. verdict' = verdict \/ \E h \in hand : Judge(h)
    BY DEF Next, Work, vars, files, Round, Store, Review, Gate, Freeze, Coverage, Verify, CaseWrite,
       Report, Mark,
       Revise, FreezeAgain, Fill, WriteFile, RulingWrite, RulingRead, CaseRead, MarkDone, Refuse, Die
  <2> QED
    BY <2>1, <2>2
<1>5. ASSUME NEW p, NEW q, NEW c, Ruling(p, q, c) # None PROVE Ruling(p, q, c)' # None
  <2>1. PICK r \in rulings : r.property = p /\ r.question = q /\ r.cycle = c
    BY <1>5, RulingIsThere
  <2>2. \E x \in rulings' : x.property = p /\ x.question = q /\ x.cycle = c
    <3>1. ASSUME NEW h \in hand, RulingWrite(h) PROVE \E x \in rulings' : x.property = p /\ x.question = q /\ x.cycle = c
      <4>1. PICK v \in Verdicts(h.key[3]) :
              rulings' = {x \in rulings : ~Same(x, h.key)} \union
                {[property |-> h.key[2], question |-> h.key[3], cycle |-> h.key[4], verdict |-> v,
                  id |-> h.seen, fresh |-> results[h.key[4]].current]}
        BY <3>1 DEF RulingWrite
      <4> DEFINE new == [property |-> h.key[2], question |-> h.key[3], cycle |-> h.key[4], verdict |-> v,
                         id |-> h.seen, fresh |-> results[h.key[4]].current]
      <4>2. new.property = h.key[2] /\ new.question = h.key[3] /\ new.cycle = h.key[4]
            /\ rulings' = {x \in rulings : ~Same(x, h.key)} \union {new}
        BY <4>1
      <4> HIDE DEF new
      <4> QED
        BY <2>1, <4>2 DEF Same
    <3>2. rulings' = rulings \/ \E h \in hand : RulingWrite(h)
      BY DEF Next, Work, vars, files, Round, Store, Review, Gate, Freeze, Coverage, Verify, Judge,
         Report, CaseWrite, Mark,
         Revise, FreezeAgain, Fill, WriteFile, RulingRead, CaseRead, MarkDone, Refuse, Die
    <3> QED
      BY <2>1, <3>1, <3>2
  <2>3. \A x \in rulings' : x.verdict # None
    BY NoneIsNoAnswer DEF TypeOK
  <2> QED
    BY <2>2, <2>3, OneIsThere, RulingIs
<1> QED
  BY <1>1, <1>2, <1>3, <1>4, <1>5

\* What is on file stays on file.
LEMMA LeftStays ==
  ASSUME TypeOK, TypeOK', AnswersAreSingle, SeenCounts, [Next]_vars, NEW k \in StepKeys, k[1] # "report", Left(k)
  PROVE  Left(k)'
<1>1. CASE k[1] = "store"
  BY <1>1, FilesStay, KeyShapes DEF Left, Exists
<1>2. CASE k[1] = "gate"
  <2>1. Answer(<<k[2], k[3]>>)' = Answer(<<k[2], k[3]>>)
    BY <1>2, DecisionStep DEF Left, Exists
  <2> QED
    BY <1>2, <2>1 DEF Left, Exists
<1>3. CASE k[1] = "write"
  BY <1>3, FilesStay DEF Left, Exists
<1>4. CASE k[1] = "verify"
  <2>1. k[2] \in Numbers
    BY <1>4, KeyShapes
  <2> QED
    BY <1>4, <2>1, ResultsKept DEF Left, Exists, Numbers
<1>5. CASE k[1] = "case"
  BY <1>5, FilesStay, KeyShapes DEF Left, Exists
<1>6. CASE k[1] = "judge"
  BY <1>6, FilesStay DEF Left, Exists
<1>7. CASE k[1] = "ruling"
  BY <1>7, FilesStay DEF Left
<1>8. CASE k[1] \notin {"store", "gate", "write", "verify", "case", "judge", "report", "ruling"}
  BY <1>8, FilesStay DEF Left, Exists
<1> QED
  BY <1>1, <1>2, <1>3, <1>4, <1>5, <1>6, <1>7, <1>8

\* A step leaves its file by the write it is over with.
LEMMA LastWriteLeaves ==
  ASSUME TypeOK, TypeOK', AnswersAreSingle, SeenCounts, PcsFit, CycleOrder', [Next]_vars,
         NEW h \in hand, Lands(h) \/ Mark(h) \/ (WriteFile(h) /\ h.key[1] = "write"),
         AtRest(h.key)', NEW k, k = h.key, k[1] # "report"
  PROVE  Left(k)'
<1>k. k \in StepKeys
  BY DEF TypeOK, Hands
<1>1. CASE Store(h)
  <2>1. k[1] = "store" /\ k[2] \in Artifacts /\ Put(k[2])
    BY <1>1, <1>k, KeyShapes DEF Store, PutContract
  <2> QED
    BY <2>1 DEF Put, Left, Exists, TypeOK
<1>2. CASE Gate(h)
  <2>1. k[1] = "gate" /\ Answer(<<k[2], k[3]>>)' # None
    BY <1>2, GateStep DEF Gate
  <2> QED
    BY <2>1 DEF Left, Exists
<1>3. CASE WriteFile(h) /\ h.key[1] = "write"
  BY <1>3 DEF WriteFile, Left, Exists
<1>4. CASE Verify(h)
  <2>1. k[1] = "verify" /\ k = <<"verify", k[2]>>
    BY <1>4, <1>k, KeyShapes DEF Verify
  <2> DEFINE c == k[2]
  <2>2. <<"verify", c>> \in done' \/ \E g \in hand' : g.key = <<"verify", c>> /\ g.pc = "landed"
    <3>1. k \in done' \/ \E g \in hand' : g.key = k /\ g.pc = "landed"
      BY <1>4 DEF AtRest, Verify, driveVars
    <3> QED
      BY <2>1, <3>1
  <2>3. c \in 1..Len(results')
    BY <2>2 DEF CycleOrder
  <2>4. Len(results') \in Nat /\ Len(results') >= k[2]
    BY <2>3, ResultsKept
  <2> QED
    BY <2>1, <2>4 DEF Left, Exists
<1>5. CASE CaseWrite(h)
  <2>1. k[1] = "case" /\ k[2] \in Sides /\ case' = [case EXCEPT ![k[2]] = h.seen] /\ h.seen > 0
    BY <1>5, <1>k, KeyShapes DEF CaseWrite, At, SeenCounts
  <2> QED
    BY <2>1 DEF Left, Exists, TypeOK
<1>6. CASE Judge(h)
  BY <1>6, NoneIsNoAnswer DEF Judge, Left, Exists, Judged
<1>7. CASE RulingWrite(h)
  <2>1. PICK v \in Verdicts(h.key[3]) :
          rulings' = {x \in rulings : ~Same(x, h.key)} \union
            {[property |-> h.key[2], question |-> h.key[3], cycle |-> h.key[4], verdict |-> v,
              id |-> h.seen, fresh |-> results[h.key[4]].current]}
    BY <1>7 DEF RulingWrite
  <2> DEFINE new == [property |-> h.key[2], question |-> h.key[3], cycle |-> h.key[4], verdict |-> v,
                     id |-> h.seen, fresh |-> results[h.key[4]].current]
  <2>2. \E x \in rulings' : x.property = k[2] /\ x.question = k[3] /\ x.cycle = k[4]
    <3>1. new \in rulings' /\ new.property = h.key[2] /\ new.question = h.key[3] /\ new.cycle = h.key[4]
      BY <2>1
    <3> HIDE DEF new
    <3> QED
      BY <3>1
  <2>3. \A x \in rulings' : x.verdict # None
    BY NoneIsNoAnswer DEF TypeOK
  <2>4. Ruling(k[2], k[3], k[4])' # None
    BY <2>2, <2>3, OneIsThere, RulingIs
  <2> QED
    BY <1>7, <2>4 DEF Left, RulingWrite
<1>8. CASE Report(h)
  BY <1>8 DEF Report
<1>9. CASE Review(h) \/ Freeze(h) \/ Coverage(h) \/ Mark(h)
  <2>1. k \in marks'
    BY <1>9 DEF Review, Freeze, Coverage, Mark, Marked
  <2>2. k[1] \notin {"store", "gate", "write", "verify", "case", "judge", "report", "ruling"}
    BY <1>9 DEF Review, Freeze, Coverage, Mark, At, PcsFit
  <2> QED
    BY <2>1, <2>2 DEF Left, Exists
<1> QED
  BY <1>1, <1>2, <1>3, <1>4, <1>5, <1>6, <1>7, <1>8, <1>9 DEF Lands

\* Every step keeps what the steps that are over left.
LEMMA RestStep ==
  ASSUME TypeOK, TypeOK', AnswersAreSingle, SeenCounts, PcsFit, CycleOrder', RestLeft, [Next]_vars
  PROVE  RestLeft'
<1>1. ASSUME NEW k \in StepKeys, AtRest(k)', k[1] # "report" PROVE Left(k)'
  <2>1. CASE AtRest(k)
    BY <1>1, <2>1, LeftStays DEF RestLeft
  <2>2. CASE ~AtRest(k)
    <3>1. PICK h \in hand : h.key = k /\ (Lands(h) \/ Mark(h) \/ (WriteFile(h) /\ h.key[1] = "write"))
      BY <1>1, <2>2, RestsBy
    <3> QED
      BY <1>1, <3>1, LastWriteLeaves
  <2> QED
    BY <2>1, <2>2
<1> QED
  BY <1>1 DEF RestLeft

\* A ruling on file was made by a step that is over, unless a death met it there.
RulingsStand ==
  "ruling" \notin cut =>
    \A r \in rulings : AtRest(<<"ruling", r.property, r.question, r.cycle>>)

\* What a death met is remembered.
LEMMA CutGrows ==
  ASSUME [Next]_vars PROVE cut \subseteq cut'
  BY DEF Next, Work, vars, driveVars, Round, Store, Review, Gate, Freeze, Coverage, Verify, Judge,
     Report, CaseWrite, Mark,
       Revise, FreezeAgain, Fill, WriteFile, RulingWrite, RulingRead, CaseRead, MarkDone, Refuse, Die

\* Every step keeps the rulings those of steps that are over.
LEMMA StandStep ==
  ASSUME TypeOK, RulingsStand, [Next]_vars PROVE RulingsStand'
<1>1. SUFFICES ASSUME "ruling" \notin cut', "ruling" \notin cut, NEW r \in rulings'
               PROVE  AtRest(<<"ruling", r.property, r.question, r.cycle>>)'
  BY CutGrows DEF RulingsStand
<1>2. ASSUME NEW k, k[1] = "ruling", AtRest(k) PROVE AtRest(k)'
  <2>1. SUFFICES ASSUME Die, k \notin done PROVE FALSE
    BY <1>2, RestKept
  <2>2. PICK h \in hand : h.key = k /\ h.pc = "landed"
    BY <1>2, <2>1 DEF AtRest
  <2>3. h \in {g \in hand : g.key[1] \in {"fill", "verify", "ruling"} /\ g.pc \notin {"call", "write"}} /\ h.key[1] = "ruling"
    BY <1>2, <2>2
  <2> QED
    BY <1>1, <2>1, <2>3 DEF Die
<1>3. CASE r \in rulings
  <2>1. AtRest(<<"ruling", r.property, r.question, r.cycle>>)
    BY <1>1, <1>3 DEF RulingsStand
  <2> QED
    BY <1>2, <2>1
<1>4. ASSUME NEW h \in hand, RulingWrite(h), r \notin rulings
      PROVE  AtRest(<<"ruling", r.property, r.question, r.cycle>>)'
  <2>1. r.property = h.key[2] /\ r.question = h.key[3] /\ r.cycle = h.key[4]
    BY <1>4 DEF RulingWrite
  <2>2. h.key = <<"ruling", r.property, r.question, r.cycle>>
    <3>1. h.key \in StepKeys /\ h.key[1] = "ruling"
      BY <1>4 DEF TypeOK, Hands, RulingWrite
    <3> QED
      BY <2>1, <3>1, KeyShapes
  <2>3. PICK g : g.key = h.key /\ g.pc = "landed" /\ g \in hand'
    BY <1>4, StepsMove DEF Lands, Moves
  <2> QED
    BY <2>2, <2>3 DEF AtRest
<1>5. rulings' = rulings \/ \E h \in hand : RulingWrite(h)
  BY DEF Next, Work, vars, files, Round, Store, Review, Gate, Freeze, Coverage, Verify, Judge, Report,
     CaseWrite, Mark,
     Revise, FreezeAgain, Fill, WriteFile, RulingRead, CaseRead, MarkDone, Refuse, Die
<1> QED
  BY <1>1, <1>3, <1>4, <1>5

\* A verification is over by Verify.
LEMMA VerifyRests ==
  ASSUME TypeOK, PcsFit, [Next]_vars, NEW c, AtRest(<<"verify", c>>)', ~AtRest(<<"verify", c>>)
  PROVE  \E h \in hand : Verify(h) /\ h.key = <<"verify", c>>
<1>1. PICK h \in hand : h.key = <<"verify", c>> /\ (Lands(h) \/ Mark(h) \/ (WriteFile(h) /\ h.key[1] = "write"))
  BY RestsBy
<1>2. h.key[1] = "verify" /\ h.pc # "mark"
  BY <1>1 DEF PcsFit
<1>3. Verify(h)
  <2>1. ~Mark(h)
    BY <1>2 DEF Mark, At
  <2>2. ~(Store(h) \/ Review(h) \/ Gate(h) \/ RulingWrite(h) \/ CaseWrite(h))
    BY <1>2 DEF Store, Review, Gate, RulingWrite, CaseWrite
  <2>3. ~(Freeze(h) \/ Coverage(h) \/ Judge(h) \/ Report(h))
    BY <1>2 DEF Freeze, Coverage, Judge, Report
  <2> QED
    BY <1>1, <1>2, <2>1, <2>2, <2>3 DEF Lands
<1> QED
  BY <1>1, <1>3

\* A cycle whose rulings ask for a fix.
Asks(c) == <<"verify", c>> \in done /\ Triaged(c) /\ Settled(c) /\ ToFix(c) # {}

\* The last results are of the files as they are, or a cycle that asks for a fix is under way.
Latest ==
  \A c : AtRest(<<"verify", c>>) =>
    results[Len(results)].current \/ \E b \in Nat : b >= c /\ Asks(b)

\* Every verification begun is of a numbered cycle.
LEMMA VerifiesAreNumbered ==
  ASSUME TypeOK, NEW c, Began(<<"verify", c>>)
  PROVE  c \in Numbers
<1>1. <<"verify", c>> \in StepKeys
  BY DEF Began, TypeOK, Hands
<1>2. <<"verify", c>>[1] = "verify" /\ <<"verify", c>>[2] = c
  OBVIOUS
<1> QED
  BY <1>1, <1>2, KeyShapes

\* Once a verification began every file was written, and a fix at work is of no earlier cycle.
LEMMA WhoWrites ==
  ASSUME TypeOK, HandsApart, CycleOrder, NEW c, Began(<<"verify", c>>), NEW h \in hand, WriteFile(h)
  PROVE  \E b \in Nat : /\ b >= c /\ Asks(b)
                        /\ \E f \in ToFix(b) : h.key = <<"fix", f, b>>
<1>1. h.key \in StepKeys /\ h.key \notin done
  BY DEF TypeOK, Hands, HandsApart
<1>2. c \in Numbers
  BY VerifiesAreNumbered
<1>3. Began(<<"verify", 1>>)
  <2>1. CASE c = 1
    BY <2>1
  <2>2. CASE c # 1
    <3>1. 1 \in 1..(c - 1)
      BY <1>2, <2>2 DEF Numbers
    <3>2. Over(1)
      BY <3>1 DEF CycleOrder
    <3> QED
      BY <3>2 DEF Over, Began
  <2> QED
    BY <2>1, <2>2
<1>4. h.key[1] # "write"
  <2>1. SUFFICES ASSUME h.key[1] = "write" PROVE FALSE
    OBVIOUS
  <2>2. h.key = <<"write", h.key[2]>> /\ h.key[2] \in BuildFiles
    BY <1>1, <2>1, KeyShapes
  <2> QED
    BY <1>1, <1>3, <2>2 DEF CycleOrder
<1>5. PICK f \in BuildFiles, b \in Numbers : h.key = <<"fix", f, b>>
  <2>1. h.key[1] = "fix"
    BY <1>4 DEF WriteFile
  <2> QED
    BY <1>1, <2>1, KeyShapes
<1>6. <<"verify", b>> \in done /\ Triaged(b) /\ Settled(b) /\ f \in ToFix(b)
  BY <1>5 DEF CycleOrder, Began
<1>7. b >= c
  <2>1. SUFFICES ASSUME b < c PROVE FALSE
    BY <1>2 DEF Numbers
  <2>2. b \in 1..(c - 1)
    BY <1>2, <2>1 DEF Numbers
  <2>3. Over(b)
    BY <2>2 DEF CycleOrder
  <2> QED
    BY <1>1, <1>5, <1>6, <2>3 DEF Over
<1> QED
  BY <1>5, <1>6, <1>7 DEF Asks, Numbers

\* Every step keeps the last results current, or a fix asked for.
LEMMA LatestStep ==
  ASSUME TypeOK, HandsApart, PcsFit, CycleOrder, Latest, [Next]_vars
  PROVE  Latest'
<1>1. ASSUME NEW b, Asks(b) PROVE Asks(b)'
  <2>1. b \in 1..Len(results)
    BY <1>1 DEF Asks, CycleOrder
  <2> QED
    BY <1>1, <2>1, SettledKept, BeganKept DEF Asks
<1>2. SUFFICES ASSUME NEW c, AtRest(<<"verify", c>>)'
               PROVE  results'[Len(results')].current \/ \E b \in Nat : b >= c /\ Asks(b)'
  BY DEF Latest
<1>3. CASE \E h \in hand : Verify(h)
  BY <1>3, VerifyAdds
<1>4. CASE ~\E h \in hand : Verify(h)
  <2>1. AtRest(<<"verify", c>>)
    BY <1>2, <1>4, VerifyRests
  <2>2. CASE \E h \in hand : WriteFile(h)
    <3>1. Began(<<"verify", c>>)
      BY <2>1 DEF AtRest, Began
    <3> QED
      BY <1>1, <2>2, <3>1, WhoWrites
  <2>3. CASE results' = results
    BY <1>1, <2>1, <2>3 DEF Latest
  <2> QED
    BY <1>4, <2>2, <2>3, ResultsQuiet
<1> QED
  BY <1>3, <1>4

------------------------------------------------------------------------------
(* The last cycle, and the report. *)

\* A cycle that asks for no fix is the last one.
LastCycle(c) == <<"verify", c>> \in done /\ (Triaged(c) => RulingsIn(c) /\ ToFix(c) = {})

\* No later cycle was begun, and every earlier one is over.
LEMMA LastIsLast ==
  ASSUME TypeOK, CycleOrder, NEW c, LastCycle(c), NEW b, Began(<<"verify", b>>)
  PROVE  c \in Numbers /\ b \in Numbers /\ b <= c /\ (b # c => Over(b))
<1>1. c \in Numbers /\ b \in Numbers
  BY VerifiesAreNumbered DEF LastCycle, Began
<1>2. b <= c
  <2>1. SUFFICES ASSUME c < b PROVE FALSE
    BY <1>1 DEF Numbers
  <2>2. c \in 1..(b - 1)
    BY <1>1, <2>1 DEF Numbers
  <2>3. Over(c)
    BY <2>2 DEF CycleOrder
  <2> QED
    BY <2>3 DEF Over, LastCycle
<1>3. b # c => Over(b)
  <2>1. SUFFICES ASSUME b # c PROVE Over(b)
    OBVIOUS
  <2>2. b \in 1..(c - 1)
    BY <1>1, <1>2, <2>1 DEF Numbers
  <2> QED
    BY <2>2 DEF CycleOrder, LastCycle, Began
<1> QED
  BY <1>1, <1>2, <1>3

\* The last results of a run past its last cycle are of the files as they are.
LEMMA LastIsCurrent ==
  ASSUME TypeOK, CycleOrder, Latest, NEW c, LastCycle(c)
  PROVE  results[Len(results)].current
<1>1. SUFFICES ASSUME NEW b \in Nat, b >= c, Asks(b) PROVE FALSE
  BY DEF Latest, LastCycle, AtRest
<1>2. Began(<<"verify", b>>)
  BY <1>1 DEF Asks, Began
<1>3. b = c
  BY <1>1, <1>2, LastIsLast DEF Numbers
<1> QED
  BY <1>1, <1>3 DEF Asks, LastCycle

\* Behind the last cycle nothing is written, fixed or verified.
LEMMA LastResultsStay ==
  ASSUME TypeOK, HandsApart, CycleOrder, [Next]_vars, NEW c, LastCycle(c)
  PROVE  results' = results
<1>1. ASSUME NEW h \in hand, Verify(h) PROVE FALSE
  <2>1. h.key \in StepKeys /\ h.key[1] = "verify" /\ h.key \notin done
    BY <1>1 DEF TypeOK, Hands, HandsApart, Verify
  <2>2. h.key = <<"verify", h.key[2]>>
    BY <2>1, KeyShapes
  <2>3. Began(<<"verify", h.key[2]>>)
    BY <2>2 DEF Began
  <2>4. h.key[2] = c \/ Over(h.key[2])
    BY <2>3, LastIsLast
  <2> QED
    BY <2>1, <2>2, <2>4 DEF Over, LastCycle
<1>2. ASSUME NEW h \in hand, WriteFile(h) PROVE FALSE
  <2>1. Began(<<"verify", c>>)
    BY DEF LastCycle, Began
  <2>2. PICK b \in Nat : b >= c /\ Asks(b)
    BY <1>2, <2>1, WhoWrites
  <2>3. Began(<<"verify", b>>)
    BY <2>2 DEF Asks, Began
  <2>4. b = c
    BY <2>2, <2>3, LastIsLast DEF Numbers
  <2> QED
    BY <2>2, <2>4 DEF Asks, LastCycle
<1> QED
  BY <1>1, <1>2, ResultsQuiet

\* A ruling that stands keeps what it says.
LEMMA StandingKept ==
  ASSUME TypeOK, HandsApart, RulingsStand, "ruling" \notin cut, [Next]_vars, NEW p, NEW q, NEW c,
         Ruling(p, q, c) # None
  PROVE  Ruling(p, q, c)' = Ruling(p, q, c)
<1>1. PICK r \in rulings : r.property = p /\ r.question = q /\ r.cycle = c
  BY RulingIsThere
<1>2. AtRest(<<"ruling", p, q, c>>)
  BY <1>1 DEF RulingsStand
<1> QED
  BY <1>2, RulingKept

\* The last cycle stays the last.
LEMMA LastCycleKept ==
  ASSUME TypeOK, HandsApart, CycleOrder, RulingsStand, "ruling" \notin cut, [Next]_vars, NEW c, LastCycle(c)
  PROVE  LastCycle(c)'
<1>1. c \in 1..Len(results)
  BY DEF LastCycle, CycleOrder
<1>2. Failing(c)' = Failing(c) /\ (Triaged(c)' <=> Triaged(c)) /\ <<"verify", c>> \in done'
  BY <1>1, SettledKept, BeganKept DEF LastCycle
<1>3. ASSUME Triaged(c) PROVE RulingsIn(c)' /\ ToFix(c)' = {}
  <2>1. RulingsIn(c) /\ ToFix(c) = {}
    BY <1>3 DEF LastCycle
  <2>2. \A p \in Failing(c) : /\ Ruling(p, 1, c) # None /\ Ruling(p, 1, c)' = Ruling(p, 1, c)
                              /\ Ruling(p, 1, c) = "test_stands" =>
                                   Ruling(p, 2, c) # None /\ Ruling(p, 2, c)' = Ruling(p, 2, c)
    BY <2>1, StandingKept DEF RulingsIn
  <2>3. RulingsIn(c)'
    BY <1>2, <2>2 DEF RulingsIn
  <2>4. ToFix(c)' = ToFix(c)
    BY <1>2, <2>2 DEF ToFix
  <2> QED
    BY <2>1, <2>3, <2>4
<1> QED
  BY <1>2, <1>3 DEF LastCycle

\* What the report and the person's verdict wait for.
LEMMA ReportWaits ==
  ASSUME TypeOK, NEW s \in Listed
  PROVE  /\ s.key = <<"report">> =>
              IF recipe = "debate" THEN s.after = {<<"gate", "verdict", 1>>}
              ELSE \E c \in Open : (Triaged(c) => RulingsIn(c) /\ ToFix(c) = {}) /\ s.after = {<<"verify", c>>}
         /\ s.key = <<"gate", "verdict", 1>> => s.after = {<<"judge">>}
<1>1. CASE recipe = "debate"
  <2>1. DebateKey(s)
    BY <1>1, ListedAre
  <2>2. s.key = <<"report">> => s.after = {<<"gate", "verdict", 1>>}
    BY <2>1 DEF DebateKey
  <2>3. s.key = <<"gate", "verdict", 1>> => s.after = {<<"judge">>}
    BY <2>1 DEF DebateKey
  <2> QED
    BY <1>1, <2>2, <2>3
<1>2. CASE recipe # "debate"
  <2>1. ASSUME DesignKey(s) PROVE s.key # <<"report">> /\ s.key # <<"gate", "verdict", 1>>
    <3>1. \A i \in 1..8 : \/ OpeningLine[i][1] \in {"store", "loop"}
                          \/ OpeningLine[i] = <<"gate", "ledger", 1>>
      BY DEF OpeningLine
    <3>2. ASSUME NEW i \in 1..8, s.key = OpeningLine[i] PROVE s.key # <<"report">> /\ s.key # <<"gate", "verdict", 1>>
      BY <3>1, <3>2
    <3> QED
      BY <2>1, <3>2 DEF DesignKey
  <2>2. ASSUME BuildKey(s)
        PROVE  /\ s.key # <<"gate", "verdict", 1>>
               /\ s.key = <<"report">> =>
                    \E c \in Open : (Triaged(c) => RulingsIn(c) /\ ToFix(c) = {}) /\ s.after = {<<"verify", c>>}
    <3>1. s.key[1] \in {"write", "verify", "ruling", "fix"} \/ \E c \in Open :
            /\ Triaged(c) => RulingsIn(c) /\ ToFix(c) = {}
            /\ s.key = <<"report">> /\ s.after = {<<"verify", c>>}
      BY <2>2 DEF BuildKey
    <3> QED
      BY <3>1
  <2> QED
    BY <1>2, <2>1, <2>2, ListedAre
<1> QED
  BY <1>1, <1>2

\* The report of the code builder: written behind the last cycle, from the last results.
ReportStands ==
  recipe = "code_builder" /\ "ruling" \notin cut =>
    /\ Began(<<"report">>) => \E c \in Numbers : LastCycle(c)
    /\ AtRest(<<"report">>) => report = Len(results)

\* Only Report leaves a report.
LEMMA ReportRests ==
  ASSUME TypeOK, PcsFit, [Next]_vars, AtRest(<<"report">>)', ~AtRest(<<"report">>)
  PROVE  \E h \in hand : Report(h)
<1>1. PICK h \in hand : h.key = <<"report">> /\ (Lands(h) \/ Mark(h) \/ (WriteFile(h) /\ h.key[1] = "write"))
  BY RestsBy
<1>2. h.key[1] = "report" /\ h.pc # "mark"
  BY <1>1 DEF PcsFit
<1>3. ~Mark(h)
  BY <1>2 DEF Mark, At
<1>4. ~(Store(h) \/ Review(h) \/ Gate(h) \/ Verify(h) \/ RulingWrite(h) \/ CaseWrite(h))
  BY <1>2 DEF Store, Review, Gate, Verify, RulingWrite, CaseWrite
<1>5. ~(Freeze(h) \/ Coverage(h) \/ Judge(h))
  BY <1>2 DEF Freeze, Coverage, Judge
<1> QED
  BY <1>1, <1>2, <1>3, <1>4, <1>5 DEF Lands

\* Only Report writes the report.
LEMMA ReportQuiet ==
  ASSUME [Next]_vars PROVE report' = report \/ \E h \in hand : Report(h)
  BY DEF Next, Work, vars, files, Round, Store, Review, Gate, Freeze, Coverage, Verify, Judge,
     RulingWrite, CaseWrite, Mark,
     Revise, FreezeAgain, Fill, WriteFile, RulingRead, CaseRead, MarkDone, Refuse, Die

\* A report that is written is not written again.
LEMMA ReportOnce ==
  ASSUME HandsApart, AtRest(<<"report">>), NEW h \in hand, Report(h) PROVE FALSE
  BY DEF HandsApart, AtRest, Report, At

\* A run keeps its recipe.
LEMMA RecipeKept ==
  ASSUME [Next]_vars PROVE recipe' = recipe
  BY DEF Next, Work, vars, driveVars, Round, Store, Review, Gate, Freeze, Coverage, Verify, Judge,
     Report, RulingWrite, CaseWrite, Mark,
     Revise, FreezeAgain, Fill, WriteFile, RulingRead, CaseRead, MarkDone, Refuse, Die

\* Every step keeps the report that of the last results.
LEMMA ReportStandsStep ==
  ASSUME TypeOK, HandsApart, PcsFit, CycleOrder, RulingsStand, ReportStands, [Next]_vars
  PROVE  ReportStands'
<1>1. SUFFICES ASSUME recipe = "code_builder", "ruling" \notin cut
               PROVE  /\ Began(<<"report">>)' => \E c \in Numbers : LastCycle(c)'
                      /\ AtRest(<<"report">>)' => report' = Len(results')
  BY CutGrows, RecipeKept DEF ReportStands
<1>2. /\ Began(<<"report">>) => \E c \in Numbers : LastCycle(c)
      /\ AtRest(<<"report">>) => report = Len(results)
  BY <1>1 DEF ReportStands
<1>3. ASSUME Began(<<"report">>)' PROVE \E c \in Numbers : LastCycle(c)
  <2>1. CASE Began(<<"report">>)
    BY <1>2, <2>1
  <2>2. CASE ~Began(<<"report">>)
    <3>1. <<"report">> \in Ready
      BY <1>3, <2>2, BeganKept, RoundTakesReady DEF Began
    <3>2. PICK s \in Listed : s.key = <<"report">> /\ s.after \subseteq done
      BY <3>1, ReadyAre
    <3>3. PICK c \in Open : (Triaged(c) => RulingsIn(c) /\ ToFix(c) = {}) /\ s.after = {<<"verify", c>>}
      BY <1>1, <3>2, ReportWaits
    <3> QED
      BY <3>2, <3>3, CyclesAreNumbers DEF LastCycle
  <2> QED
    BY <2>1, <2>2
<1>4. ASSUME AtRest(<<"report">>)' PROVE report' = Len(results')
  <2>1. CASE AtRest(<<"report">>)
    <3>1. report' = report
      BY <2>1, ReportQuiet, ReportOnce
    <3>2. PICK c \in Numbers : LastCycle(c)
      BY <1>2, <2>1 DEF AtRest, Began
    <3> QED
      BY <1>2, <2>1, <3>1, <3>2, LastResultsStay
  <2>2. CASE ~AtRest(<<"report">>)
    <3>1. PICK h \in hand : Report(h)
      BY <1>4, <2>2, ReportRests
    <3> QED
      BY <1>1, <3>1 DEF Report
  <2> QED
    BY <2>1, <2>2
<1> QED
  BY <1>1, <1>3, <1>4, LastCycleKept

\* The report of the debate: what the judge ruled, or the person where the judge could not.
VerdictStands ==
  recipe = "debate" =>
    /\ Began(<<"gate", "verdict", 1>>) \/ Answer(<<"verdict", 1>>) # None => <<"judge">> \in done
    /\ Began(<<"report">>) => <<"gate", "verdict", 1>> \in done
    /\ Answer(<<"verdict", 1>>) # None => (Answer(<<"verdict", 1>>) = "proceed" <=> verdict # "undecided")
    /\ AtRest(<<"report">>) => report = IF verdict = "undecided" THEN Answer(<<"verdict", 1>>) ELSE verdict

\* Every step keeps the debate's report that of the judge, or of the person.
LEMMA VerdictStandsStep ==
  ASSUME TypeOK, HandsApart, PcsFit, AnswersAreSingle, RestLeft, VerdictStands, [Next]_vars
  PROVE  VerdictStands'
<1> DEFINE g == <<"verdict", 1>>
           gate == <<"gate", "verdict", 1>>
<1>1. SUFFICES ASSUME recipe = "debate"
               PROVE  /\ Began(gate)' \/ Answer(g)' # None => <<"judge">> \in done'
                      /\ Began(<<"report">>)' => gate \in done'
                      /\ Answer(g)' # None => (Answer(g)' = "proceed" <=> verdict' # "undecided")
                      /\ AtRest(<<"report">>)' => report' = IF verdict' = "undecided" THEN Answer(g)' ELSE verdict'
  BY RecipeKept DEF VerdictStands
<1>2. /\ Began(gate) \/ Answer(g) # None => <<"judge">> \in done
      /\ Began(<<"report">>) => gate \in done
      /\ Answer(g) # None => (Answer(g) = "proceed" <=> verdict # "undecided")
      /\ AtRest(<<"report">>) => report = IF verdict = "undecided" THEN Answer(g) ELSE verdict
  BY <1>1 DEF VerdictStands
<1>3. gate \in done => Answer(g) # None
  <2>1. gate \in StepKeys /\ gate[1] = "gate" /\ gate[2] = "verdict" /\ gate[3] = 1
    BY DEF StepKeys, Gates, Numbers
  <2> QED
    BY <2>1 DEF RestLeft, AtRest, Left, Exists
<1>4. done \subseteq done'
  BY BeganKept
<1>5. Began(gate)' => <<"judge">> \in done
  <2>1. gate \in Ready => <<"judge">> \in done
    BY ReadyAre, ReportWaits
  <2> QED
    BY <1>2, <2>1, BeganKept, RoundTakesReady DEF Began
<1>6. Began(<<"report">>)' => gate \in done
  <2>1. <<"report">> \in Ready => gate \in done
    BY <1>1, ReadyAre, ReportWaits
  <2> QED
    BY <1>2, <2>1, BeganKept, RoundTakesReady DEF Began
<1>7. Answer(g)' # Answer(g) => <<"judge">> \in done /\ Answer(g) = None /\ Answer(g)' \in GateAnswers(g)
  <2>1. SUFFICES ASSUME Answer(g)' # Answer(g) PROVE <<"judge">> \in done /\ Answer(g) = None /\ Answer(g)' \in GateAnswers(g)
    OBVIOUS
  <2>2. PICK h \in hand : Gate(h)
    BY <2>1, DecisionStep, AnswerIsGiven
  <2>3. Answer(g) = None
    BY <2>1, DecisionStep
  <2> DEFINE x == <<h.key[2], h.key[3]>>
  <2>4. /\ \A y : y # x => Answer(y)' = Answer(y)
        /\ Answer(x) = None => Answer(x)' \in GateAnswers(x)
    BY <2>2, GateStep
  <2>5. g = x
    BY <2>1, <2>4
  <2>6. h.key = gate
    <3>1. h.key \in StepKeys /\ h.key[1] = "gate"
      BY <2>2 DEF TypeOK, Hands, Gate
    <3>2. h.key = <<"gate", h.key[2], h.key[3]>>
      BY <3>1, KeyShapes
    <3> QED
      BY <2>5, <3>2
  <2> QED
    BY <1>2, <2>3, <2>4, <2>5, <2>6 DEF Began
<1>8. CASE \E h \in hand : Judge(h)
  <2>1. <<"judge">> \notin done
    BY <1>8 DEF Judge, HandsApart
  <2>2. Answer(g)' = None
    BY <1>2, <1>7, <2>1
  <2>3. ~Began(<<"report">>)'
    BY <1>2, <1>6, <2>1 DEF Began
  <2>4. ~AtRest(<<"report">>)'
    BY <2>3 DEF AtRest, Began
  <2> QED
    BY <1>4, <1>5, <1>6, <2>1, <2>2, <2>3, <2>4
<1>9. CASE verdict' = verdict
  <2>1. Answer(g)' # None => <<"judge">> \in done /\ (Answer(g)' = "proceed" <=> verdict # "undecided")
    <3>1. CASE Answer(g)' = Answer(g)
      BY <1>2, <3>1
    <3>2. CASE Answer(g)' # Answer(g)
      BY <1>7, <3>2 DEF GateAnswers
    <3> QED
      BY <3>1, <3>2
  <2>2. ASSUME AtRest(<<"report">>)' PROVE report' = IF verdict = "undecided" THEN Answer(g)' ELSE verdict
    <3>1. gate \in done
      BY <1>6, <2>2 DEF AtRest, Began
    <3>2. Answer(g) # None /\ Answer(g)' = Answer(g)
      BY <1>3, <1>7, <3>1
    <3>3. CASE AtRest(<<"report">>)
      <4>1. report' = report
        BY <3>3, ReportQuiet, ReportOnce
      <4> QED
        BY <1>2, <3>2, <3>3, <4>1
    <3>4. CASE ~AtRest(<<"report">>)
      <4>1. PICK h \in hand : Report(h)
        BY <2>2, <3>4, ReportRests
      <4>2. report' = IF Answer(g) = "proceed" THEN verdict ELSE Answer(g)
        BY <1>1, <4>1 DEF Report
      <4> QED
        BY <1>2, <3>2, <4>2
    <3> QED
      BY <3>3, <3>4
  <2> QED
    BY <1>4, <1>5, <1>6, <1>9, <2>1, <2>2
<1>10. verdict' = verdict \/ \E h \in hand : Judge(h)
  BY DEF Next, Work, vars, files, Round, Store, Review, Gate, Freeze, Coverage, Verify, CaseWrite,
     Report, Mark,
     Revise, FreezeAgain, Fill, WriteFile, RulingWrite, RulingRead, CaseRead, MarkDone, Refuse, Die
<1> QED
  BY <1>8, <1>9, <1>10

------------------------------------------------------------------------------
(* A run that is complete has made its report. *)

\* In a run that is complete every step listed is done, and its file is there.
LEMMA CompleteLeft ==
  ASSUME TypeOK, RestLeft, Complete, NEW s \in Listed
  PROVE  s.key \in done /\ s.key \in StepKeys /\ (s.key[1] # "report" => Left(s.key))
<1>1. s.key \in {x.key : x \in Listed}
  OBVIOUS
<1>2. s.key \in done
  BY <1>1 DEF Complete
<1>3. s.key \in StepKeys
  BY <1>2 DEF TypeOK
<1> QED
  BY <1>2, <1>3 DEF RestLeft, AtRest

\* The design line is a sequence of keys.
LEMMA DesignIsALine == DesignLine \in Seq(StepKeys)
  BY OpeningIsALine, BlocksIsALine, FreezeIsALine, VSpecIsALine DEF DesignLine

\* A code builder that is complete has walked its design line.
LEMMA DesignIsWalked ==
  ASSUME TypeOK, RestLeft, Complete, recipe = "code_builder"
  PROVE  Through(DesignLine)
<1>1. ASSUME NEW s \in LineSteps(DesignLine) PROVE Exists(s.key)
  <2>1. s \in Listed
    BY DEF Listed, CodeBuilderSteps
  <2>2. s.key[1] \notin {"report", "ruling"}
    <3>1. \A i \in 1..8 : OpeningLine[i][1] \in {"store", "loop", "gate"}
      BY DEF OpeningLine
    <3>2. DesignKey(s)
      BY DesignSteps
    <3> QED
      BY <3>1, <3>2 DEF DesignKey
  <2> QED
    BY <2>1, <2>2, CompleteLeft DEF Left
<1> QED
  BY <1>1, DesignIsALine, LineIsWalked

\* The last of the cycles walked through asks for no fix, and lists the report.
LEMMA BuildIsReported ==
  ASSUME TypeOK, RestLeft, Complete, recipe = "code_builder"
  PROVE  <<"report">> \in done
<1>1. BuildSteps \union TriageSteps \union ReportStep \subseteq Listed
  BY DesignIsWalked DEF Listed, CodeBuilderSteps, If
<1>2. Built
  <2>1. ASSUME NEW f \in BuildFiles PROVE f \in written
    <3> DEFINE s == [key |-> <<"write", f>>, after |-> {<<"store", "tasks">>}]
    <3>1. s \in Listed /\ s.key = <<"write", f>>
      BY <1>1 DEF BuildSteps
    <3> HIDE DEF s
    <3>2. Left(<<"write", f>>)
      BY <3>1, CompleteLeft
    <3> QED
      BY <3>2 DEF Left, Exists
  <2> QED
    BY <2>1 DEF Built, TypeOK
<1>3. 1 \in Cycles
  BY <1>2, RecipeAssumption DEF Cycles, Reached
<1> DEFINE c == Max(Cycles)
<1>4. c \in Cycles /\ \A b \in Cycles : b <= c
  <2>1. Cycles \in SUBSET Nat /\ FixRounds + 1 \in Nat /\ \A b \in Cycles : b <= FixRounds + 1
    BY RecipeAssumption DEF Cycles
  <2> QED
    BY <1>3, <2>1, MaxOfBounded
<1> HIDE DEF c
<1>5. c \in 1..(FixRounds + 1) /\ Reached(c) /\ Len(results) \in Nat
  BY <1>4 DEF Cycles, TypeOK
<1>6. Len(results) >= c /\ c \in Open
  <2>1. VerifyStep(c) \in Listed /\ VerifyStep(c).key = <<"verify", c>>
    BY <1>1, <1>4 DEF TriageSteps, VerifyStep
  <2>2. Left(<<"verify", c>>)
    BY <2>1, CompleteLeft
  <2>3. Len(results) >= c
    BY <2>2 DEF Left, Exists
  <2> QED
    BY <1>4, <2>3 DEF Open
<1>7. CASE Triaged(c) => RulingsIn(c) /\ ToFix(c) = {}
  <2> DEFINE s == [key |-> <<"report">>, after |-> {<<"verify", c>>}]
  <2>1. s \in Listed /\ s.key = <<"report">>
    BY <1>1, <1>6, <1>7 DEF ReportStep
  <2> HIDE DEF s
  <2> QED
    BY <2>1, CompleteLeft
<1>8. CASE Triaged(c) /\ ~(RulingsIn(c) /\ ToFix(c) = {})
  <2>1. RulingSteps(c) \union If(RulingsIn(c), FixSteps(c)) \subseteq Listed
    BY <1>1, <1>6, <1>8 DEF TriageSteps
  <2>2. ASSUME NEW p \in Failing(c), NEW q \in {1, 2}, q = 2 => Ruling(p, 1, c) = "test_stands"
        PROVE  Ruling(p, q, c) # None
    <3> DEFINE first == [key |-> <<"ruling", p, 1, c>>, after |-> {<<"verify", c>>}]
               second == [key |-> <<"ruling", p, 2, c>>, after |-> {<<"ruling", p, 1, c>>}]
    <3>a. first \in RulingSteps(c) /\ first.key = <<"ruling", p, 1, c>>
      BY DEF RulingSteps
    <3>b. q = 2 => second \in RulingSteps(c) /\ second.key = <<"ruling", p, 2, c>>
      BY <2>2 DEF RulingSteps
    <3> HIDE DEF first, second
    <3>1. PICK s \in RulingSteps(c) : s.key = <<"ruling", p, q, c>>
      BY <3>a, <3>b
    <3>2. Left(<<"ruling", p, q, c>>)
      BY <2>1, <3>1, CompleteLeft
    <3> QED
      BY <3>2 DEF Left
  <2>3. RulingsIn(c)
    BY <2>2 DEF RulingsIn
  <2>4. ASSUME NEW f \in ToFix(c) PROVE <<"fix", f, c>> \in marks
    <3> DEFINE s == [key |-> <<"fix", f, c>>, after |-> {LastRuling(p, c) : p \in Failing(c)}]
    <3>1. s \in Listed /\ s.key = <<"fix", f, c>>
      BY <2>1, <2>3 DEF FixSteps, If
    <3> HIDE DEF s
    <3>2. Left(<<"fix", f, c>>)
      BY <3>1, CompleteLeft
    <3> QED
      BY <3>2 DEF Left, Exists
  <2>5. Fixed(c)
    BY <1>8, <2>3, <2>4 DEF Fixed
  <2>6. c + 1 \in Cycles
    <3>1. c + 1 \in 1..(FixRounds + 1)
      BY <1>5, <1>8, RecipeAssumption DEF Triaged
    <3> DEFINE d == c + 1
    <3>2. ASSUME NEW b \in 1..(d - 1)
          PROVE  Len(results) >= b /\ Triaged(b) /\ RulingsIn(b) /\ Fixed(b)
      <4>1. CASE b = c
        BY <1>6, <1>8, <2>3, <2>5, <4>1
      <4>2. CASE b # c
        <5>1. b \in 1..(c - 1)
          BY <1>5, <4>2
        <5> QED
          BY <1>5, <5>1 DEF Reached
      <4> QED
        BY <4>1, <4>2
    <3> HIDE DEF d
    <3>3. Reached(d)
      BY <3>2 DEF Reached
    <3> QED
      BY <1>2, <3>1, <3>3 DEF Cycles, d
  <2> QED
    BY <1>4, <1>5, <2>6
<1> QED
  BY <1>7, <1>8

\* The line of the debate, to its end.
LEMMA DebateIsReported ==
  ASSUME TypeOK, RestLeft, Complete, recipe = "debate"
  PROVE  <<"report">> \in done
<1>1. Listed = DebateSteps
  BY DEF Listed
<1>2. Through(HypothesesLine)
  <2>1. HypothesesLine \in Seq(StepKeys)
    BY DEF HypothesesLine, StepKeys, Artifacts, Loops, Gates, Numbers
  <2>2. ASSUME NEW s \in LineSteps(HypothesesLine) PROVE Exists(s.key)
    <3>1. s \in Listed
      BY <1>1 DEF DebateSteps
    <3>2. s.key[1] \notin {"report", "ruling"}
      <4>1. \A i \in DOMAIN HypothesesLine : HypothesesLine[i][1] \in {"store", "loop", "gate"}
        BY DEF HypothesesLine
      <4> QED
        BY <4>1 DEF LineSteps
    <3> QED
      BY <3>1, <3>2, CompleteLeft DEF Left
  <2> QED
    BY <2>1, <2>2, LineIsWalked
<1>3. \A z \in Sides : case[z] > 0
  <2>1. TAKE z \in Sides
  <2> DEFINE s == [key |-> <<"case", z>>, after |-> {<<"gate", "rubric", 1>>}]
  <2>2. s \in Listed /\ s.key = <<"case", z>>
    BY <1>1, <1>2 DEF DebateSteps, CaseSteps, If
  <2> HIDE DEF s
  <2>3. Left(<<"case", z>>)
    BY <2>2, CompleteLeft
  <2> QED
    BY <2>3 DEF Left, Exists
<1>4. version["rebuttal"]
  <2>1. RebuttalStep \in Listed /\ RebuttalStep.key = <<"store", "rebuttal">>
    BY <1>1, <1>2, <1>3 DEF DebateSteps, RebuttalStep, If
  <2>2. Left(<<"store", "rebuttal">>)
    BY <2>1, CompleteLeft
  <2> QED
    BY <2>2 DEF Left, Exists
<1>5. JudgmentSteps \subseteq Listed
  BY <1>1, <1>2, <1>3, <1>4 DEF DebateSteps, If
<1>6. ASSUME NEW i \in 1..3, \A h \in 1..(i - 1) : Exists(JudgmentLine[h])
      PROVE  JudgmentLine[i] \in done /\ (i # 3 => Exists(JudgmentLine[i]))
  <2>1. DOMAIN JudgmentLine = 1..3
    BY DEF JudgmentLine
  <2>2. PICK s \in LineSteps(JudgmentLine) : s = [key |-> JudgmentLine[i], after |-> IF i = 1 THEN {} ELSE {JudgmentLine[i - 1]}]
    BY <1>6, <2>1 DEF LineSteps
  <2> DEFINE t == [s EXCEPT !.after = IF s.key = <<"judge">> THEN {<<"store", "rebuttal">>} ELSE @]
  <2>3. t \in JudgmentSteps /\ t.key = JudgmentLine[i]
    BY <2>2 DEF JudgmentSteps
  <2> HIDE DEF t
  <2>4. JudgmentLine[i] \in done /\ (JudgmentLine[i][1] # "report" => Left(JudgmentLine[i]))
    BY <1>5, <2>3, CompleteLeft
  <2>5. i # 3 => JudgmentLine[i][1] \in {"judge", "gate"}
    BY DEF JudgmentLine
  <2> QED
    BY <2>4, <2>5 DEF Left
<1>7. Exists(JudgmentLine[1])
  BY <1>6
<1>8. Exists(JudgmentLine[2])
  BY <1>6, <1>7
<1>9. JudgmentLine[3] \in done
  BY <1>6, <1>7, <1>8
<1> QED
  BY <1>9 DEF JudgmentLine

------------------------------------------------------------------------------
(* The end of a run. *)

\* What was left, what stands, and what the report was written from.
EndInv ==
  RunInv /\ SeenCounts /\ RestLeft /\ RulingsStand /\ Latest /\ ReportStands /\ VerdictStands

\* EndInv holds at the start of a run.
LEMMA EndInvInit == Init => EndInv
<1> SUFFICES ASSUME Init PROVE EndInv
  OBVIOUS
<1>1. hand = {} /\ done = {} /\ rulings = {} /\ decision = {} /\ (\A k : ~AtRest(k)) /\ (\A k : ~Began(k))
  BY DEF Init, FilesInit, AtRest, Began
<1>2. \A g : Answer(g) = None
  BY <1>1 DEF Answer
<1> QED
  BY <1>1, <1>2, RunInvInit DEF EndInv, SeenCounts, RestLeft, RulingsStand, Latest, ReportStands,
     VerdictStands

\* Every step keeps EndInv.
LEMMA EndInvStep ==
  ASSUME EndInv, [Next]_vars PROVE EndInv'
<1> USE DEF EndInv, RunInv
<1>1. RunInv'
  BY RunInvStep
<1>2. SeenCounts' /\ RestLeft'
  BY <1>1, SeenStep, RestStep
<1>3. RulingsStand' /\ Latest'
  BY StandStep, LatestStep
<1>4. ReportStands' /\ VerdictStands'
  BY ReportStandsStep, VerdictStandsStep
<1> QED
  BY <1>1, <1>2, <1>3, <1>4

\* The report of a run that is complete speaks of the files that were delivered, unless a death
\* met a ruling after its file was written (ReportIsFinal).
THEOREM ReportIsOfTheDelivered == Spec => []ReportIsFinal
<1>1. ASSUME EndInv PROVE ReportIsFinal
  <2> USE <1>1 DEF EndInv, RunInv
  <2>1. SUFFICES ASSUME "ruling" \notin cut, Complete
                 PROVE  IF recipe = "code_builder" THEN report = Len(results) /\ results[report].current
                        ELSE report = IF verdict = "undecided" THEN Answer(<<"verdict", 1>>) ELSE verdict
    BY DEF ReportIsFinal, ReportIsOfTheEnd
  <2>2. <<"report">> \in done
    BY <2>1, BuildIsReported, DebateIsReported DEF TypeOK
  <2>3. Began(<<"report">>) /\ AtRest(<<"report">>)
    BY <2>2 DEF Began, AtRest
  <2>4. CASE recipe = "code_builder"
    <3>1. report = Len(results) /\ \E c \in Numbers : LastCycle(c)
      BY <2>1, <2>3, <2>4 DEF ReportStands
    <3>2. results[Len(results)].current
      BY <3>1, LastIsCurrent
    <3> QED
      BY <2>4, <3>1, <3>2
  <2>5. CASE recipe = "debate"
    BY <2>3, <2>5 DEF VerdictStands
  <2> QED
    BY <2>4, <2>5 DEF TypeOK
<1>2. Spec => []EndInv
  BY EndInvInit, EndInvStep, PTL DEF Spec
<1> QED
  BY <1>1, <1>2, PTL

------------------------------------------------------------------------------
(* Documents and their ids; clauses and their verdicts. *)

\* A number above those taken makes an id that is not taken (ids.py `next_id`).
LEMMA NewIdIsFree ==
  ASSUME NEW new, NEW taken, NEW h \in Numberings(new, taken), NEW e \in new
  PROVE  h[e] \notin taken
<1>1. h[e] \in AllIds /\ h[e][1] = Prefix(e) /\ Above(h[e][2], Prefix(e), taken)
  BY DEF Numberings
<1>2. h[e][2] \in Int
  BY <1>1 DEF AllIds
<1> QED
  BY <1>1, <1>2 DEF Above

\* The ids of a version are distinct if those of the one before were (contract.py `with_ids`).
LEMMA VersionTellsKeysApart ==
  ASSUME NEW d, NEW doc, OneKeyEach(doc.ids),
         NEW h \in Numberings(NewIn(d, doc), Taken(doc)), NEW ids \in KeyToId(d, doc, h)
  PROVE  OneKeyEach(ids)
<1> DEFINE K == KeysOf(d.entries)
<1>1. DOMAIN ids = K
  BY DEF KeyToId
<1>2. DOMAIN h = NewIn(d, doc)
  BY DEF Numberings
<1>3. \A k \in K : k \in DOMAIN doc.ids => ids[k] = doc.ids[k] /\ ids[k] \in Taken(doc)
  BY DEF KeyToId, Taken, GivenBy
<1>4. \A k \in K : k \notin DOMAIN doc.ids =>
        \E e \in NewIn(d, doc) : e.key = k /\ ids[k] = h[e] /\ ids[k] \notin Taken(doc)
  BY <1>2, NewIdIsFree DEF KeyToId
<1>5. SUFFICES ASSUME NEW k \in K, NEW l \in K, ids[k] = ids[l]
               PROVE  k = l
  BY <1>1 DEF OneKeyEach
<1>6. CASE k \in DOMAIN doc.ids /\ l \in DOMAIN doc.ids
  BY <1>3, <1>5, <1>6 DEF OneKeyEach
<1>7. CASE k \notin DOMAIN doc.ids /\ l \notin DOMAIN doc.ids
  BY <1>4, <1>5, <1>7 DEF Numberings
<1>8. CASE (k \in DOMAIN doc.ids) # (l \in DOMAIN doc.ids)
  BY <1>3, <1>4, <1>5, <1>8
<1> QED
  BY <1>6, <1>7, <1>8

\* No document, no ids.
LEMMA NothingYet == DocumentsInit => IdsTellKeysApart
  BY DEF DocumentsInit, NoDocument, NoEntries, IdsTellKeysApart, OneKeyEach

\* Every version written tells its keys apart.
LEMMA EveryVersionTellsKeysApart ==
  IdsTellKeysApart /\ [DocumentsNext]_documents => IdsTellKeysApart'
<1> SUFFICES ASSUME IdsTellKeysApart, [DocumentsNext]_documents
             PROVE  IdsTellKeysApart'
  OBVIOUS
<1> USE DEF IdsTellKeysApart
<1>1. ASSUME NEW d, StorePlan(d)
      PROVE  IdsTellKeysApart'
  <2>1. PICK h \in Numberings(NewIn(d, plan), Taken(plan)) :
          \E ids \in KeyToId(d, plan, h) :
            plan' = Version(d, plan, ids, FALSE) /\ UNCHANGED contract
    BY <1>1 DEF StorePlan
  <2>2. PICK ids \in KeyToId(d, plan, h) : plan' = Version(d, plan, ids, FALSE) /\ UNCHANGED contract
    BY <2>1
  <2>3. OneKeyEach(ids)
    BY VersionTellsKeysApart
  <2> QED
    BY <2>2, <2>3 DEF Version
<1>2. ASSUME NEW d, StoreContract(d)
      PROVE  IdsTellKeysApart'
  <2>1. PICK h \in Numberings(NewIn(d, contract), Taken(contract)) :
          \E ids \in KeyToId(d, contract, h) :
            contract' = Version(d, contract, ids, TRUE) /\ UNCHANGED plan
    BY <1>2 DEF StoreContract
  <2>2. PICK ids \in KeyToId(d, contract, h) : contract' = Version(d, contract, ids, TRUE) /\ UNCHANGED plan
    BY <2>1
  <2>3. OneKeyEach(ids)
    BY VersionTellsKeysApart
  <2> QED
    BY <2>2, <2>3 DEF Version
<1>3. CASE WritePlan
  BY <1>1, <1>3 DEF WritePlan
<1>4. CASE RevisePlan
  BY <1>1, <1>4 DEF RevisePlan
<1>5. CASE WriteContract
  BY <1>2, <1>5 DEF WriteContract
<1>6. CASE ReviseContract
  BY <1>2, <1>6 DEF ReviseContract
<1>7. CASE FillTolerances
  BY <1>2, <1>7 DEF FillTolerances
<1>8. CASE UNCHANGED documents
  BY <1>8 DEF documents
<1> QED
  BY <1>3, <1>4, <1>5, <1>6, <1>7, <1>8 DEF DocumentsNext

\* In every stored version of the plan and of the contract two keys never share an id, though
\* nothing checks what a revision brings (plan.py, contract.py `with_ids`; review/rounds.py:389).
THEOREM KeysAreToldApart == DocumentsSpec => []IdsTellKeysApart
  BY NothingYet, EveryVersionTellsKeysApart, PTL DEF DocumentsSpec

------------------------------------------------------------------------------
(* An id of the contract given to two things was shadowed.  What carries it: every id ever given   *)
(* that was not shadowed is at most one that is taken, still given or retired, and one still given *)
(* is given to the same key.                                                                       *)

\* No number above the ids that are taken is that of an id given before.
Covered(i) == \E t \in Taken(contract) : t[1] = i[1] /\ i[2] <= t[2]

NamesAreTaken ==
  \A n \in named.contract :
    /\ n[1] \in AllIds
    /\ n[1] \in shadowed \/ Covered(n[1])
    /\ \A k \in DOMAIN contract.ids : contract.ids[k] = n[1] => k = n[2] \/ n[1] \in shadowed

NamesInv ==
  /\ OnlyTheShadowedAreReused /\ NamesAreTaken /\ OneKeyEach(contract.ids)
  /\ Taken(contract) \subseteq AllIds
  /\ named = [plan |-> named.plan, contract |-> named.contract]

\* An id above all that are taken was not given before, unless it was shadowed.
LEMMA NewIdIsNew ==
  ASSUME NamesInv,
         NEW new, NEW h \in Numberings(new, Taken(contract)), NEW e \in new,
         NEW n \in named.contract, n[1] = h[e]
  PROVE  n[1] \in shadowed
<1>1. h[e] \in AllIds /\ Above(h[e][2], h[e][1], Taken(contract))
  BY DEF Numberings
<1>2. SUFFICES ASSUME Covered(n[1]) PROVE FALSE
  BY DEF NamesInv, NamesAreTaken
<1>3. PICK t \in Taken(contract) : t[1] = h[e][1] /\ h[e][2] <= t[2]
  BY <1>2 DEF Covered
<1>4. t[2] < h[e][2]
  BY <1>1, <1>3 DEF Above
<1>5. t[2] \in Int /\ h[e][2] \in Int
  BY <1>1, <1>3 DEF NamesInv, AllIds
<1> QED
  BY <1>3, <1>4, <1>5

\* A name a version gives is that of its key, or of a new entry that `key_to_id` passes over.
LEMMA NamesOfAVersion ==
  ASSUME NEW d, NEW doc, NEW h \in Numberings(NewIn(d, doc), Taken(doc)), NEW ids \in KeyToId(d, doc, h),
         NEW n \in NamesGiven(d, doc, h)
  PROVE  /\ n[2] \in DOMAIN ids
         /\ \/ n[1] = ids[n[2]]
            \/ \E e \in NewIn(d, doc) :
                 /\ n[1] = h[e] /\ n[2] = e.key
                 /\ n[1] \in Shadowed(ids, h) \/ (n[1][1] = ids[n[2]][1] /\ n[1][2] <= ids[n[2]][2])
<1>1. PICK e \in d.entries : n = <<IF e.key \in DOMAIN doc.ids THEN doc.ids[e.key] ELSE h[e], e.key>>
  BY DEF NamesGiven
<1>2. DOMAIN ids = KeysOf(d.entries) /\ DOMAIN h = NewIn(d, doc) /\ n[2] = e.key
  BY <1>1 DEF KeyToId, Numberings
<1>3. e.key \in DOMAIN ids
  BY <1>2 DEF KeysOf
<1>4. CASE e.key \in DOMAIN doc.ids
  BY <1>1, <1>2, <1>3, <1>4 DEF KeyToId
<1>5. CASE e.key \notin DOMAIN doc.ids
  <2>1. e \in NewIn(d, doc) /\ n[1] = h[e]
    BY <1>1, <1>5 DEF NewIn
  <2>2. PICK o \in NewIn(d, doc) : ids[e.key] = h[o] /\ (e = o \/ Later(h[o], h[e]))
    BY <1>2, <1>3, <1>5, <2>1 DEF KeyToId
  <2>3. h[e][1] # ids[e.key][1] => n[1] \in Shadowed(ids, h)
    BY <1>2, <2>1 DEF Shadowed
  <2>4. h[e][1] = ids[e.key][1] => h[e][2] <= ids[e.key][2]
    <3>1. h[e] \in AllIds /\ h[o] \in AllIds
      BY <2>1, <2>2 DEF Numberings
    <3>2. h[e][2] \in Int /\ h[o][2] \in Int
      BY <3>1 DEF AllIds
    <3>3. h[e][1] = h[o][1] => e = o \/ h[e][2] < h[o][2]
      BY <2>2 DEF Later
    <3> QED
      BY <2>2, <3>2, <3>3
  <2> QED
    BY <1>2, <1>3, <2>1, <2>3, <2>4
<1> QED
  BY <1>4, <1>5

\* NamesInv holds throughout.
LEMMA NamesInvHolds ==
  NamesInv /\ [DocumentsNext]_documents => NamesInv'
<1> SUFFICES ASSUME NamesInv, [DocumentsNext]_documents
             PROVE  NamesInv'
  OBVIOUS
<1>1. ASSUME NEW d, StorePlan(d)
      PROVE  NamesInv'
  <2>1. /\ UNCHANGED <<contract, shadowed>>
        /\ named'.contract = named.contract
        /\ named' = [plan |-> named'.plan, contract |-> named'.contract]
    BY <1>1 DEF StorePlan, NamesInv
  <2> QED
    BY <2>1 DEF NamesInv, OnlyTheShadowedAreReused, NamesAreTaken, Covered, Taken, GivenBy, OneKeyEach
<1>2. ASSUME NEW d, StoreContract(d)
      PROVE  NamesInv'
  <2> DEFINE ids == contract.ids
             N   == named.contract
  <2>0. PICK h \in Numberings(NewIn(d, contract), Taken(contract)) :
          \E m \in KeyToId(d, contract, h) :
            /\ contract' = Version(d, contract, m, TRUE)
            /\ named' = [named EXCEPT !.contract = @ \union NamesGiven(d, contract, h)]
            /\ shadowed' = shadowed \union Shadowed(m, h)
    BY <1>2 DEF StoreContract
  <2>1. PICK m \in KeyToId(d, contract, h) :
          /\ contract' = Version(d, contract, m, TRUE)
          /\ named' = [named EXCEPT !.contract = @ \union NamesGiven(d, contract, h)]
          /\ shadowed' = shadowed \union Shadowed(m, h)
    BY <2>0
  <2>2. /\ contract'.ids = m
        /\ Taken(contract)' = GivenBy(m) \union (Taken(contract) \ GivenBy(m))
        /\ named'.contract = N \union NamesGiven(d, contract, h)
        /\ named' = [plan |-> named'.plan, contract |-> named'.contract]
    BY <2>1 DEF Version, Taken, NamesInv
  <2>3. OneKeyEach(m)
    BY VersionTellsKeysApart DEF NamesInv
  <2>4. DOMAIN m = KeysOf(d.entries) /\ DOMAIN h = NewIn(d, contract)
    BY DEF KeyToId, Numberings
  <2>5. \A e \in NewIn(d, contract) : h[e] \in AllIds /\ e.key \notin DOMAIN ids
    BY DEF Numberings, NewIn
  <2>6. \A k \in DOMAIN m : \/ k \in DOMAIN ids /\ m[k] = ids[k]
                            \/ k \notin DOMAIN ids /\ \E e \in NewIn(d, contract) : e.key = k /\ m[k] = h[e]
    BY <2>4 DEF KeyToId
  <2>7. Taken(contract)' \subseteq AllIds
    BY <2>2, <2>5, <2>6 DEF NamesInv, Taken, GivenBy
  <2>8. \A k \in DOMAIN m : m[k] \in Taken(contract)' /\ m[k] \in AllIds
    BY <2>2, <2>7 DEF GivenBy
  <2>9. ASSUME NEW n \in N, NEW k \in DOMAIN m, m[k] = n[1]
        PROVE  k = n[2] \/ n[1] \in shadowed
    <3>1. CASE k \in DOMAIN ids
      BY <2>6, <2>9, <3>1 DEF NamesInv, NamesAreTaken
    <3>2. CASE k \notin DOMAIN ids
      BY <2>6, <2>9, <3>2, NewIdIsNew
    <3> QED
      BY <3>1, <3>2
  <2>10. ASSUME NEW e \in NewIn(d, contract), NEW k \in DOMAIN m, m[k] = h[e]
         PROVE  k = e.key
    <3>1. h[e] \notin Taken(contract)
      BY NewIdIsFree
    <3>2. k \notin DOMAIN ids
      BY <2>6, <2>10, <3>1 DEF Taken, GivenBy
    <3> QED
      BY <2>6, <2>10, <3>2 DEF Numberings
  <2>11. NamesAreTaken'
    <3>1. SUFFICES ASSUME NEW n \in named'.contract
                   PROVE  /\ n[1] \in AllIds
                          /\ n[1] \in shadowed' \/ \E t \in Taken(contract)' : t[1] = n[1][1] /\ n[1][2] <= t[2]
                          /\ \A k \in DOMAIN m : m[k] = n[1] => k = n[2] \/ n[1] \in shadowed'
      BY <2>2 DEF NamesAreTaken, Covered
    <3>2. CASE n \in N
      <4>1. n[1] \in AllIds /\ (n[1] \in shadowed \/ Covered(n[1]))
        BY <3>2 DEF NamesInv, NamesAreTaken
      <4>2. Covered(n[1]) => \E t \in Taken(contract)' : t[1] = n[1][1] /\ n[1][2] <= t[2]
        BY <2>2 DEF Covered
      <4>3. shadowed \subseteq shadowed'
        BY <2>1
      <4> QED
        BY <2>9, <3>2, <4>1, <4>2, <4>3
    <3>3. CASE n \in NamesGiven(d, contract, h)
      <4>1. CASE n[2] \in DOMAIN m /\ n[1] = m[n[2]]
        <5>1. n[1] \in AllIds /\ n[1] \in Taken(contract)'
          BY <2>8, <4>1
        <5>2. n[1][2] \in Int
          BY <5>1 DEF AllIds
        <5>3. \A k \in DOMAIN m : m[k] = n[1] => k = n[2]
          BY <2>3, <4>1 DEF OneKeyEach
        <5> QED
          BY <5>1, <5>2, <5>3
      <4>2. ASSUME NEW e \in NewIn(d, contract), n[1] = h[e], n[2] = e.key, n[2] \in DOMAIN m,
                   n[1] \in Shadowed(m, h) \/ (n[1][1] = m[n[2]][1] /\ n[1][2] <= m[n[2]][2])
            PROVE  /\ n[1] \in AllIds
                   /\ n[1] \in shadowed' \/ \E t \in Taken(contract)' : t[1] = n[1][1] /\ n[1][2] <= t[2]
                   /\ \A k \in DOMAIN m : m[k] = n[1] => k = n[2] \/ n[1] \in shadowed'
        <5>1. n[1] \in AllIds
          BY <2>5, <4>2
        <5>2. n[1] \in Shadowed(m, h) => n[1] \in shadowed'
          BY <2>1
        <5>3. m[n[2]] \in Taken(contract)'
          BY <2>8, <4>2
        <5>4. \A k \in DOMAIN m : m[k] = n[1] => k = n[2]
          BY <2>10, <4>2
        <5> QED
          BY <4>2, <5>1, <5>2, <5>3, <5>4
      <4> QED
        BY <3>3, <4>1, <4>2, NamesOfAVersion
    <3> QED
      BY <2>2, <3>2, <3>3
  <2>12. OnlyTheShadowedAreReused'
    <3>1. SUFFICES ASSUME NEW n \in named'.contract, NEW o \in named'.contract, n[1] = o[1], n[1] \notin shadowed'
                   PROVE  n[2] = o[2]
      BY DEF OnlyTheShadowedAreReused
    <3>2. \A x \in named'.contract : x[2] \in DOMAIN m /\ x[1] = m[x[2]] =>
            \A y \in named'.contract : y[1] = x[1] => y[2] = x[2] \/ y[1] \in shadowed'
      BY <2>2, <2>11 DEF NamesAreTaken
    <3>3. n \in N \/ (n[2] \in DOMAIN m /\ n[1] = m[n[2]])
            \/ \E e \in NewIn(d, contract) : n[1] = h[e] /\ n[2] = e.key
      BY <2>2, NamesOfAVersion
    <3>4. o \in N \/ (o[2] \in DOMAIN m /\ o[1] = m[o[2]])
            \/ \E e \in NewIn(d, contract) : o[1] = h[e] /\ o[2] = e.key
      BY <2>2, NamesOfAVersion
    <3>5. n[1] \notin shadowed /\ o[1] \notin shadowed
      BY <2>1, <3>1
    <3>6. CASE n \in N /\ o \in N
      BY <3>1, <3>5, <3>6 DEF NamesInv, OnlyTheShadowedAreReused
    <3>7. CASE \/ n[2] \in DOMAIN m /\ n[1] = m[n[2]]
               \/ o[2] \in DOMAIN m /\ o[1] = m[o[2]]
      BY <3>1, <3>2, <3>7
    <3>8. ASSUME NEW e \in NewIn(d, contract), n[1] = h[e], n[2] = e.key
          PROVE  n[2] = o[2]
      <4>1. o \notin N
        BY <3>1, <3>5, <3>8, NewIdIsNew
      <4>2. \A f \in NewIn(d, contract) : h[f] = h[e] => f = e
        BY DEF Numberings
      <4> QED
        BY <3>1, <3>4, <3>7, <3>8, <4>1, <4>2
    <3>9. ASSUME NEW e \in NewIn(d, contract), o[1] = h[e], o[2] = e.key, n \in N
          PROVE  n[2] = o[2]
      BY <3>1, <3>5, <3>9, NewIdIsNew
    <3> QED
      BY <3>3, <3>4, <3>6, <3>7, <3>8, <3>9
  <2> QED
    BY <2>2, <2>3, <2>7, <2>11, <2>12 DEF NamesInv
<1>3. CASE UNCHANGED documents
  BY <1>3 DEF documents, NamesInv, OnlyTheShadowedAreReused, NamesAreTaken, Covered, Taken, GivenBy, OneKeyEach
<1>4. CASE DocumentsNext
  BY <1>1, <1>2, <1>4 DEF DocumentsNext, WritePlan, RevisePlan, WriteContract, ReviseContract,
     FillTolerances
<1> QED
  BY <1>3, <1>4

\* An id of the contract names one clause or step over all its versions, whatever revisions bring,
\* but for the id of a clause whose key a step of the same version had as well: `with_ids` retires
\* what `key_to_id` lists (contract.py:131-134, 216, 224), and of the two that is the step's alone.
THEOREM OnlyShadowedIdsAreReused == DocumentsSpec => []OnlyTheShadowedAreReused
<1>1. DocumentsInit => NamesInv
  BY DEF DocumentsInit, NoDocument, NoEntries, NamesInv, OnlyTheShadowedAreReused, NamesAreTaken,
     OneKeyEach, Taken, GivenBy
<1>2. NamesInv => OnlyTheShadowedAreReused
  BY DEF NamesInv
<1> QED
  BY <1>1, <1>2, NamesInvHolds, PTL DEF DocumentsSpec

------------------------------------------------------------------------------
(* From the verification spec to the report. *)

\* One outcome per test: a pass means every case of every run passed (checks/runtests.py:65-72,
\* 109-120).
LEMMA APassIsWhole ==
  ASSUME NEW runs, \A i \in DOMAIN runs : runs[i] \in SUBSET Statuses
  PROVE  Real(runs) = "pass" <=> Seen(runs) # {} /\ \A i \in DOMAIN runs : runs[i] = {"pass"}
<1>1. \A i \in DOMAIN runs : Outcome(runs[i]) = "pass" <=> runs[i] = {"pass"}
  BY DEF Outcome
<1>2. Real(runs) = "pass" <=> Seen(runs) = {"pass"}
  BY DEF Real
<1>3. Seen(runs) = {"pass"} <=> Seen(runs) # {} /\ \A i \in DOMAIN runs : Outcome(runs[i]) = "pass"
  BY DEF Seen
<1> QED
  BY <1>1, <1>2, <1>3

\* The author's file and the checker's are two: a sound answer to one row is never the file of the
\* other (recipe.py:1016-1038, artifacts/files.py:35).
LEMMA SidesWriteApart ==
  ASSUME NEW clauses, NEW v, NEW src \in Paths, NEW tests \in Paths, src # tests,
         NEW r \in TaskRows(clauses, v, src, tests), NEW q \in TaskRows(clauses, v, src, tests),
         r.kind # q.kind, NEW f, FileSound(f, r), NEW g, FileSound(g, q)
  PROVE  f.path # g.path
  BY DEF TaskRows, FileSound

\* No checkable clause of a contract is lost between the verification spec and the report, whatever
\* the model wrote and the tests did (recipe.py:1163-1190, 1084-1109); what the report does not
\* tell is a property no test is named after.
THEOREM NoClauseIsLost ==
  ASSUME NEW clauses \in SUBSET Clauses, NEW v \in VSpecs, NEW f \in FileAnswers,
         NEW n \in Nat \ {0}, NEW o \in Observations(Manifest(f), n), NEW findings, NEW ambiguities,
         NEW x \in Checkable(clauses)
  PROVE  Accounted(x, v, o, ReportOf(clauses, v, o, findings, ambiguities))
<1> DEFINE R == ReportOf(clauses, v, o, findings, ambiguities)
<1>1. CASE x \in Uncovered(clauses, v)
  BY <1>1 DEF Accounted, ReportOf
<1>2. CASE \E g \in v.gaps : x \in g.cites
  BY <1>2 DEF Accounted
<1>3. CASE \E p \in v.properties : x \in p.cites
  <2>1. PICK p \in v.properties : x \in p.cites
    BY <1>3
  <2>2. ASSUME p.id \in DOMAIN o.real, p.id \notin R.properties
        PROVE  Held(p.id, o)
    <3>1. Real(o.real[p.id]) = "pass"
      BY <2>2 DEF ReportOf, Results
    <3>2. \A i \in DOMAIN o.real[p.id] : o.real[p.id][i] \in SUBSET Statuses
      BY <2>2 DEF Observations
    <3> QED
      BY <3>1, <3>2, APassIsWhole DEF Held
  <2> QED
    BY <2>1, <2>2 DEF Accounted
<1>4. x \in Uncovered(clauses, v) \/ x \in Cited(v)
  BY DEF Uncovered
<1>5. x \in Cited(v) => (\E p \in v.properties : x \in p.cites) \/ (\E g \in v.gaps : x \in g.cites)
  BY DEF Cited
<1> QED
  BY <1>1, <1>2, <1>3, <1>4, <1>5
================================================================================
