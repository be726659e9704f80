------------------------------- MODULE Documents -------------------------------
(***************************************************************************)
(* The plan and the contract of the code builder (artifacts/plan.py,       *)
(* artifacts/contract.py) and the ids code gives to what they list         *)
(* (ids.py).  A model writes a document whose entries have keys of its own *)
(* choosing; code refuses it unless it is sound, then gives every entry an *)
(* id: the one its key had in the version before, or the next free one.    *)
(* The other documents cite those ids.  A review round may bring a whole   *)
(* new version; what is checked of that answer is its decisions            *)
(* (spec/findings.py `Arbitrated`), not the document in it.                *)
(*                                                                         *)
(* A document is a set of entries; their order, which the numbers follow,  *)
(* is whatever order the numbering chosen goes by.                         *)
(***************************************************************************)
EXTENDS Integers, FiniteSets

CONSTANTS Keys,       \* what a model may call an entry
          Files,      \* what a block may write
          PlanDrafts, \* the plans a model may answer with
          Drafts,     \* and the contracts
          MaxNumber   \* bound: the largest number an id can have (9999, ids.py `fmt`)

VARIABLES
  plan,      \* the latest stored plan: what it lists, the ids, what it retired
  contract,  \* the latest stored contract, likewise
  named,     \* (history) for each, every id a stored version gave, with the key it gave it to
  shadowed   \* (history) the ids of clauses whose key a step of the version had as well

documents == <<plan, contract, named, shadowed>>

------------------------------------------------------------------------------
(* Ids: a prefix and a number. *)

IdPrefixes == {"K", "C", "A"}
AllIds == IdPrefixes \X (1..MaxNumber)

\* Above every number taken in a namespace.
Above(n, p, taken) == \A i \in taken : i[1] = p => i[2] < n

\* The largest number taken in a namespace, zero when none is.
Top(p, taken) == CHOOSE n \in 0..MaxNumber : Above(n + 1, p, taken) /\ (n = 0 \/ <<p, n>> \in taken)

Prefix(e) == IF e.section = "blocks" THEN "K" ELSE IF e.section = "algorithm" THEN "A" ELSE "C"

\* The numbers right above those taken, each once.
Numberings(new, taken) ==
  {h \in [new -> AllIds] :
     /\ \A e, o \in new : h[e] = h[o] => e = o
     /\ \A e \in new : /\ h[e][1] = Prefix(e)
                       /\ Above(h[e][2], Prefix(e), taken)
                       /\ h[e][2] <= Top(Prefix(e), taken) + Cardinality({o \in new : Prefix(o) = Prefix(e)})}

------------------------------------------------------------------------------
(* The documents. *)

KeysOf(entries) == {e.key : e \in entries}
In(d, sections) == {e \in d.entries : e.section \in sections}

ClauseSections ==
  {"vocabulary", "input", "output", "units", "constants", "invariants", "negative", "failure", "tolerances"}

\* `about`: the clauses a step implements, the clause a tolerance qualifies; `uses`: the constants
\* a step reads; `vague`: opens like a test, or says "properly" and its like.
Entries ==
  [key : Keys, section : ClauseSections \union {"algorithm"},
   about : SUBSET Keys, uses : SUBSET Keys, vague : BOOLEAN]
Blocks == [key : Keys, section : {"blocks"}, writes : SUBSET Files]

KeysAreUnique(d) == \A x, y \in d.entries : x.key = y.key => x = y

\* `Plan.semantic_problems` finds none.
PlanSound(d) ==
  /\ KeysAreUnique(d)
  /\ \A x, y \in d.entries : x.writes \intersect y.writes # {} => x = y
  /\ d.order \subseteq KeysOf(d.entries)

\* `Contract.semantic_problems` finds none; `described` holds the units with an algorithm.
Sound(d) ==
  /\ KeysAreUnique(d)
  /\ d.described = KeysOf(In(d, {"units"}))
  /\ \A e \in d.entries :
       /\ e.about \subseteq KeysOf(In(d, ClauseSections))
       /\ e.uses \subseteq KeysOf(In(d, {"constants"}))
       /\ e.section \in {"invariants", "negative"} => ~e.vague

NoEntries == [x \in {} |-> 0]
NoDocument == [entries |-> {}, ids |-> NoEntries, retired |-> {}]

GivenBy(ids) == {ids[k] : k \in DOMAIN ids}
Taken(doc) == GivenBy(doc.ids) \union doc.retired
NewIn(d, doc) == {e \in d.entries : e.key \notin DOMAIN doc.ids}

\* `key_to_id` goes through the clauses, then the steps, in order: the last with a key wins.
Later(i, j) ==
  \/ i[1] = "A" /\ j[1] = "C"
  \/ i[1] = j[1] /\ i[2] > j[2]

KeyToId(d, doc, h) ==
  {ids \in [KeysOf(d.entries) -> GivenBy(doc.ids) \union GivenBy(h)] :
     \A k \in KeysOf(d.entries) :
       IF k \in DOMAIN doc.ids THEN ids[k] = doc.ids[k]
       ELSE \E e \in DOMAIN h :
              /\ e.key = k /\ ids[k] = h[e]
              /\ \A o \in DOMAIN h : o.key = k => o = e \/ Later(h[e], h[o])}

\* `with_ids` stores this of a draft; the contract remembers what it retired, the plan does not.
Version(d, doc, ids, remembers) ==
  [entries |-> d.entries, ids |-> ids,
   retired |-> IF remembers THEN Taken(doc) \ GivenBy(ids) ELSE {}]

\* What each entry of the new version is called.
NamesGiven(d, doc, h) ==
  {<<IF e.key \in DOMAIN doc.ids THEN doc.ids[e.key] ELSE h[e], e.key>> : e \in d.entries}

\* The new ids `key_to_id` passes over, a step having the clause's key: nothing knows them any more.
Shadowed(ids, h) == {h[e] : e \in {o \in DOMAIN h : h[o][1] # ids[o.key][1]}}

------------------------------------------------------------------------------

DocumentsInit ==
  /\ plan = NoDocument /\ contract = NoDocument
  /\ named = [plan |-> {}, contract |-> {}] /\ shadowed = {}

Unwritten(doc) == doc.entries = {}

StorePlan(d) ==
  \E h \in Numberings(NewIn(d, plan), Taken(plan)) : \E ids \in KeyToId(d, plan, h) :
    /\ plan' = Version(d, plan, ids, FALSE)
    /\ named' = [named EXCEPT !.plan = @ \union NamesGiven(d, plan, h)]
    /\ UNCHANGED <<contract, shadowed>>

StoreContract(d) ==
  \E h \in Numberings(NewIn(d, contract), Taken(contract)) : \E ids \in KeyToId(d, contract, h) :
    /\ contract' = Version(d, contract, ids, TRUE)
    /\ named' = [named EXCEPT !.contract = @ \union NamesGiven(d, contract, h)]
    /\ shadowed' = shadowed \union Shadowed(ids, h)
    /\ UNCHANGED plan

WritePlan == \E d \in PlanDrafts : Unwritten(plan) /\ PlanSound(d) /\ StorePlan(d)

RevisePlan == \E d \in PlanDrafts : ~Unwritten(plan) /\ Unwritten(contract) /\ StorePlan(d)

\* The author's first contract, or the one that follows a gate that sent it back.
WriteContract == \E d \in Drafts : ~Unwritten(plan) /\ Sound(d) /\ StoreContract(d)

ReviseContract == \E d \in Drafts : ~Unwritten(contract) /\ StoreContract(d)

\* A person set the tolerances: the same keys, the same ids.
FillTolerances == ~Unwritten(contract) /\ StoreContract([entries |-> contract.entries])

DocumentsNext == WritePlan \/ RevisePlan \/ WriteContract \/ ReviseContract \/ FillTolerances

DocumentsSpec == DocumentsInit /\ [][DocumentsNext]_documents

------------------------------------------------------------------------------
(* Properties. *)

OneKeyEach(ids) == \A k, l \in DOMAIN ids : ids[k] = ids[l] => k = l

\* In a stored version two keys never share an id, whatever a revision brings (contract.py
\* `with_ids`, `key_to_id`; plan.py `with_ids`).
IdsTellKeysApart == OneKeyEach(plan.ids) /\ OneKeyEach(contract.ids)

\* An id of the contract names one clause or step over all its versions (docs/RELIABILITY.md:199:
\* "`C-023` means the same clause forever"), but for a clause's id that a step of the same version
\* shadowed: a revision may bring such keys (spec/findings.py:125), `with_ids` does not retire the
\* id, and the next clause may be given it (contract.py:131-134, 224).
OnlyTheShadowedAreReused ==
  \A n, m \in named.contract : n[1] = m[1] => n[2] = m[2] \/ n[1] \in shadowed
==============================================================================
