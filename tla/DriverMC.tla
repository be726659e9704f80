------------------------------- MODULE DriverMC -------------------------------
(* Two small programs for the drive loop.                                    *)
EXTENDS Driver, TLC

CONSTANTS plan, tests, source, report   \* files

MCFiles == {plan, tests, source, report}

\* The pool: an author lands the plan and the source; then three steps side by side, one that
\* writes the tests, listed while the source is there, one that answers for the tests and
\* writes nothing, called for until there is a report, and one with no files, until there are
\* tests; a report waits for the tests' step.
PoolAfter == <<{}, {}, {2}, {1}, {1}>>
PoolNeeds == <<{}, {source}, {plan}, {plan}, {plan}>>
PoolHides == <<{}, {}, {}, {report}, {tests}>>
PoolLists == [S \in SUBSET MCFiles |->
                {s \in 1..5 : PoolNeeds[s] \subseteq S /\ PoolHides[s] \intersect S = {}}]
PoolDeliverables == <<{plan}, {tests}, {report}, {tests}, {}>>
PoolLands == <<{plan, source}, {tests}, {report}, {}, {}>>

\* One by one: an author, a step with two files, a gate; none waits for another.
LineAfter == <<{}, {}, {}>>
LineLists == [S \in SUBSET MCFiles |-> 1..3]
LineDeliverables == <<{plan}, {tests, source}, {}>>
LineLands == <<{plan}, {tests, source}, {}>>

MCOne == {1}
MCTwo == {1, 2}
MCThree == {3}
MCNone == {}
==============================================================================
