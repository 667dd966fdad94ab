--------------------------- MODULE MCTestRunModes ---------------------------
(***************************************************************************)
(* Suite trees for model checking TestRunModes.                            *)
(***************************************************************************)
EXTENDS TestRunModes, TLC

CONSTANTS top, sub, t1, t2, t3

\* a suite with a test before and after a sub-suite of one
NestedEntries == top :> <<t2, sub, t3>> @@ sub :> <<t1>>
NestedOrder   == <<t1, t2, t3>>
\* the tests of one name, in and outside the sub-suite
NamedOrder    == <<t1, t3>>
\* a sub-suite alone in its parent
SmallEntries  == top :> <<sub, t2>> @@ sub :> <<t1>>
SmallOrder    == <<t1, t2>>

\* what a loop of run_every_test() runs of suite s from its entry i on
RECURSIVE Visited(_, _, _, _, _)
Visited(tree, tests, s, loop, i) ==
  IF i > Len(tree[s]) THEN <<>>
  ELSE LET e == tree[s][i] IN
       (CASE loop = "subs" /\ e \in Suites ->
               Visited(tree, tests, e, "subs", 1) \o Visited(tree, tests, e, "tests", 1)
          [] loop = "tests" /\ e \in tests -> <<e>>
          [] OTHER -> <<>>) \o Visited(tree, tests, s, loop, i + 1)
From(tree, tests, loop) ==
  [s \in Suites |-> [i \in 1..(Len(tree[s]) + 1) |-> Visited(tree, tests, s, loop, i)]]

ASSUME OrderAssumption ==
  /\ Stray!IsWalk(From(FewEntries, FewTests, "subs"), From(FewEntries, FewTests, "tests"))
  /\ NoFork!IsWalk(From(Entries, Tests, "subs"), From(Entries, Tests, "tests"))
  /\ One!IsWalk(From(Entries, Selected, "subs"), From(Entries, Selected, "tests"))
=============================================================================
