------------------------------ MODULE MCTestRun ------------------------------
(***************************************************************************)
(* Suite trees for model checking TestRun.                                 *)
(***************************************************************************)
EXTENDS TestRun, TLC

CONSTANTS top, sub, t1, t2, t3

\* a suite with a test before and after a sub-suite of one
NestedEntries == top :> <<t2, sub, t3>> @@ sub :> <<t1>>
NestedOrder   == <<t1, t2, t3>>
\* a sub-suite alone in its parent
SmallEntries  == top :> <<sub, t2>> @@ sub :> <<t1>>
SmallOrder    == <<t1, t2>>

\* what a loop of run_every_test() runs of suite s from its entry i on
RECURSIVE Visited(_, _, _)
Visited(s, loop, i) ==
  IF i > Len(Entries[s]) THEN <<>>
  ELSE LET e == Entries[s][i] IN
       (CASE loop = "subs" /\ e \in Suites /\ (Single => HasTest[e]) ->
               Visited(e, "subs", 1) \o Visited(e, "tests", 1)
          [] loop = "tests" /\ e \in Tests /\ (Single => e \in Selected) -> <<e>>
          [] OTHER -> <<>>) \o Visited(s, loop, i + 1)
From(loop) == [s \in Suites |-> [i \in 1..(Len(Entries[s]) + 1) |-> Visited(s, loop, i)]]

ASSUME OrderAssumption == IsWalk(From("subs"), From("tests"))
=============================================================================
