---------------------------- MODULE MCReportedRun ----------------------------
(***************************************************************************)
(* A suite tree and sizes for model checking ReportedRun.                  *)
(***************************************************************************)
EXTENDS ReportedRun, TLC

CONSTANTS top, sub, t1, t2, t3

\* a sub-suite of one test, a test and a skipped test
MixedEntries == top :> <<sub, t2, t3>> @@ sub :> <<t1>>
MixedOrder   == <<t1, t2, t3>>
MixedDepth   == top :> 0 @@ sub :> 1 @@ t1 :> 2 @@ t2 :> 1 @@ t3 :> 1

\* what the two loops of run_every_test() run of a suite from each entry on
MixedSubs    == top :> <<<<t1>>, <<>>, <<>>, <<>>>> @@ sub :> <<<<>>, <<>>>>
MixedOwn     == top :> <<<<t2, t3>>, <<t2, t3>>, <<t3>>, <<>>>> @@ sub :> <<<<t1>>, <<>>>>

\* what the theorems ask of a tree
ASSUME MixedAssumption ==
  /\ IsTree(MixedDepth, 2)
  /\ IsWalk(MixedSubs, MixedOwn)
  /\ \A i, j \in 1..Len(Order) : Order[i] = Order[j] => i = j

\* a message with a byte to escape, and one with a restricted character
Short      == <<"plain", "broken">>
Restricted == <<"plain", "restricted">>
Usual      == {Short}
Odd        == {Short, Restricted}

\* the note on an incomplete test may be shorter than what it overwrites
ElementSize == "failure" :> 2 @@ "error" :> 3 @@ "skipped" :> 1
=============================================================================
