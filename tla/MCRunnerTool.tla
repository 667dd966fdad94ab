----------------------------- MODULE MCRunnerTool -----------------------------
(***************************************************************************)
(* Libraries and command lines for model checking RunnerTool.              *)
(***************************************************************************)
EXTENDS RunnerTool, TLC

CONSTANTS first, second, empty, broken, stale, missing, exact, contextual, wildcard, c, d

Test(context, name) == [context |-> context, name |-> name]

\* contexts and names in no order, one name in two contexts
SomeContent ==
  first  :> <<Test(c, 3), Test(d, 2), Test(c, 1)>> @@
  second :> <<Test(d, 1), Test(c, 4)>> @@
  empty  :> <<>> @@
  broken :> <<Test(c, 1)>> @@
  stale  :> <<Test(c, 2), Test(c, 1)>>
SomeUnresolved == {Test(c, 2)}

\* what c:3, c:* and *:*4* select, as numbers; and the name of a file that does not exist
UsualPatterns ==
  exact      :> [contexts |-> {c}, names |-> {3}, literal |-> 3] @@
  contextual :> [contexts |-> {c}, names |-> 1..3, literal |-> 0] @@
  missing    :> [contexts |-> {c}, names |-> {}, literal |-> 0]
UnusualPatterns ==
  UsualPatterns @@ wildcard :> [contexts |-> {c, d}, names |-> {4}, literal |-> 0]

Arguments == {first, second, empty, broken, stale, missing, exact, contextual}
\* a pattern that selects one test spells its name, and comes after a library
UsualCommandLines ==
  LET Begins(s) == s[1] \notin {exact, contextual}
  IN  {<<>>} \cup {s \in Arguments \X Arguments : Begins(s)} \cup {<<a>> : a \in Files}
             \cup ({first} \X {exact, contextual, second} \X {second, stale, missing})
             \cup {<<second, broken, second>>, <<empty, exact, second>>}
\* the pattern selects one test and is not its name
UnusualCommandLines == {<<second, wildcard>>, <<first, exact, second, wildcard>>}

\* what TheSelectionIsRun assumes holds where the run finds the selection run
ASSUME LiteralsAssumption == Patterns = UsualPatterns => LiteralsAreNames
=============================================================================
