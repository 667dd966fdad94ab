------------------------------- MODULE MCMocks -------------------------------
(***************************************************************************)
(* Functions, parameters and constraint lists for model checking Mocks.    *)
(***************************************************************************)
EXTENDS Mocks

CONSTANTS f, g, p, q, right, wrong, zero

OneParameter == [h \in Functions |-> IF h = f THEN {p} ELSE {}]

OnP  == [kind |-> "compare", parameter |-> p, value |-> right]
OnQ  == [kind |-> "compare", parameter |-> q, value |-> right]
Sets(n, v)  == [kind |-> "set", parameter |-> n, value |-> v]
Captures(n) == [kind |-> "capture", parameter |-> n]
Returns(v)  == [kind |-> "return", value |-> v]
SideEffect  == [kind |-> "effect"]
Exactly(n)  == [kind |-> "times", count |-> n]

\* once and twice, with and without a comparison, a misspelt parameter, and all behaviours
Lists ==
  {<<>>, <<OnP, Returns(right)>>, <<Captures(p), Exactly(2), Returns(wrong)>>,
   <<OnP, Sets(p, wrong), SideEffect, Exactly(2)>>, <<OnQ, Exactly(2)>>}
=============================================================================
