---------------------------- MODULE MocksContract ----------------------------
(***************************************************************************)
(* What mocks promise a test: each mocked function has a list of calls it  *)
(* owes, in order and with constraints, and then stays open, must not be   *)
(* called again, or may be called for ever. The test fails when a call or  *)
(* the end of the test contradicts the list.                               *)
(***************************************************************************)
EXTENDS Integers, Sequences

CONSTANTS Functions, Parameters, Values, Default, Declarable, Modes,
          Repeats   \* how many calls each list of constraints declares

VARIABLES
  mode,     \* what an unexpected call means
  owed,     \* for each function, the constraints of the calls expected next
  last,     \* for each function, what holds after those calls
  failed,   \* the test has failed
  response, \* what the last call gave back
  tallied   \* the test is over

vars == <<mode, owed, last, failed, response, tallied>>

Open == [how |-> "none", constraints |-> <<>>]
None == [f \in Functions |-> Open]

Satisfies(f, cs, actuals) ==
  \A i \in DOMAIN cs :
    /\ cs[i].kind \in {"compare", "set", "capture"} => cs[i].parameter \in Parameters[f]
    /\ cs[i].kind = "compare" => actuals[cs[i].parameter] = cs[i].value

With(cs, kind) == {i \in DOMAIN cs : cs[i].kind = kind}

\* an expectation returns its first result, and what else it is told to do it does
\* if the call is as expected
Gives(f, cs, actuals) ==
  /\ response'.result = IF With(cs, "return") = {} THEN Default
                        ELSE cs[CHOOSE i \in With(cs, "return") : \A j \in With(cs, "return") : i <= j].value
  /\ Satisfies(f, cs, actuals) =>
       /\ response'.set = {<<cs[i].parameter, cs[i].value>> : i \in With(cs, "set")}
       /\ response'.captured = {<<cs[i].parameter, actuals[cs[i].parameter]>> : i \in With(cs, "capture")}
       /\ response'.effects > 0 <=> With(cs, "effect") # {}

Nothing == [result |-> Default, set |-> {}, captured |-> {}, effects |-> 0]

Init ==
  /\ mode = "strict" /\ failed = FALSE /\ tallied = FALSE
  /\ owed = [f \in Functions |-> <<>>]
  /\ last = None /\ response = Nothing

SetMode == ~tallied /\ mode' \in Modes /\ UNCHANGED <<owed, last, failed, response, tallied>>

\* calls are declared one or several times, or for ever, or never, while that is allowed
Owe(f, cs) ==
  /\ last[f] = Open
  /\ owed' = [owed EXCEPT ![f] = @ \o [i \in 1..Repeats[cs] |-> cs]]
  /\ UNCHANGED <<last, failed, response>>
End(f, how, cs) ==
  /\ last[f] = Open
  /\ last' = [last EXCEPT ![f] = [how |-> how, constraints |-> cs]]
  /\ UNCHANGED <<owed, failed, response>>
\* nothing can be declared after that; a never expectation is given up
Refuse(f) ==
  /\ last[f] # Open
  /\ last' = IF last[f].how = "never" THEN [last EXCEPT ![f] = Open] ELSE last
  /\ failed' = TRUE
  /\ UNCHANGED <<owed, response>>

Call(f, actuals) ==
  \/ /\ owed[f] # <<>>
     /\ owed' = [owed EXCEPT ![f] = Tail(@)]
     /\ failed' = (failed \/ ~Satisfies(f, Head(owed[f]), actuals))
     /\ Gives(f, Head(owed[f]), actuals)
     /\ UNCHANGED last
  \/ /\ owed[f] = <<>> /\ last[f].how = "always"
     /\ failed' = (failed \/ ~Satisfies(f, last[f].constraints, actuals))
     /\ Gives(f, last[f].constraints, actuals)
     /\ UNCHANGED <<owed, last>>
  \/ /\ owed[f] = <<>> /\ last[f].how # "always"
     /\ failed' = (failed \/ last[f].how = "never" \/ mode = "strict")
     /\ response' = Nothing
     /\ UNCHANGED <<owed, last>>

Step ==
  /\ ~tallied /\ UNCHANGED <<mode, tallied>>
  /\ \E f \in Functions :
       \/ \E cs \in Declarable : Owe(f, cs)
       \/ \E cs \in Declarable : End(f, "always", cs)
       \/ End(f, "never", <<>>)
       \/ Refuse(f)
       \/ \E actuals \in [Parameters[f] -> Values] : Call(f, actuals)

\* loose mocks "allow [...] unfulfilled expectations" (cgreen-guide-en.asciidoc:1529)
Tally ==
  /\ ~tallied /\ tallied' = TRUE
  /\ failed' = (failed \/ (mode # "loose" /\ \E f \in Functions : owed[f] # <<>>))
  /\ owed' = [f \in Functions |-> <<>>] /\ last' = None
  /\ UNCHANGED <<mode, response>>

NextTest ==
  /\ tallied /\ tallied' = FALSE
  /\ failed' = FALSE /\ response' = Nothing
  /\ UNCHANGED <<mode, owed, last>>

Next == SetMode \/ Step \/ Tally \/ NextTest

Spec == Init /\ [][Next]_vars
=============================================================================
