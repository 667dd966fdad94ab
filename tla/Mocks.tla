-------------------------------- MODULE Mocks --------------------------------
(***************************************************************************)
(* The mock expectations of one process (mocks.c): the global queue that   *)
(* expect(), always_expect() and never_expect() fill and mock() consumes,  *)
(* the mode that decides about unexpected calls, and the tally at the end  *)
(* of each test. Several tests share the process, as with CGREEN_NO_FORK.  *)
(***************************************************************************)
EXTENDS Integers, Sequences, FiniteSets

CONSTANTS
  Functions,   \* the mocked functions
  Names,       \* parameter names, well or badly spelt
  Parameters,  \* the names in the mock() call of each function
  Values,      \* parameter values and results
  Default,     \* the result of a call without will_return()
  Declarable,  \* the constraint lists a test may declare
  Modes,       \* the modes a test may choose with cgreen_mocks_are()
  MaxSteps,    \* bound: declarations and calls of a test
  MaxTests     \* bound: tests run in the process

\* times(count); when(parameter, is_equal_to(value)); will_set_contents_of_output_parameter;
\* will_capture_parameter; will_return; with_side_effect
Constraint ==
  [kind : {"times"}, count : Int]
    \cup [kind : {"compare", "set"}, parameter : Names, value : Values]
    \cup [kind : {"capture"}, parameter : Names]
    \cup [kind : {"return"}, value : Values]
    \cup [kind : {"effect"}]

ASSUME MocksAssumption ==
  /\ Parameters \in [Functions -> SUBSET Names]
  /\ Declarable \subseteq Seq(Constraint) /\ <<>> \in Declarable
  /\ Modes \subseteq {"strict", "loose", "learning"} /\ Values # {}
  /\ MaxSteps \in Nat /\ MaxTests \in Nat

VARIABLES
  mode,      \* cgreen_mocks_are_
  queue,     \* global_expectation_queue
  mocked,    \* successfully_mocked_calls
  learned,   \* learned_mock_calls
  results,   \* the assertions reported by the test, passed and failed
  tallied,   \* tally_mocks() has ended the test
  steps,     \* declarations and calls of the test so far
  tests,     \* tests begun
  debt,      \* history: calls declared and not made, less those that may not be made
  response   \* history: what the last call gave back

vars == <<mode, queue, mocked, learned, results, tallied, steps, tests, debt, response>>

UNLIMITED_TIME_TO_LIVE == 254886233

Expectation ==
  [function : Functions, ttl : Int, constraints : Declarable, called : Nat, triggered : Nat]

Actuals(f) == [Parameters[f] -> Values]
Calls      == UNION {[function : {f}, actuals : Actuals(f)] : f \in Functions}

\* the result of a call, the parameters it set and captured, and its side effects
Responses ==
  [result : Values \cup {Default}, set : SUBSET (Names \X Values),
   captured : SUBSET (Names \X Values), effects : Nat]

TypeOK ==
  /\ mode \in {"strict", "loose", "learning"}
  /\ queue \in Seq(Expectation)
  /\ mocked \subseteq Functions
  /\ learned \in Seq(Calls)
  /\ results \in [{"pass", "fail"} -> Nat]
  /\ tallied \in BOOLEAN
  /\ steps \in Nat /\ tests \in Nat
  /\ debt \in [Functions -> Int]
  /\ response \in Responses
-----------------------------------------------------------------------------
(* Looking up the queue                                                    *)

IsAlways(e)  == e.ttl = UNLIMITED_TIME_TO_LIVE
IsNever(e)   == e.ttl = -UNLIMITED_TIME_TO_LIVE
IsLimited(e) == ~IsAlways(e) /\ ~IsNever(e)

For(f) == {i \in DOMAIN queue : queue[i].function = f}
\* mutant: the latest expectation answers
BugFind(f) == CHOOSE i \in For(f) : \A j \in For(f) : j <= i
Find(f) == CHOOSE i \in For(f) : \A j \in For(f) : i <= j

HasAlways(f) == \E i \in For(f) : IsAlways(queue[i])
\* mutant: a never expectation does not stop later ones
BugHasNever(f) == FALSE
HasNever(f)  == \E i \in For(f) : IsNever(queue[i])

\* cgreen_vector_remove()
Without(k) == [i \in 1..(Len(queue) - 1) |-> IF i < k THEN queue[i] ELSE queue[i + 1]]
-----------------------------------------------------------------------------
(* Constraints                                                             *)

Those(cs, kinds) == {i \in DOMAIN cs : cs[i].kind \in kinds}
Misspelt(f, cs)  == {i \in Those(cs, {"compare", "capture", "set"}) : cs[i].parameter \notin Parameters[f]}
Smallest(I)      == CHOOSE i \in I : \A j \in I : i <= j
Holds(c, actuals) == actuals[c.parameter] = c.value

\* time_to_live: the first times(), or 1
Times(cs) == LET T == Those(cs, {"times"}) IN IF T = {} THEN 1 ELSE cs[Smallest(T)].count

\* stored_result_or_default_for()
ResultOf(cs) ==
  LET R == Those(cs, {"return"}) IN IF R = {} THEN Default ELSE cs[Smallest(R)].value

\* a call that goes no further than its result
Only(result) == [result |-> result, set |-> {}, captured |-> {}, effects |-> 0]

Response(cs, actuals) ==
  [result   |-> ResultOf(cs),
   set      |-> {<<cs[i].parameter, cs[i].value>> : i \in Those(cs, {"set"})},
   captured |-> {<<cs[i].parameter, actuals[cs[i].parameter]>> : i \in Those(cs, {"capture"})},
   effects  |-> Cardinality(Those(cs, {"effect"}))]

\* mutant: a failure takes back a pass
BugReport(passes, fails) ==
  results' = [results EXCEPT !["pass"] = @ + passes - fails, !["fail"] = @ + fails]
Report(passes, fails) ==
  results' = [results EXCEPT !["pass"] = @ + passes, !["fail"] = @ + fails]
-----------------------------------------------------------------------------
Init ==
  /\ mode = "strict"
  /\ queue = <<>> /\ learned = <<>> /\ mocked = {}
  /\ results = [r \in {"pass", "fail"} |-> 0]
  /\ tallied = FALSE
  /\ steps = 0 /\ tests = 1
  /\ debt = [f \in Functions |-> 0]
  /\ response = Only(Default)

\* the expectation after a call that counts for n times() constraints
Triggered(e, n, triggers) ==
  [function |-> e.function, ttl |-> e.ttl, constraints |-> e.constraints,
   called |-> e.called + n, triggered |-> e.triggered + triggers]

\* the expectation with one call less to live
Older(e) ==
  [function |-> e.function, ttl |-> e.ttl - 1, constraints |-> e.constraints,
   called |-> e.called, triggered |-> e.triggered]

InTest == ~tallied /\ steps < MaxSteps /\ steps' = steps + 1

SetMode(m) ==
  /\ ~tallied
  /\ mode' = m
  /\ UNCHANGED <<queue, mocked, learned, results, tallied, steps, tests, debt, response>>

\* the head of expect_(), always_expect_() and never_expect_()
Reject(f) ==
  /\ InTest
  /\ HasAlways(f) \/ HasNever(f)
  /\ queue' = IF HasAlways(f) THEN queue
              ELSE Without(CHOOSE i \in For(f) : IsNever(queue[i]))
  /\ Report(0, 1)
  /\ UNCHANGED <<mode, mocked, learned, tallied, tests, debt, response>>

Owes(f, n) == debt' = [debt EXCEPT ![f] = @ + n]

Declare(f, ttl, cs) ==
  /\ InTest
  /\ ~HasAlways(f) /\ ~HasNever(f)
  /\ queue' = Append(queue, [function |-> f, ttl |-> ttl, constraints |-> cs,
                             called |-> 0, triggered |-> 0])
  /\ UNCHANGED <<mode, mocked, learned, results, tallied, tests, response>>

Expect(f, cs) ==
  /\ Declare(f, Times(cs), cs)
  /\ Owes(f, Times(cs))

AlwaysExpect(f, cs) == Declare(f, UNLIMITED_TIME_TO_LIVE, cs) /\ UNCHANGED debt
NeverExpect(f)      == Declare(f, -UNLIMITED_TIME_TO_LIVE, <<>>) /\ UNCHANGED debt

\* handle_missing_expectation_for()
UnexpectedCall(f, actuals) ==
  /\ InTest
  /\ For(f) = {}
  /\ Report(0, IF mode = "strict" THEN 1 ELSE 0)
  /\ learned' = IF mode = "learning" THEN Append(learned, [function |-> f, actuals |-> actuals])
                ELSE learned
  /\ response' = Only(Default)
  /\ Owes(f, IF mode = "strict" THEN -1 ELSE 0)
  /\ UNCHANGED <<mode, queue, mocked, tallied, tests>>

ForbiddenCall(f) ==
  /\ InTest
  /\ For(f) # {} /\ IsNever(queue[Find(f)])
  /\ queue' = [queue EXCEPT ![Find(f)] = Triggered(queue[Find(f)], 0, 1)]
  /\ Report(0, 1)
  /\ response' = Only(Default)
  /\ Owes(f, -1)
  /\ UNCHANGED <<mode, mocked, learned, tallied, tests>>

\* the queue after destroy_expectation_if_time_to_die(), e being the expectation at k
Aged(k, e) ==
  IF IsAlways(e)  THEN [queue EXCEPT ![k] = e]
  ELSE IF e.ttl <= 1 THEN Without(k)
  ELSE [queue EXCEPT ![k] = Older(e)]

\* what both ways of being answered by an expectation have in common
Answer(f) ==
  /\ InTest
  /\ For(f) # {} /\ ~IsNever(queue[Find(f)])
  /\ mocked' = mocked \cup {f}
  /\ Owes(f, IF IsAlways(queue[Find(f)]) THEN 0 ELSE -1)
  /\ UNCHANGED <<mode, learned, tallied, tests>>

\* a constraint names a parameter the mock does not have: mock_() returns early
MisspeltCall(f) ==
  /\ Answer(f)
  /\ LET k  == Find(f)
         cs == queue[k].constraints
     IN  /\ Misspelt(f, cs) # {}
         /\ queue' = Aged(k, Triggered(queue[k],
              Cardinality({i \in Those(cs, {"times"}) : i < Smallest(Misspelt(f, cs))}), 0))
  /\ Report(0, 1)
  /\ response' = Only(ResultOf(queue[Find(f)].constraints))

\* mutant: calls are not counted for times()
BugAnsweredCall(f, actuals) ==
  /\ Answer(f)
  /\ LET k    == Find(f)
         cs   == queue[k].constraints
         good == {i \in Those(cs, {"compare"}) : Holds(cs[i], actuals)}
         bad  == Those(cs, {"compare"}) \ good
     IN  /\ Misspelt(f, cs) = {}
         /\ queue' = Aged(k, Triggered(queue[k], 0, 1))
         /\ Report(Cardinality(good), Cardinality(bad))
         /\ response' = Response(cs, actuals)

\* the content setters run whatever the comparisons say: reporter->failures
\* does not change before the main process reads the results
AnsweredCall(f, actuals) ==
  /\ Answer(f)
  /\ LET k    == Find(f)
         cs   == queue[k].constraints
         good == {i \in Those(cs, {"compare"}) : Holds(cs[i], actuals)}
         bad  == Those(cs, {"compare"}) \ good
     IN  /\ Misspelt(f, cs) = {}
         /\ queue' = Aged(k, Triggered(queue[k], Cardinality(Those(cs, {"times"})), 1))
         /\ Report(Cardinality(good), Cardinality(bad))
         /\ response' = Response(cs, actuals)
-----------------------------------------------------------------------------
(* The end of a test                                                       *)

\* trigger_unfulfilled_expectations(): the times() constraints still in the queue
Counters ==
  UNION {{<<i, c>> : c \in Those(queue[i].constraints, {"times"})} :
           i \in {j \in DOMAIN queue : IsLimited(queue[j])}}
Exact   == {p \in Counters : queue[p[1]].called = queue[p[1]].constraints[p[2]].count}
\* mutant: only times() constraints are tallied
BugUnmet == {}
Unmet   == {i \in DOMAIN queue : IsLimited(queue[i]) /\ Those(queue[i].constraints, {"times"}) = {}}
Obeyed  == {i \in DOMAIN queue : IsNever(queue[i]) /\ queue[i].triggered = 0}

Tally ==
  /\ ~tallied
  /\ Report(Cardinality(Exact) + Cardinality(Obeyed),
            Cardinality(Counters \ Exact) + Cardinality(Unmet))
  /\ queue' = <<>> /\ learned' = <<>>
  /\ tallied' = TRUE
  /\ UNCHANGED <<mode, mocked, steps, tests, debt, response>>

\* run_the_test_code() again: the mode and successfully_mocked_calls stay
NextTest ==
  /\ tallied /\ tests < MaxTests
  /\ queue' = <<>> /\ learned' = <<>>
  /\ tallied' = FALSE
  /\ tests' = tests + 1 /\ steps' = 0
  /\ results' = [r \in {"pass", "fail"} |-> 0]
  /\ debt' = [f \in Functions |-> 0]
  /\ response' = Only(Default)
  /\ UNCHANGED <<mode, mocked>>

Next ==
  \/ \E m \in Modes : SetMode(m)
  \/ \E f \in Functions :
       \/ Reject(f) \/ NeverExpect(f) \/ ForbiddenCall(f) \/ MisspeltCall(f)
       \/ \E cs \in Declarable : Expect(f, cs) \/ AlwaysExpect(f, cs)
       \/ \E actuals \in Actuals(f) : UnexpectedCall(f, actuals) \/ AnsweredCall(f, actuals)
  \/ Tally
  \/ NextTest
  \/ tallied /\ UNCHANGED vars

Spec == Init /\ [][Next]_vars
-----------------------------------------------------------------------------
(* What makes mocks correct                                                *)

(* Nothing of a function is queued behind its always or never expectation: *)
(* what would follow could never be answered nor tallied (mocks.c:442, 454)*)
NothingBehindUnlimited ==
  \A i, j \in DOMAIN queue :
    i < j /\ queue[i].function = queue[j].function => IsLimited(queue[i])

(* The two counters of an expectation with one times(n), the time to live  *)
(* that decides when it is gone and the calls that tally_mocks() compares  *)
(* with n, agree until a failure is reported (mocks.c:226, 422, 803).      *)
CountersAgree ==
  results["fail"] = 0 =>
    \A i \in DOMAIN queue :
      IsLimited(queue[i]) =>
        \A c \in DOMAIN queue[i].constraints :
          Those(queue[i].constraints, {"times"}) = {c} =>
            queue[i].ttl + queue[i].called = queue[i].constraints[c].count

(* A test without a failure whose mocks are strict made all the calls it   *)
(* declared, times(n) being n calls (cgreen-guide-en.asciidoc:1847), and,  *)
(* while they were strict, no other (1524).                                *)
ExactCalls ==
  tallied /\ mode = "strict" /\ results["fail"] = 0 => \A f \in Functions : debt[f] = 0
-----------------------------------------------------------------------------
(* The promise of mocks: order matters for one function only               *)

\* the calls of f that an expectation, or a queue of them, waits for
Expects(e, f) ==
  IF e.function = f /\ IsLimited(e) THEN [i \in 1..e.ttl |-> e.constraints] ELSE <<>>
Owed(q, f) ==
  LET Up[n \in 0..Len(q)] == IF n = 0 THEN <<>> ELSE Up[n - 1] \o Expects(q[n], f)
  IN  Up[Len(q)]

LastOf(f) ==
  IF HasAlways(f) THEN [how |-> "always",
                        constraints |-> queue[CHOOSE i \in For(f) : IsAlways(queue[i])].constraints]
  ELSE [how |-> IF HasNever(f) THEN "never" ELSE "none", constraints |-> <<>>]

owed    == [f \in Functions |-> Owed(queue, f)]
last    == [f \in Functions |-> LastOf(f)]
failed  == results["fail"] > 0
Repeats == [cs \in Declarable |-> Times(cs)]

Contract == INSTANCE MocksContract

(* The one queue and its bookkeeping implement a contract in which every   *)
(* function has a list of expected calls of its own, and calls of other    *)
(* functions in between make no difference (cgreen-guide-en.asciidoc:1900).*)
(* They do as long as no mocks are loose: what loose mocks are expected to *)
(* do and do not is a failure all the same (mocks.c:816), where the guide  *)
(* (1529) allows it.                                                       *)
ImplementsContract == Contract!Spec
=============================================================================
