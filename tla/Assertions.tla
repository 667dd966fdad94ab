----------------------------- MODULE Assertions -----------------------------
(***************************************************************************)
(* Checking a value in a test, in the three ways there are: an assertion   *)
(* with a constraint, an assertion of the older style, and a when() for a  *)
(* parameter of a mock (assertions.c, legacy.h, mocks.c). Between checks   *)
(* the process keeps the number of significant figures of doubles.         *)
(***************************************************************************)
EXTENDS Constraints, ParameterNames

CONSTANTS
  Checks,    \* constraints a test may write
  Actuals,   \* values it may check
  MockCalls, \* mock() calls of its mocks: [arguments, text]
  Older,     \* assertions of the older style it may use: [of, message], and the C
             \* types of their two expressions: [tried, expected]
  Figures,   \* significant figures it may ask for
  IntValues, \* how many values an int has: 2^32
  LongValues \* how many a long and an intptr_t have: 2^64

\* the integer types that C computes with
CTypes   == [values : {IntValues, LongValues}, signed : BOOLEAN]
int      == [values |-> IntValues, signed |-> TRUE]
intptr_t == [values |-> LongValues, signed |-> TRUE]

ASSUME WidthAssumption ==
  IntValues \in Nat /\ LongValues \in Nat /\ 0 < IntValues /\ IntValues < LongValues

VARIABLES
  figures,  \* significant_figures
  check,    \* the constraint and the value that the test checks, None before
  asserted, \* what assert_that() or assert_that_double() reported
  plain,    \* what the assertion of the older style reported
  mocked    \* what the mock reported

vars == <<figures, check, asserted, plain, mocked>>

NotOlder == [of |-> "none"]
None == [constraint |-> [create |-> "none"], actual |-> NULL, older |-> NotOlder]

Suits(c, actual) ==
  \/ c.create \in ValueComparers /\ actual.type = "integer"
  \/ c.create \in ContentComparers /\ actual.type \in {"bytes", "null"}
  \/ c.create \in StringComparers /\ actual.type \in {"string", "null"}
  \/ c.create \in DoubleComparers /\ actual.type = "double"

\* the constraint is not one for an assertion on such a value
Misused(c, actual) ==
  \/ ~is_comparing(c)
  \/ c.create \in Capturers
  \/ (c.create \in DoubleComparers) # (actual.type = "double")

\* r after a failure
Failing(r) == [passes |-> r.passes, fails |-> r.fails + 1, died |-> r.died]

\* what comparing the bits of another type, or following them, may give
Anything == {Reported(1, 0), Reported(0, 1), Died}
-----------------------------------------------------------------------------
(* Assertions                                                              *)

\* mutant: the type of the constraint is not looked at
Bugassert_core_(c, actual) ==
  IF ~is_comparing(c) THEN {Reported(0, 1)}
  ELSE IF c.create \in DoubleComparers THEN Anything
  ELSE IF parameters_are_not_valid_for(c, actual) THEN {Reported(0, 1)}
  ELSE {Verdict(c, figures, actual)}

\* a constraint that captures has no expected_value_name for the message
assert_core_(c, actual) ==
  IF ~is_comparing(c) THEN {Reported(0, 1)}
  ELSE IF c.create \in Capturers THEN {Died}
  ELSE IF c.create \in DoubleComparers THEN {Failing(r) : r \in Anything}
  ELSE IF parameters_are_not_valid_for(c, actual) THEN {Reported(0, 1)}
  ELSE {Verdict(c, figures, actual)}

assert_that_double_(c, actual) ==
  IF ~is_comparing(c) THEN {Reported(0, 1)}
  ELSE IF c.create \in Capturers THEN {Failing(Reported(1, 0))}
  ELSE IF c.create \notin DoubleComparers THEN {Failing(r) : r \in Anything}
  ELSE {Verdict(c, figures, actual)}

Asserted(c, actual) ==
  IF actual.type = "double" THEN assert_that_double_(c, actual) ELSE assert_core_(c, actual)

\* the constraint that says what an assertion of the older style says
Constraining ==
  [assert_true |-> "is_true", assert_false |-> "is_false",
   assert_equal |-> "is_equal_to", assert_not_equal |-> "is_not_equal_to",
   assert_string_equal |-> "is_equal_to_string", assert_string_not_equal |-> "is_not_equal_to_string",
   assert_double_equal |-> "is_equal_to_double", assert_double_not_equal |-> "is_not_equal_to_double"]

\* n converted to the type t
Convert(n, t) ==
  LET m == n % t.values IN IF t.signed /\ 2 * m >= t.values THEN m - t.values ELSE m

\* the type in which C compares values of the types t and u: of two as wide, the unsigned one
Common(t, u) ==
  LET w == Larger(t.values, u.values)
  IN  [values |-> w, signed |-> \A x \in {t, u} : x.values = w => x.signed]

\* what an expression of type t has for a value that (intptr_t) makes v of
Native(v, t)    == Convert(v.value, t)
CanBe(v, t)     == v.type = "integer" => Convert(Native(v, t), intptr_t) = v.value
SameNumber(o, v, w) ==
  LET both == Common(o.tried, o.expected)
  IN  Convert(Native(v, o.tried), both) = Convert(Native(w, o.expected), both)

\* assert_true() has an int for its parameter; assert_equal() and assert_not_equal() cast
\* to intptr_t, and with a message they compare the expressions themselves
Holds(o, actual, expected) ==
  CASE o.of = "assert_true"      -> Convert(Native(actual, o.tried), int) # 0
    [] o.of = "assert_false"     -> Native(actual, o.tried) = 0
    [] o.of = "assert_equal"     -> IF o.message THEN SameNumber(o, actual, expected) ELSE actual = expected
    [] o.of = "assert_not_equal" -> IF o.message THEN ~SameNumber(o, actual, expected) ELSE actual # expected
    [] o.of = "assert_string_equal"                 -> strings_are_equal(actual, expected)
    [] o.of = "assert_string_not_equal"             -> ~strings_are_equal(actual, expected)
    [] o.of = "assert_double_equal"                 -> doubles_are_equal(figures, actual.value, expected.value)
    [] o.of = "assert_double_not_equal" ->
         doubles_are_equal(figures, actual.value, expected.value) = o.message

Plain(o, c, actual) == IF Holds(o, actual, c.expected) THEN Reported(1, 0) ELSE Reported(0, 1)
-----------------------------------------------------------------------------
(* Mocks                                                                   *)

\* the values of m when i is checked, after convert_boxed_doubles_to_cgreen_values(): a boxed
\* double that is not marked stays a pointer
ActualValues(m, i, actual) ==
  [n \in 1..number_of_parameters_in(m.text) |->
     IF m.arguments[n].boxed # create_vector_of_double_markers_for(m.text)[n] THEN [type |-> "pointer", value |-> 0]
     ELSE IF n = i THEN actual
     ELSE [type |-> IF m.arguments[n].boxed THEN "double" ELSE "integer", value |-> 0]]

Applied(m, i, c, actual) ==
  LET names == create_vector_of_names(m.text)
      Named == {n \in DOMAIN names : names[n] = <<m.arguments[i].name>>}
      given == ActualValues(m, i, actual)
  IN  IF Named = {} THEN {Reported(0, 1)}
      ELSE IF ~(Named \subseteq DOMAIN given) THEN {Died}
      ELSE {x \in Anything \cup {Nothing} :
              \E n \in Named : Suits(c, given[n]) => x = execute(c, figures, given[n])}
-----------------------------------------------------------------------------
(* What mock() may be called with                                          *)

Punctuation == {",", " ", "box_double(", "d(", ")"}

Spelling(a) ==
  IF a.boxed THEN {<<"box_double(", a.name, ")">>}
  ELSE {<<"d(", a.name, ")">>} \cup {<<n>> : n \in {a.name} \ BoxLike}

\* the text has a word for each argument, and one comma between two words
Spells(text, arguments, first, last, comma) ==
  /\ \A k \in DOMAIN first : /\ first[k] <= last[k]
                             /\ SubSeq(text, first[k], last[k]) \in Spelling(arguments[k])
                             /\ \A j \in 1..(k - 1) : last[j] + 1 < first[k]
  /\ \A i \in DOMAIN text :
       text[i] \notin {",", " "} <=> \E k \in DOMAIN first : first[k] <= i /\ i <= last[k]
  /\ \A k \in DOMAIN comma : last[k] < comma[k] /\ comma[k] < first[k + 1]
  /\ {i \in DOMAIN text : text[i] = ","} = {comma[k] : k \in DOMAIN comma}
  /\ last[Len(arguments)] = Len(text)

\* the arguments are variables, boxed or not, each given once, and none that is not
\* boxed is called box_double...
WellSpelt(m) ==
  /\ m.text \in Seq(STRING)
  /\ m.arguments \in Seq([name : STRING, boxed : BOOLEAN]) \ {<<>>}
  /\ \A k \in DOMAIN m.arguments :
       /\ m.arguments[k].name \notin Punctuation
       /\ \A j \in DOMAIN m.arguments : m.arguments[j].name = m.arguments[k].name => j = k
  /\ \E first, last \in [DOMAIN m.arguments -> DOMAIN m.text],
        comma \in [1..(Len(m.arguments) - 1) -> DOMAIN m.text] :
       Spells(m.text, m.arguments, first, last, comma)
-----------------------------------------------------------------------------
Init ==
  /\ figures = 8
  /\ check = None
  /\ asserted = Nothing /\ plain = Nothing /\ mocked = Nothing

significant_figures_for_assert_double_are(n) ==
  check = None /\ figures' = n /\ UNCHANGED <<check, asserted, plain, mocked>>

Cleared == check' = None /\ asserted' = Nothing /\ plain' = Nothing /\ mocked' = Nothing

\* the test goes on to its next check
GoOn == check # None /\ ~asserted.died /\ Cleared /\ UNCHANGED figures

\* run_the_test_code() of the next test
NextTest == Cleared /\ figures' = 8

\* the same check written as an assertion and for a mock
CheckBoth(c, actual, m, i) ==
  /\ Suits(c, actual)
  /\ m.arguments[i].boxed = (actual.type = "double")
  /\ check' = [constraint |-> c, actual |-> actual, older |-> NotOlder]
  /\ asserted' \in Asserted(c, actual)
  /\ mocked' \in Applied(m, i, c, actual)
  /\ plain' = asserted'
  /\ UNCHANGED figures

\* and as an assertion of the older style
CheckPlain(c, actual, o) ==
  /\ Suits(c, actual) /\ c.create = Constraining[o.of]
  /\ CanBe(actual, o.tried) /\ CanBe(c.expected, o.expected)
  /\ check' = [constraint |-> c, actual |-> actual, older |-> o]
  /\ asserted' \in Asserted(c, actual)
  /\ plain' = Plain(o, c, actual)
  /\ mocked' = asserted'
  /\ UNCHANGED figures

\* an assertion with a constraint that is not for it
Misuse(c, actual) ==
  /\ Misused(c, actual)
  /\ check' = [constraint |-> c, actual |-> actual, older |-> NotOlder]
  /\ asserted' \in Asserted(c, actual)
  /\ plain' = asserted' /\ mocked' = asserted'
  /\ UNCHANGED figures

Check ==
  /\ check = None
  /\ \E c \in Checks, actual \in Actuals :
       \/ \E m \in MockCalls : \E i \in DOMAIN m.arguments : CheckBoth(c, actual, m, i)
       \/ \E o \in Older : CheckPlain(c, actual, o)
       \/ Misuse(c, actual)

Next ==
  \/ \E n \in Figures : significant_figures_for_assert_double_are(n)
  \/ Check
  \/ GoOn
  \/ NextTest

Spec == Init /\ [][Next]_vars
-----------------------------------------------------------------------------
(* What makes checks correct                                               *)

\* a mock does nothing with these
Orders == {"is_less_than", "is_greater_than", "is_less_than_double", "is_greater_than_double"}

\* what does not fit an int is cut for assert_true(); with a message an int and an
\* unsigned int are compared as two unsigned ints, and one macro has lost its negation
DoesNotSay(o, actual) ==
  \/ o.of = "assert_double_not_equal" /\ o.message
  \/ o.of = "assert_true" /\ Convert(Native(actual, o.tried), int) # Native(actual, o.tried)
  \/ /\ o.of \in {"assert_equal", "assert_not_equal"} /\ o.message
     /\ {o.tried.values, o.expected.values} = {IntValues} /\ o.tried.signed # o.expected.signed

(* However a check is written it gives the same number of passes and       *)
(* failures: assert_core_(), test_want() and the macros of legacy.h each   *)
(* decide on their own what is valid and how to compare, in which C type,  *)
(* and a mock finds its value by a name in text. Where the code differs    *)
(* from the guide the exceptions are named: a mock ignores a constraint    *)
(* that orders (constraint.c:251; cgreen-guide-en.asciidoc:1774 has the    *)
(* same constraints for mocks and assertions), and some macros compare     *)
(* other numbers than those they are given, or the wrong way (legacy.h:46, *)
(* 67, 73; guide, 3189).                                                   *)
AllWaysAgree ==
  /\ asserted = mocked \/ (check.constraint.create \in Orders /\ mocked = Nothing)
  /\ asserted = plain \/ DoesNotSay(check.older, check.actual)

(* An assertion with a constraint for doubles on another value, one for    *)
(* another value on a double, or one that belongs to expectations fails or *)
(* ends the test, whatever the bits compare to (assertions.c:30, 44, 100). *)
NoSilentMisuse ==
  check # None /\ Misused(check.constraint, check.actual) => asserted.died \/ asserted.fails > 0

Opposites ==
  {<<"is_null", "is_non_null">>, <<"is_false", "is_true">>, <<"is_equal_to", "is_not_equal_to">>,
   <<"is_equal_to_contents_of", "is_not_equal_to_contents_of">>,
   <<"is_equal_to_string", "is_not_equal_to_string">>,
   <<"contains_string", "does_not_contain_string">>,
   <<"begins_with_string", "does_not_begin_with_string">>,
   <<"ends_with_string", "does_not_end_with_string">>,
   <<"is_equal_to_double", "is_not_equal_to_double">>}

(* Of a constraint and its negation exactly one passes, or neither can be  *)
(* evaluated: NULL contents, strstr() of NULL (constraint.c:579, 728).     *)
OppositesDiffer ==
  LET c == check.constraint
  IN  \A o \in Opposites :
        c.create = o[1] /\ Suits(c, check.actual) =>
          \A r \in Asserted([c EXCEPT !.create = o[2]], check.actual) :
            \/ asserted.died /\ r.died
            \/ parameters_are_not_valid_for(c, check.actual) /\ asserted = r /\ r.fails = 1
            \/ asserted.passes + r.passes = 1 /\ asserted.fails + r.fails = 1

(* Doubles that are not equal within the significant figures are less or   *)
(* greater as they really are, and no two doubles are unequal, not less    *)
(* and not greater: the three tolerances are computed from different       *)
(* magnitudes (constraint.c:901-916).                                      *)
DoublesOrdered ==
  check.constraint.create \in DoubleComparers /\ check.actual.type = "double" =>
    LET x == check.actual.value
        e == check.constraint.expected.value
        equal   == doubles_are_equal(figures, e, x)
        less    == double_is_lesser(figures, e, x)
        greater == double_is_greater(figures, e, x)
    IN  /\ equal = doubles_are_equal(figures, x, e)
        /\ equal \/ ((less <=> x < e) /\ (greater <=> x > e))
=============================================================================
