----------------------------- MODULE Constraints -----------------------------
(***************************************************************************)
(* The constraints of assertions and mocks (constraint.c), by the macro    *)
(* that creates them: their type, how they compare, and what they report   *)
(* when a mock executes them. A value is [type, value]: an integer, a      *)
(* string or bytes (sequences), a double in hundredths, or NULL.           *)
(***************************************************************************)
EXTENDS Integers, Sequences

NULL == [type |-> "null", value |-> 0]

ValueComparers   == {"is_null", "is_non_null", "is_false", "is_true", "is_equal_to", "is_equal_to_hex",
                     "is_not_equal_to", "is_less_than", "is_greater_than"}
ContentComparers == {"is_equal_to_contents_of", "is_not_equal_to_contents_of"}
StringComparers  == {"is_equal_to_string", "is_not_equal_to_string", "contains_string",
                     "does_not_contain_string", "begins_with_string", "does_not_begin_with_string",
                     "ends_with_string", "does_not_end_with_string"}
DoubleComparers  == {"is_equal_to_double", "is_not_equal_to_double",
                     "is_less_than_double", "is_greater_than_double"}
Capturers        == {"will_capture_parameter"}
Returners        == {"will_return", "will_return_by_value", "will_return_double"}
Setters          == {"will_set_contents_of_output_parameter", "will_set_scalar_output_parameter"}
Effects          == {"with_side_effect"}

is_comparing(c) ==
  c.create \in ValueComparers \cup ContentComparers \cup StringComparers
                 \cup DoubleComparers \cup Capturers
-----------------------------------------------------------------------------
(* Strings and bytes                                                       *)

BeginsAt(s, i, t) == i + Len(t) - 1 <= Len(s) /\ SubSeq(s, i, i + Len(t) - 1) = t
strings_are_equal(s, t) == s = t
string_contains(s, t) ==
  s # NULL /\ t # NULL /\ \E i \in 1..(Len(s.value) + 1) : BeginsAt(s.value, i, t.value)
Begins(s, t) == BeginsAt(s.value, 1, t.value)
Ends(s, t) ==
  Len(t.value) <= Len(s.value) /\ BeginsAt(s.value, Len(s.value) - Len(t.value) + 1, t.value)
memcmp(s, t, size) == \A i \in 1..size : s.value[i] = t.value[i]
-----------------------------------------------------------------------------
(* Doubles. A difference of less than a hundredth is no difference, so an  *)
(* accuracy below one unit counts as one: d < 1 says the same of integers. *)

Magnitude(x) == IF x < 0 THEN -x ELSE x
Larger(x, y) == IF x > y THEN x ELSE y
MaxDigits    == 9 \* bound: digits of a double in hundredths
Digits(x)    == CHOOSE n \in 1..MaxDigits : 10^(n - 1) <= Magnitude(x) /\ Magnitude(x) < 10^n

ASSUME PowersAssumption == 10^0 = 1 /\ \A n \in 1..MaxDigits : 10^n = 10 * 10^(n - 1)

accuracy(figures, largest) ==
  IF largest = 0 THEN 0 ELSE 10^Larger(Digits(largest) - figures, 0)

doubles_are_equal(figures, tried, expected) ==
  \/ tried = expected
  \/ Magnitude(tried - expected) < accuracy(figures, Larger(Magnitude(tried), Magnitude(expected)))

\* mutant: the accuracy is taken off
Bugdouble_is_lesser(figures, actual, expected) ==
  expected < actual - accuracy(figures, Larger(actual, expected))
double_is_lesser(figures, actual, expected) ==
  expected < actual + accuracy(figures, Larger(actual, expected))
double_is_greater(figures, actual, expected) ==
  expected > actual - accuracy(figures, Larger(actual, expected))
-----------------------------------------------------------------------------
(* Comparing                                                               *)

parameters_are_not_valid_for(c, actual) ==
  c.create \in ContentComparers /\ (c.size <= 0 \/ actual = NULL \/ c.expected = NULL)

\* strstr() and strlen() of NULL
Crashes(c, actual) ==
  /\ c.create \in {"begins_with_string", "does_not_begin_with_string",
                   "ends_with_string", "does_not_end_with_string"}
  /\ actual = NULL \/ c.expected = NULL

\* mutant: found somewhere is found at the beginning
Bugcompare_do_not_want_beginning_of_string(c, actual) == ~string_contains(actual, c.expected)
compare_do_not_want_beginning_of_string(c, actual) == ~Begins(actual, c.expected)

\* constraint->compare, for an actual value of the constraint's type
compare(c, figures, actual) ==
  \/ c.create \in {"is_null", "is_false", "is_equal_to", "is_equal_to_hex"} /\ c.expected = actual
  \/ c.create \in {"is_non_null", "is_true", "is_not_equal_to"} /\ c.expected # actual
  \/ c.create = "is_less_than" /\ actual.value < c.expected.value
  \/ c.create = "is_greater_than" /\ actual.value > c.expected.value
  \/ c.create = "is_equal_to_contents_of" /\ memcmp(c.expected, actual, c.size)
  \/ c.create = "is_not_equal_to_contents_of" /\ ~memcmp(c.expected, actual, c.size)
  \/ c.create = "is_equal_to_string" /\ strings_are_equal(c.expected, actual)
  \/ c.create = "is_not_equal_to_string" /\ ~strings_are_equal(c.expected, actual)
  \/ c.create = "contains_string" /\ string_contains(actual, c.expected)
  \/ c.create = "does_not_contain_string" /\ ~string_contains(actual, c.expected)
  \/ c.create = "begins_with_string" /\ Begins(actual, c.expected)
  \/ c.create = "does_not_begin_with_string" /\ compare_do_not_want_beginning_of_string(c, actual)
  \/ c.create = "ends_with_string" /\ Ends(actual, c.expected)
  \/ c.create = "does_not_end_with_string" /\ ~Ends(actual, c.expected)
  \/ c.create = "is_equal_to_double" /\ doubles_are_equal(figures, c.expected.value, actual.value)
  \/ c.create = "is_not_equal_to_double" /\ ~doubles_are_equal(figures, c.expected.value, actual.value)
  \/ c.create = "is_less_than_double" /\ double_is_lesser(figures, c.expected.value, actual.value)
  \/ c.create = "is_greater_than_double" /\ double_is_greater(figures, c.expected.value, actual.value)
  \/ c.create \in Capturers

\* what a check leaves behind: results reported, or a dead process
Reported(passes, fails) == [passes |-> passes, fails |-> fails, died |-> FALSE]
Died                    == [passes |-> 0, fails |-> 0, died |-> TRUE]
Nothing                 == Reported(0, 0)
Verdict(c, figures, actual) ==
  IF Crashes(c, actual) THEN Died
  ELSE IF compare(c, figures, actual) THEN Reported(1, 0) ELSE Reported(0, 1)
-----------------------------------------------------------------------------
(* constraint->execute of the constraints that are executed for a parameter *)

test_want(c, figures, actual) ==
  IF parameters_are_not_valid_for(c, actual) THEN Reported(0, 1) ELSE Verdict(c, figures, actual)
test_want_double(c, figures, actual) == Verdict(c, figures, actual)
test_true == Nothing

execute(c, figures, actual) ==
  IF c.create \in {"is_equal_to_double", "is_not_equal_to_double"}
    THEN test_want_double(c, figures, actual)
  ELSE IF c.create \in Capturers \cup {"is_less_than", "is_greater_than",
                                       "is_less_than_double", "is_greater_than_double"}
    THEN test_true
  ELSE test_want(c, figures, actual)
=============================================================================
