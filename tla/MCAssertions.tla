---------------------------- MODULE MCAssertions ----------------------------
(***************************************************************************)
(* Values, constraints and mock() calls for model checking Assertions.     *)
(***************************************************************************)
EXTENDS Assertions

Integer(n) == [type |-> "integer", value |-> n]
String(s)  == [type |-> "string", value |-> s]
Bytes(b)   == [type |-> "bytes", value |-> b]
Double(d)  == [type |-> "double", value |-> d]

\* an int has three bits here and a long five: the limits of both, signed or not
Integers == {Integer(n) : n \in {-16, -8, -4, -1, 0, 1, 2, 3, 7, 8, 15}}
Strings  == {String(s) : s \in {<<>>, <<"a">>, <<"b">>, <<"a", "b">>, <<"b", "a", "b">>}} \cup {NULL}
Contents == {Bytes(b) : b \in {<<0, 0>>, <<0, 1>>, <<1, 0>>}} \cup {NULL}
\* around 0, 0.1, 1 and 10, on both sides of a power of ten
Doubles  == {Double(d) : d \in {-1001, -999, -100, -99, -1, 0, 1, 9, 10, 11, 99, 100, 101, 109, 999, 1001, 1010}}

SomeActuals == Integers \cup Strings \cup Contents \cup Doubles

Fixed(create, value) == [create |-> create, expected |-> Integer(value)]
Comparing(creates, Values) == {[create |-> k, expected |-> e] : k \in creates, e \in Values}

InMocksToo ==
  {Fixed("is_null", 0), Fixed("is_non_null", 0), Fixed("is_false", 0), Fixed("is_true", 0)}
    \cup Comparing({"is_equal_to", "is_equal_to_hex", "is_not_equal_to"}, Integers)
    \cup Comparing(StringComparers, Strings)
    \cup {[create |-> k, expected |-> e, size |-> s] : k \in ContentComparers, e \in Contents, s \in 0..2}
    \cup Comparing({"is_equal_to_double", "is_not_equal_to_double"}, Doubles)
NotForAssertions ==
  {Fixed(k, 1) : k \in Capturers \cup Returners \cup Setters \cup Effects}
Ordering ==
  Comparing({"is_less_than", "is_greater_than"}, Integers)
    \cup Comparing({"is_less_than_double", "is_greater_than_double"}, Doubles)
SomeChecks == InMocksToo \cup Ordering \cup NotForAssertions

OfIntegers == {"assert_true", "assert_false", "assert_equal", "assert_not_equal"}
OlderStyle ==
  [of : OfIntegers, message : BOOLEAN, tried : CTypes, expected : CTypes]
    \cup [of : DOMAIN Constraining \ OfIntegers, message : BOOLEAN, tried : {int}, expected : {int}]

Name(n)  == [name |-> n, boxed |-> FALSE]
Boxed(n) == [name |-> n, boxed |-> TRUE]
\* mock(p), mock(box_double(p)), mock(p, box_double(q)), mock(d(p),q ,box_double(r)),
\* mock(d(box_doubles))
SomeMockCalls ==
  {[arguments |-> <<Name("p")>>, text |-> <<"p">>],
   [arguments |-> <<Boxed("p")>>, text |-> <<"box_double(", "p", ")">>],
   [arguments |-> <<Name("p"), Boxed("q")>>, text |-> <<"p", ",", " ", "box_double(", "q", ")">>],
   [arguments |-> <<Name("p"), Name("q"), Boxed("r")>>,
    text |-> <<"d(", "p", ")", ",", "q", " ", ",", "box_double(", "r", ")">>],
   [arguments |-> <<Name("box_doubles")>>, text |-> <<"d(", "box_doubles", ")">>]}

ASSUME CallsAssumption == \A m \in MockCalls : WellSpelt(m)
=============================================================================
