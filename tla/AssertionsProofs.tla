--------------------------- MODULE AssertionsProofs ---------------------------
(***************************************************************************)
(* Theorems about the checks of a test, for any constraints and values.    *)
(***************************************************************************)
EXTENDS Assertions, SequenceTheorems, FiniteSetTheorems, FunctionTheorems, WellFoundedInduction, TLAPS

\* what is remembered of a check is what an assertion may report of it, with
\* the significant figures of that moment
Remembered ==
  check # None => /\ check.constraint \in Checks
                  /\ asserted \in Asserted(check.constraint, check.actual)

LEMMA RememberedInit == Init => Remembered
BY DEF Init, Remembered

LEMMA RememberedStep == Remembered /\ [Next]_vars => Remembered'
<1> SUFFICES ASSUME Remembered, [Next]_vars PROVE Remembered'
  OBVIOUS
<1>1. ASSUME check' = None PROVE Remembered'
  BY <1>1 DEF Remembered, None
<1>2. ASSUME UNCHANGED <<figures, check, asserted>> PROVE Remembered'
  BY <1>2 DEF Remembered, Asserted, assert_core_, assert_that_double_, None
<1>3. ASSUME NEW c \in Checks, NEW actual \in Actuals,
             NEW o, check' = [constraint |-> c, actual |-> actual, older |-> o],
             asserted' \in Asserted(c, actual), UNCHANGED figures
      PROVE  Remembered'
  <2>1. check'.constraint = c /\ check'.actual = actual
    BY <1>3
  <2>2. asserted' \in Asserted(c, actual)'
    BY <1>3 DEF Asserted, assert_core_, assert_that_double_
  <2>3. QED
    BY <2>1, <2>2 DEF Remembered
<1>4. CASE \E n \in Figures : significant_figures_for_assert_double_are(n)
  BY <1>1, <1>4 DEF significant_figures_for_assert_double_are
<1>5. CASE Check
  BY <1>3, <1>5 DEF Check, CheckBoth, CheckPlain, Misuse
<1>6. CASE GoOn \/ NextTest
  BY <1>1, <1>6 DEF GoOn, NextTest, Cleared
<1>7. CASE UNCHANGED vars
  BY <1>2, <1>7 DEF vars
<1>8. QED
  BY <1>4, <1>5, <1>6, <1>7 DEF Next
-----------------------------------------------------------------------------
(* Misuse                                                                  *)

LEMMA MisuseFails ==
  ASSUME NEW c, NEW actual, Misused(c, actual), NEW r \in Asserted(c, actual)
  PROVE  r.died \/ r.fails > 0
<1>1. \A a \in Anything : Failing(a).fails > 0
  BY DEF Anything, Failing, Reported, Died
<1>2. Died.died /\ Reported(0, 1).fails > 0 /\ Failing(Reported(1, 0)).fails > 0
  BY DEF Died, Failing, Reported
<1>3. CASE actual.type = "double"
  BY <1>1, <1>2, <1>3 DEF Misused, Asserted, assert_that_double_
<1>4. CASE actual.type # "double"
  BY <1>1, <1>2, <1>4 DEF Misused, Asserted, assert_core_
<1>5. QED
  BY <1>3, <1>4

(* Whatever bits a value of one type has where another is read, an         *)
(* assertion of a constraint for doubles on another value, of one for      *)
(* another value on a double, of one that captures or of one that compares *)
(* nothing fails or ends the test (assertions.c:30, 44, 100).              *)
THEOREM MisuseIsNeverSilent == Spec => []NoSilentMisuse
<1>1. Remembered /\ [Next]_vars => Remembered'
  BY RememberedStep
<1>2. Remembered => NoSilentMisuse
  BY MisuseFails DEF Remembered, NoSilentMisuse
<1>3. QED
  BY <1>1, <1>2, RememberedInit, PTL DEF Spec
-----------------------------------------------------------------------------
(* Negations                                                               *)

(* A constraint is a record of its creator, an expected value and, for     *)
(* contents, a size (constraint.h:27).                                     *)
IsConstraint(c) ==
  /\ c = [x \in DOMAIN c |-> c[x]]
  /\ {"create", "expected"} \subseteq DOMAIN c
  /\ c.create \in ContentComparers => "size" \in DOMAIN c
ChecksAreRecords == \A c \in Checks : IsConstraint(c)

LEMMA Negation ==
  ASSUME NEW c, IsConstraint(c),
         NEW o \in Opposites, c.create = o[1], NEW d, d = [c EXCEPT !.create = o[2]],
         NEW actual
  PROVE  /\ d.create = o[2]
         /\ compare(d, figures, actual) <=> ~compare(c, figures, actual)
         /\ Crashes(d, actual) <=> Crashes(c, actual)
         /\ parameters_are_not_valid_for(d, actual) <=> parameters_are_not_valid_for(c, actual)
<1>1. /\ d.create = o[2] /\ d.expected = c.expected
      /\ c.create \in ContentComparers => d.size = c.size
  BY DEF IsConstraint
<1>2. Crashes(d, actual) <=> Crashes(c, actual)
  BY <1>1 DEF Opposites, Crashes
<1>3. parameters_are_not_valid_for(d, actual) <=> parameters_are_not_valid_for(c, actual)
  BY <1>1 DEF Opposites, parameters_are_not_valid_for, ContentComparers
<1>4. compare(d, figures, actual) <=> ~compare(c, figures, actual)
  BY <1>1 DEF Opposites, compare, Capturers, ContentComparers, compare_do_not_want_beginning_of_string
<1>5. QED
  BY <1>1, <1>2, <1>3, <1>4

LEMMA OneVerdict ==
  ASSUME NEW c, NEW o \in Opposites, c.create \in {o[1], o[2]},
         NEW actual, Suits([create |-> o[1]], actual)
  PROVE  Asserted(c, actual) =
           {IF parameters_are_not_valid_for(c, actual) THEN Reported(0, 1)
            ELSE Verdict(c, figures, actual)}
<1>1. /\ is_comparing(c) /\ c.create \notin Capturers
      /\ c.create \in DoubleComparers <=> actual.type = "double"
      /\ actual.type = "double" => ~parameters_are_not_valid_for(c, actual)
  BY DEF Opposites, Suits, is_comparing, Capturers, ValueComparers, ContentComparers,
         StringComparers, DoubleComparers, parameters_are_not_valid_for
<1>2. QED
  BY <1>1 DEF Asserted, assert_core_, assert_that_double_

(* Of a constraint and its negation exactly one passes, or neither can be  *)
(* evaluated, for all values, sizes and significant figures                *)
(* (constraint.c:579, 728).                                                *)
THEOREM NegationsDiffer == ASSUME ChecksAreRecords PROVE Spec => []OppositesDiffer
<1>1. Remembered /\ [Next]_vars => Remembered'
  BY RememberedStep
<1>2. ASSUME Remembered PROVE OppositesDiffer
  <2> DEFINE c == check.constraint
  <2> SUFFICES ASSUME NEW o \in Opposites, c.create = o[1], Suits(c, check.actual),
                      NEW r \in Asserted([c EXCEPT !.create = o[2]], check.actual)
               PROVE  \/ asserted.died /\ r.died
                      \/ /\ parameters_are_not_valid_for(c, check.actual)
                         /\ asserted = r /\ r.fails = 1
                      \/ asserted.passes + r.passes = 1 /\ asserted.fails + r.fails = 1
    BY DEF OppositesDiffer
  <2> DEFINE d == [c EXCEPT !.create = o[2]]
             actual == check.actual
  <2>1. check # None
    BY DEF None, Opposites
  <2>2. c \in Checks /\ asserted \in Asserted(c, actual)
    BY <1>2, <2>1 DEF Remembered
  <2>3. IsConstraint(c)
    BY <2>2 DEF ChecksAreRecords
  <2>4. /\ d.create = o[2]
        /\ compare(d, figures, actual) <=> ~compare(c, figures, actual)
        /\ Crashes(d, actual) <=> Crashes(c, actual)
        /\ parameters_are_not_valid_for(d, actual) <=> parameters_are_not_valid_for(c, actual)
    BY <2>3, Negation
  <2>5. Suits([create |-> o[1]], actual)
    BY DEF Suits
  <2>6. asserted = IF parameters_are_not_valid_for(c, actual) THEN Reported(0, 1)
                   ELSE Verdict(c, figures, actual)
    BY <2>2, <2>5, OneVerdict
  <2>7. r = IF parameters_are_not_valid_for(d, actual) THEN Reported(0, 1)
            ELSE Verdict(d, figures, actual)
    <3>1. r \in Asserted(d, actual)
      OBVIOUS
    <3>2. d.create \in {o[1], o[2]}
      BY <2>4
    <3> HIDE DEF d, actual
    <3>3. Asserted(d, actual) =
            {IF parameters_are_not_valid_for(d, actual) THEN Reported(0, 1)
             ELSE Verdict(d, figures, actual)}
      BY <2>5, <3>2, OneVerdict
    <3>4. QED
      BY <3>1, <3>3
  <2> HIDE DEF c, d, actual
  <2>8. CASE parameters_are_not_valid_for(c, actual)
    BY <2>4, <2>6, <2>7, <2>8 DEF Reported, c, actual
  <2>9. CASE ~parameters_are_not_valid_for(c, actual)
    BY <2>4, <2>6, <2>7, <2>9 DEF Reported, Died, Verdict
  <2>10. QED
    BY <2>8, <2>9
<1>3. QED
  BY <1>1, <1>2, RememberedInit, PTL DEF Spec
-----------------------------------------------------------------------------
(* The names in the text of mock()                                         *)

\* a set of numbers that is not empty has a least one
LEMMA LeastNumber ==
  ASSUME NEW I, I \subseteq Nat, I # {}
  PROVE  \E i \in I : \A j \in I : i <= j
<1> DEFINE Before == {p \in Nat \X Nat : p[1] < p[2]}
<1>1. IsWellFoundedOn(Before, Nat)
  BY NatLessThanWellFounded DEF OpToRel
<1> HIDE DEF Before
<1>2. PICK x \in I : \A y \in I : ~ (<<y, x>> \in Before)
  BY <1>1, WFMin
<1>3. ASSUME NEW y \in I, y < x PROVE FALSE
  <2>1. <<y, x>> \in Nat \X Nat
    OBVIOUS
  <2>2. <<y, x>> \in Before
    BY <1>3, <2>1 DEF Before
  <2>3. QED
    BY <1>2, <2>2
<1>4. QED
  BY <1>3

Ascends(s) == \A i, j \in DOMAIN s : i < j => s[i] < s[j]

Enumerates(s, n, W) ==
  s \in [1..n -> W] /\ Ascends(s) /\ \A w \in W : \E k \in 1..n : s[k] = w

\* numbers can be put in order in one way only
LEMMA OrderIsUnique ==
  ASSUME NEW n \in Nat, NEW W, W \subseteq Nat,
         NEW p, NEW q, Enumerates(p, n, W), Enumerates(q, n, W)
  PROVE  p = q
<1> SUFFICES ASSUME NEW s \in [1..n -> W], NEW t \in [1..n -> W], s # t,
                    Ascends(s), Ascends(t),
                    \A w \in W : \E k \in 1..n : s[k] = w,
                    \A w \in W : \E k \in 1..n : t[k] = w
             PROVE  FALSE
  BY DEF Enumerates
<1> DEFINE Differ == {k \in 1..n : s[k] # t[k]}
<1>1. PICK k \in Differ : \A j \in Differ : k <= j
  <2>1. Differ \subseteq Nat /\ Differ # {}
    OBVIOUS
  <2> HIDE DEF Differ
  <2>2. QED
    BY <2>1, LeastNumber
<1>2. \A j \in 1..n : j < k => s[j] = t[j]
  BY <1>1
<1>3. PICK i \in 1..n : t[i] = s[k]
  BY <1>1
<1>4. PICK j \in 1..n : s[j] = t[k]
  BY <1>1
<1>5. k \in 1..n /\ s[k] # t[k] /\ s[k] \in Nat /\ t[k] \in Nat
  BY <1>1
<1>6. i # k /\ j # k
  BY <1>3, <1>4, <1>5
<1>7. /\ \A a, b \in 1..n : a < b => s[a] < s[b]
      /\ \A a, b \in 1..n : a < b => t[a] < t[b]
  BY DEF Ascends
<1>8. ~(i < k)
  BY <1>2, <1>3, <1>5, <1>7
<1>9. ~(j < k)
  BY <1>2, <1>4, <1>5, <1>7
<1>10. t[k] < t[i] /\ s[k] < s[j]
  BY <1>5, <1>6, <1>7, <1>8, <1>9
<1>11. QED
  BY <1>3, <1>4, <1>5, <1>10

LEMMA Apart ==
  ASSUME NEW a \in Int, NEW b \in Int, NEW c \in Int, NEW d \in Int, a <= b, c <= d,
         b + 1 < c \/ d + 1 < a
  PROVE  ~(c <= a - 1 /\ a - 1 <= d) /\ ~(c <= b + 1 /\ b + 1 <= d)
OBVIOUS

\* the words of a text, where they are known to be
LEMMA EndOfWord ==
  ASSUME NEW text \in Seq(STRING), NEW a \in 1..Len(text), NEW b \in a..Len(text),
         \A i \in a..b : text[i] \notin Separators,
         b = Len(text) \/ text[b + 1] \in Separators
  PROVE  WordEnd(text, a) = b
<1> DEFINE IsEnd(j) == /\ \A i \in a..j : text[i] \notin Separators
                       /\ j = Len(text) \/ text[j + 1] \in Separators
<1>1. ASSUME NEW j \in a..Len(text), IsEnd(j), j < b PROVE FALSE
  <2>1. j + 1 \in a..b /\ j # Len(text)
    BY <1>1
  <2>2. QED
    BY <1>1, <2>1
<1>2. ASSUME NEW j \in a..Len(text), IsEnd(j), j > b PROVE FALSE
  <2>1. b + 1 \in a..j /\ b # Len(text)
    BY <1>2
  <2>2. QED
    BY <1>2, <2>1
<1>3. WordEnd(text, a) = CHOOSE j \in a..Len(text) : IsEnd(j)
  BY DEF WordEnd
<1>4. IsEnd(b)
  OBVIOUS
<1> HIDE DEF IsEnd
<1>5. \A j \in a..Len(text) : IsEnd(j) => j = b
  BY <1>1, <1>2
<1>6. QED
  BY <1>3, <1>4, <1>5

LEMMA WordsAre ==
  ASSUME NEW text \in Seq(STRING), NEW n \in Nat \ {0},
         NEW first \in [1..n -> Nat], NEW last \in [1..n -> Nat],
         \A k \in 1..n : first[k] \in 1..Len(text) /\ last[k] \in 1..Len(text),
         \A k \in 1..n : first[k] <= last[k] /\ \A j \in 1..(k - 1) : last[j] + 1 < first[k],
         \A i \in DOMAIN text :
           text[i] \notin Separators <=> \E k \in 1..n : first[k] <= i /\ i <= last[k],
         last[n] = Len(text)
  PROVE  /\ Starts(text) = first
         /\ \A k \in 1..n : WordEnd(text, first[k]) = last[k]
         /\ text # <<>> /\ text[Len(text)] \notin Separators
<1>0. Len(text) \in Nat /\ n \in Nat
  OBVIOUS
<1>1. \A k \in 1..n : first[k] \in 1..Len(text) /\ last[k] \in 1..Len(text)
  OBVIOUS
<1>2. \A i \in 1..Len(text) :
        text[i] \notin Separators <=> \E k \in 1..n : first[k] <= i /\ i <= last[k]
  OBVIOUS
<1>3. \A j, k \in 1..n : j < k => last[j] + 1 < first[k]
  OBVIOUS
<1>4. Words(text) = {first[k] : k \in 1..n}
  <2>1. ASSUME NEW i \in 1..Len(text), IsWordAt(text, i) PROVE \E k \in 1..n : i = first[k]
    <3>1. PICK k \in 1..n : first[k] <= i /\ i <= last[k]
      BY <1>2, <2>1 DEF IsWordAt
    <3>2. /\ first[k] \in Int /\ last[k] \in Int /\ i \in Int /\ 1 <= first[k]
      BY <1>1
    <3>3. i = 1 \/ ~(first[k] <= i - 1 /\ i - 1 <= last[k])
      <4>1. ASSUME i # 1 PROVE i - 1 \in 1..Len(text) /\ text[i - 1] \in Separators
        BY <2>1, <4>1 DEF IsWordAt
      <4>2. QED
        BY <1>2, <4>1
    <3>4. i = first[k]
      BY ONLY <3>1, <3>2, <3>3
    <3>5. QED
      BY <3>4
  <2>2. ASSUME NEW k \in 1..n PROVE IsWordAt(text, first[k])
    <3>1. text[first[k]] \notin Separators
      BY <1>1, <1>2
    <3>2. ASSUME first[k] # 1, text[first[k] - 1] \notin Separators PROVE FALSE
      <4>0. first[k] - 1 \in 1..Len(text)
        BY ONLY <1>0, <1>1, <3>2, k \in 1..n
      <4>1. PICK m \in 1..n : first[m] <= first[k] - 1 /\ first[k] - 1 <= last[m]
        BY <1>2, <3>2, <4>0
      <4>2. /\ first[k] \in Int /\ last[k] \in Int /\ first[m] \in Int /\ last[m] \in Int
            /\ first[k] <= last[k] /\ first[m] <= last[m]
        BY <1>1
      <4>3. CASE m = k
        BY ONLY <4>1, <4>2, <4>3
      <4>4. CASE m # k
        <5>1. last[m] + 1 < first[k] \/ last[k] + 1 < first[m]
          BY <1>3, <4>4
        <5>2. QED
          BY ONLY <4>1, <4>2, <5>1, Apart
      <4>5. QED
        BY <4>3, <4>4
    <3>3. QED
      BY <3>1, <3>2 DEF IsWordAt
  <2>3. DOMAIN text = 1..Len(text)
    OBVIOUS
  <2>4. \A i : i \in Words(text) <=> i \in 1..Len(text) /\ IsWordAt(text, i)
    BY ONLY <2>3, Zenon DEF Words
  <2>5. \A i : i \in Words(text) <=> \E k \in 1..n : i = first[k]
    BY ONLY <1>1, <2>1, <2>2, <2>4, Zenon
  <2>6. QED
    BY ONLY <2>5, Zenon
<1>5. Ascends(first) /\ \A j, k \in 1..n : j < k => first[j] < first[k]
  <2> SUFFICES ASSUME NEW j \in 1..n, NEW k \in 1..n, j < k PROVE first[j] < first[k]
    BY DEF Ascends
  <2>1. /\ first[j] \in Int /\ last[j] \in Int /\ first[k] \in Int
        /\ first[j] <= last[j] /\ last[j] + 1 < first[k]
    BY <1>1, <1>3
  <2>2. QED
    BY ONLY <2>1
<1>6. /\ first \in [1..n -> Words(text)]
      /\ \A w \in Words(text) : \E k \in 1..n : first[k] = w
      /\ \A j, k \in 1..n : first[j] = first[k] => j = k
  <2>1. \A j, k \in 1..n : first[j] = first[k] => j = k
    <3> SUFFICES ASSUME NEW j \in 1..n, NEW k \in 1..n, first[j] = first[k], j < k PROVE FALSE
      OBVIOUS
    <3>1. first[j] < first[k] /\ first[j] \in Int
      BY <1>1, <1>5
    <3>2. QED
      BY ONLY <3>1, first[j] = first[k]
  <2>2. QED
    BY <1>4, <2>1
<1>7. IsFiniteSet(Words(text)) /\ Cardinality(Words(text)) = n
  <2>1. first \in Bijection(1..n, Words(text))
    BY <1>6, Fun_IsBij
  <2>2. IsFiniteSet(1..n) /\ Cardinality(1..n) = n
    BY FS_Interval
  <2>3. QED
    BY <2>1, <2>2, FS_Bijection DEF ExistsBijection
<1>8. Starts(text) = first
  <2> DEFINE s == Starts(text)
  <2>1. s \in [1..n -> Words(text)] /\ \A i, j \in DOMAIN s : i < j => s[i] < s[j]
    BY <1>5, <1>6, <1>7 DEF Starts, Ascends
  <2> HIDE DEF s
  <2>2. Ascends(s)
    BY <2>1 DEF Ascends
  <2>3. Words(text) \subseteq Nat
    BY DEF Words
  <2>4. \A j, k \in 1..n : s[j] = s[k] => j = k
    <3> SUFFICES ASSUME NEW j \in 1..n, NEW k \in 1..n, s[j] = s[k], j < k PROVE FALSE
      OBVIOUS
    <3>1. QED
      BY <2>1, <2>3
  <2>5. s \in Injection(1..n, Words(text))
    BY <2>1, <2>4, Fun_IsInj
  <2>6. s \in Surjection(1..n, Words(text))
    BY <1>7, <2>5, FS_Injection, FS_Interval
  <2>7. \A w \in Words(text) : \E k \in 1..n : s[k] = w
    BY <2>6 DEF Surjection
  <2>8. QED
    <3> DEFINE W == Words(text)
    <3> HIDE DEF W
    <3>1. n \in Nat /\ W \subseteq Nat
      BY <2>3 DEF W
    <3>2. Enumerates(s, n, W)
      BY <2>1, <2>2, <2>7 DEF Enumerates, W
    <3>3. Enumerates(first, n, W)
      BY <1>5, <1>6 DEF Enumerates, W
    <3>4. s = first
      BY ONLY <3>1, <3>2, <3>3, OrderIsUnique, Zenon
    <3>5. QED
      BY <3>4 DEF s
<1>9. ASSUME NEW k \in 1..n PROVE WordEnd(text, first[k]) = last[k]
  <2>1. last[k] \in first[k]..Len(text)
    BY <1>1
  <2>2. \A i \in first[k]..last[k] : text[i] \notin Separators
    BY <1>1, <1>2
  <2>3. ASSUME last[k] # Len(text), text[last[k] + 1] \notin Separators PROVE FALSE
    <3>1. last[k] + 1 \in 1..Len(text)
      BY ONLY <1>0, <1>1, <2>3, k \in 1..n
    <3>2. PICK m \in 1..n : first[m] <= last[k] + 1 /\ last[k] + 1 <= last[m]
      BY <1>2, <2>3, <3>1
    <3>3. /\ first[k] \in Int /\ last[k] \in Int /\ first[m] \in Int /\ last[m] \in Int
          /\ first[k] <= last[k] /\ first[m] <= last[m]
      BY <1>1
    <3>4. CASE m = k
      BY ONLY <3>2, <3>3, <3>4
    <3>5. CASE m # k
      <4>1. last[m] + 1 < first[k] \/ last[k] + 1 < first[m]
        BY <1>3, <3>5
      <4>2. QED
        BY ONLY <3>2, <3>3, <4>1, Apart
    <3>6. QED
      BY <3>4, <3>5
  <2>4. QED
    BY <1>1, <2>1, <2>2, <2>3, EndOfWord
<1>10. text # <<>> /\ text[Len(text)] \notin Separators
  <2>1. last[n] = Len(text) /\ last[n] \in 1..Len(text) /\ first[n] <= last[n]
    BY <1>1
  <2>2. QED
    BY <1>2, <2>1
<1>11. QED
  BY <1>8, <1>9, <1>10

LEMMA Triple ==
  ASSUME NEW x, NEW y, NEW z
  PROVE  /\ Len(<<x, y, z>>) >= 2 /\ ~(Len(<<y>>) >= 2)
         /\ <<x, y, z>>[1] = x /\ <<x, y, z>>[Len(<<x, y, z>>)] = z
         /\ SubSeq(<<x, y, z>>, 2, Len(<<x, y, z>>) - 1) = <<y>>
         /\ <<x, y, z>> # <<>> /\ <<y>> # <<>> /\ <<y>>[1] = y
<1>1. Len(<<x, y, z>>) = 3 /\ Len(<<y>>) = 1 /\ <<x, y, z>>[3] = z
  OBVIOUS
<1>2. SubSeq(<<x, y, z>>, 2, 2) = <<y>>
  <2> DEFINE s == <<x, y, z>>
  <2>1. SubSeq(s, 2, 2) = [i \in 1..1 |-> s[i + 1]]
    BY DEF SubSeq
  <2>2. \A i \in 1..1 : s[i + 1] = y
    OBVIOUS
  <2>3. <<y>> = [i \in 1..1 |-> y]
    OBVIOUS
  <2> HIDE DEF s
  <2>4. SubSeq(s, 2, 2) = <<y>>
    BY <2>1, <2>2, <2>3
  <2>5. QED
    BY <2>4 DEF s
<1>3. <<x, y, z>> # <<>> /\ <<y>> # <<>>
  OBVIOUS
<1>4. QED
  BY <1>1, <1>2, <1>3

LEMMA Stripped ==
  ASSUME NEW f, NEW y
  PROVE  strip_function_from(<<f, y, ")">>, f) = <<y>>
<1> SUFFICES ASSUME NEW z, z = ")" PROVE strip_function_from(<<f, y, z>>, f) = <<y>>
  BY Zenon
<1> DEFINE s == <<f, y, z>>
<1>1. s[1] = f /\ s[Len(s)] = z /\ Len(s) >= 2 /\ SubSeq(s, 2, Len(s) - 1) = <<y>>
  BY ONLY Triple
<1> HIDE DEF s
<1>2. strip_function_from(s, f) = <<y>>
  BY <1>1, z = ")", Zenon DEF strip_function_from
<1>3. QED
  BY <1>2, Zenon DEF s

LEMMA WordIsRead ==
  ASSUME NEW a \in [name : STRING, boxed : BOOLEAN],
         a.name \notin Punctuation, NEW word \in Spelling(a)
  PROVE  /\ strip_function_from(strip_function_from(word, "box_double("), "d(") = <<a.name>>
         /\ (word # <<>> /\ word[1] \in {"box_double("} \cup BoxLike) = a.boxed
<1> DEFINE wrapped == <<"box_double(", a.name, ")">>
           short   == <<"d(", a.name, ")">>
           bare    == <<a.name>>
<1>1. /\ wrapped # <<>> /\ wrapped[1] = "box_double("
      /\ short # <<>> /\ short[1] = "d(" /\ bare # <<>> /\ bare[1] = a.name
  BY Triple, Zenon
<1>2. /\ strip_function_from(wrapped, "box_double(") = bare
      /\ strip_function_from(short, "d(") = bare
  BY Stripped, Zenon
<1>3. strip_function_from(short, "box_double(") = short
  BY <1>1, Zenon DEF strip_function_from
<1>4. strip_function_from(bare, "box_double(") = bare /\ strip_function_from(bare, "d(") = bare
  BY Triple, Zenon DEF strip_function_from
<1> HIDE DEF wrapped, short, bare
<1>5. CASE a.boxed
  <2>1. word = wrapped
    BY <1>5, Zenon DEF Spelling, wrapped
  <2>2. QED
    BY <1>1, <1>2, <1>4, <1>5, <2>1, Zenon DEF bare
<1>6. CASE ~a.boxed
  <2>1. word = bare \/ word = short
    BY <1>6, Zenon DEF Spelling, bare, short
  <2>2. bare[1] # "box_double(" /\ short[1] # "box_double("
    BY <1>1, Zenon DEF Punctuation
  <2>a. word = bare => a.name \notin BoxLike
    <3>1. word = short \/ \E n \in {a.name} \ BoxLike : word = <<n>>
      BY <1>6, Zenon DEF Spelling, short
    <3>2. short[1] \notin BoxLike
      BY <1>1, BoxLikeAssumption
    <3>3. CASE word = short
      BY <1>1, <3>2, <3>3
    <3>4. CASE \E n \in {a.name} \ BoxLike : word = <<n>>
      BY <3>4
    <3>5. QED
      BY <3>1, <3>3, <3>4
  <2>b. short[1] \notin BoxLike
    BY <1>1, BoxLikeAssumption
  <2>3. word[1] \notin {"box_double("} \cup BoxLike
    BY <1>1, <2>1, <2>2, <2>a, <2>b
  <2>4. strip_function_from(strip_function_from(word, "box_double("), "d(") = <<a.name>>
    BY <1>2, <1>3, <1>4, <2>1, Zenon DEF bare
  <2>5. QED
    BY <1>6, <2>3, <2>4, Zenon
<1>7. QED
  BY <1>5, <1>6, Zenon

LEMMA Items ==
  ASSUME NEW T, NEW q \in Seq(T), q # <<>>
  PROVE  Len(q) \in Nat \ {0} /\ DOMAIN q = 1..Len(q) /\ \A k \in 1..Len(q) : q[k] \in T
OBVIOUS

\* commas between the words
LEMMA CommasAreCounted ==
  ASSUME NEW n \in Nat \ {0}, NEW first \in [1..n -> Nat], NEW last \in [1..n -> Nat],
         NEW comma \in [1..(n - 1) -> Nat],
         \A k \in 1..n : first[k] <= last[k] /\ \A j \in 1..(k - 1) : last[j] + 1 < first[k],
         \A k \in 1..(n - 1) : last[k] < comma[k] /\ comma[k] < first[k + 1]
  PROVE  Cardinality({comma[k] : k \in 1..(n - 1)}) = n - 1
<1> DEFINE Commas == {comma[k] : k \in 1..(n - 1)}
<1>1. \A j, k \in 1..(n - 1) : comma[j] = comma[k] => j = k
  <2> SUFFICES ASSUME NEW j \in 1..(n - 1), NEW k \in 1..(n - 1), comma[j] = comma[k], j < k
               PROVE  FALSE
    OBVIOUS
  <2> DEFINE between == comma[j]
             start   == first[j + 1]
             end     == last[j + 1]
             later   == first[k]
             final   == last[k]
  <2>1. /\ between \in Nat /\ start \in Nat /\ end \in Nat /\ later \in Nat /\ final \in Nat
        /\ between < start /\ start <= end /\ later <= final /\ final < comma[k]
        /\ comma[k] = between
    OBVIOUS
  <2>2. j + 1 = k \/ j + 1 \in 1..(k - 1)
    OBVIOUS
  <2>3. end = final \/ end + 1 < later
    BY <2>2
  <2> HIDE DEF between, start, end, later, final
  <2>4. QED
    BY ONLY <2>1, <2>3
<1>2. comma \in [1..(n - 1) -> Commas] /\ \A w \in Commas : \E k \in 1..(n - 1) : comma[k] = w
  OBVIOUS
<1> HIDE DEF Commas
<1>3. comma \in Bijection(1..(n - 1), Commas)
  BY <1>1, <1>2, Fun_IsBij
<1>4. IsFiniteSet(1..(n - 1)) /\ Cardinality(1..(n - 1)) = n - 1
  BY FS_Interval
<1>5. Cardinality(Commas) = n - 1
  BY <1>3, <1>4, FS_Bijection DEF ExistsBijection
<1>6. QED
  BY <1>5 DEF Commas

\* the names, the marks and the number that a mock reads are those of the arguments
LEMMA CallIsRead ==
  ASSUME NEW m, WellSpelt(m)
  PROVE  LET names == create_vector_of_names(m.text)
             marks == create_vector_of_double_markers_for(m.text)
         IN  /\ DOMAIN names = DOMAIN m.arguments
             /\ \A k \in DOMAIN m.arguments : /\ names[k] = <<m.arguments[k].name>>
                                             /\ marks[k] = m.arguments[k].boxed
             /\ DOMAIN m.arguments = 1..number_of_parameters_in(m.text)
<1> DEFINE text == m.text
           n    == Len(m.arguments)
           commas == {i \in DOMAIN text : text[i] = ","}
<1>1. /\ text \in Seq(STRING) /\ n \in Nat \ {0} /\ DOMAIN m.arguments = 1..n
      /\ \A k \in 1..n : /\ m.arguments[k] \in [name : STRING, boxed : BOOLEAN]
                         /\ m.arguments[k].name \notin Punctuation
  <2>1. m.arguments \in Seq([name : STRING, boxed : BOOLEAN]) /\ m.arguments # <<>>
    BY DEF WellSpelt
  <2>2. /\ n \in Nat \ {0} /\ DOMAIN m.arguments = 1..n
        /\ \A k \in 1..n : m.arguments[k] \in [name : STRING, boxed : BOOLEAN]
    BY ONLY <2>1, Items, Zenon
  <2>3. text \in Seq(STRING) /\ \A k \in DOMAIN m.arguments : m.arguments[k].name \notin Punctuation
    BY Zenon DEF WellSpelt
  <2>4. QED
    BY <2>2, <2>3, Zenon
<1>2. PICK first \in [1..n -> DOMAIN text], last \in [1..n -> DOMAIN text],
           comma \in [1..(n - 1) -> DOMAIN text] :
        Spells(text, m.arguments, first, last, comma)
  BY <1>1 DEF WellSpelt
<1> HIDE DEF text, n, commas
<1>3. /\ \A k \in 1..n : /\ first[k] <= last[k]
                         /\ SubSeq(text, first[k], last[k]) \in Spelling(m.arguments[k])
                         /\ \A j \in 1..(k - 1) : last[j] + 1 < first[k]
      /\ \A i \in DOMAIN text :
           text[i] \notin Separators <=> \E k \in 1..n : first[k] <= i /\ i <= last[k]
      /\ \A k \in 1..(n - 1) : last[k] < comma[k] /\ comma[k] < first[k + 1]
      /\ commas = {comma[k] : k \in 1..(n - 1)}
      /\ last[n] = Len(text)
  BY <1>2, Zenon DEF Spells, n, commas, Separators
<1>4. /\ Starts(text) = first
      /\ \A k \in 1..n : WordEnd(text, first[k]) = last[k]
      /\ text # <<>> /\ text[Len(text)] \notin Separators
  <2>1. DOMAIN text = 1..Len(text) /\ DOMAIN text \subseteq Nat
    BY <1>1
  <2>2. \A k \in 1..n : first[k] \in 1..Len(text) /\ last[k] \in 1..Len(text)
    BY <2>1, Zenon
  <2>3. first \in [1..n -> Nat] /\ last \in [1..n -> Nat]
    BY <2>1, Zenon
  <2>4. QED
    BY ONLY <1>1, <1>3, <2>2, <2>3, WordsAre, Zenon
<1>5. Tokens(text) = [k \in 1..n |-> SubSeq(text, first[k], last[k])]
  BY <1>4 DEF Tokens
<1>6. number_of_parameters_in(text) = n
  <2>1. /\ first \in [1..n -> Nat] /\ last \in [1..n -> Nat]
        /\ comma \in [1..(n - 1) -> Nat]
    BY <1>1
  <2>2. Cardinality({comma[k] : k \in 1..(n - 1)}) = n - 1
    <3>1. /\ \A k \in 1..n : first[k] <= last[k] /\ \A j \in 1..(k - 1) : last[j] + 1 < first[k]
          /\ \A k \in 1..(n - 1) : last[k] < comma[k] /\ comma[k] < first[k + 1]
          /\ n \in Nat \ {0}
      BY ONLY <1>1, <1>3, Zenon
    <3>2. QED
      BY ONLY <2>1, <3>1, CommasAreCounted, Zenon
  <2>3. number_of_parameters_in(text) = 1 + Cardinality(commas)
    BY <1>4, Zenon DEF number_of_parameters_in, commas
  <2>4. QED
    BY <1>1, <1>3, <2>2, <2>3
<1>7. ASSUME NEW k \in 1..n
      PROVE  /\ create_vector_of_names(text)[k] = <<m.arguments[k].name>>
             /\ create_vector_of_double_markers_for(text)[k] = m.arguments[k].boxed
  <2> DEFINE word == Tokens(text)[k]
  <2>1. word \in Spelling(m.arguments[k]) /\ k \in DOMAIN Tokens(text)
    BY <1>3, <1>5
  <2>2. /\ create_vector_of_names(text)[k] =
             strip_function_from(strip_function_from(word, "box_double("), "d(")
        /\ create_vector_of_double_markers_for(text)[k] =
             (word # <<>> /\ word[1] \in {"box_double("} \cup BoxLike)
    BY <2>1, Zenon DEF create_vector_of_names, create_vector_of_double_markers_for
  <2> HIDE DEF word
  <2>3. QED
    BY <1>1, <2>1, <2>2, WordIsRead, Zenon
<1>8. DOMAIN create_vector_of_names(text) = 1..n
  BY <1>5 DEF create_vector_of_names
<1>9. QED
  BY <1>1, <1>6, <1>7, <1>8 DEF text

CallsAreWellSpelt == \A m \in MockCalls : WellSpelt(m)

-----------------------------------------------------------------------------
(* Assertions, mocks and the older style                                   *)

DoublesAreNumbers ==
  /\ \A c \in Checks : c.create \in DoubleComparers => c.expected.value \in Int
  /\ \A actual \in Actuals : actual.type = "double" => actual.value \in Int

\* assertions of the older style, with the C types of what they are given
OlderStyle ==
  Older \subseteq [of : DOMAIN Constraining, message : BOOLEAN, tried : CTypes, expected : CTypes]

\* constraints that compare integers are given integers
IntegersAreNumbers ==
  /\ \A c \in Checks : c.create \in ValueComparers => c.expected \in [type : {"integer"}, value : Int]
  /\ \A c \in Checks : c.create \in {"is_true", "is_false"} => c.expected.value = 0
  /\ \A actual \in Actuals : actual.type = "integer" => actual \in [type : {"integer"}, value : Int]

LEMMA EqualEitherWay ==
  ASSUME NEW x \in Int, NEW y \in Int
  PROVE  doubles_are_equal(figures, x, y) <=> doubles_are_equal(figures, y, x)
<1>1. Magnitude(x - y) = Magnitude(y - x)
  BY DEF Magnitude
<1>2. Larger(Magnitude(x), Magnitude(y)) = Larger(Magnitude(y), Magnitude(x))
  BY DEF Larger, Magnitude
<1>3. QED
  BY <1>1, <1>2 DEF doubles_are_equal

LEMMA OneResult ==
  ASSUME NEW c, NEW actual, Suits(c, actual)
  PROVE  Asserted(c, actual) = {test_want(c, figures, actual)}
<1>1. /\ is_comparing(c) /\ c.create \notin Capturers
      /\ c.create \in DoubleComparers <=> actual.type = "double"
      /\ actual.type = "double" => ~parameters_are_not_valid_for(c, actual)
  BY DEF Suits, is_comparing, Capturers, ValueComparers, ContentComparers,
         StringComparers, DoubleComparers, parameters_are_not_valid_for
<1>2. QED
  BY <1>1 DEF Asserted, assert_core_, assert_that_double_, test_want

LEMMA MocksWant ==
  ASSUME NEW c, NEW actual, Suits(c, actual), c.create \notin Orders
  PROVE  execute(c, figures, actual) = test_want(c, figures, actual)
<1>1. c.create \notin Capturers
  BY DEF Suits, Capturers, ValueComparers, ContentComparers, StringComparers, DoubleComparers
<1>2. c.create \in {"is_equal_to_double", "is_not_equal_to_double"} =>
        ~parameters_are_not_valid_for(c, actual)
  BY DEF parameters_are_not_valid_for, ContentComparers
<1>3. QED
  BY <1>1, <1>2 DEF Orders, execute, test_want, test_want_double

LEMMA MocksExecute ==
  ASSUME CallsAreWellSpelt, NEW m \in MockCalls, NEW i \in DOMAIN m.arguments,
         NEW c, NEW actual, Suits(c, actual),
         m.arguments[i].boxed = (actual.type = "double"),
         NEW x \in Applied(m, i, c, actual)
  PROVE  x = execute(c, figures, actual)
<1> DEFINE names == create_vector_of_names(m.text)
           Named == {n \in DOMAIN names : names[n] = <<m.arguments[i].name>>}
           given == ActualValues(m, i, actual)
<1>1. /\ Named = {i}
      /\ i \in 1..number_of_parameters_in(m.text)
      /\ create_vector_of_double_markers_for(m.text)[i] = m.arguments[i].boxed
  <2>1. WellSpelt(m)
    BY DEF CallsAreWellSpelt
  <2>2. \A k \in DOMAIN m.arguments : m.arguments[k].name = m.arguments[i].name => k = i
    BY <2>1 DEF WellSpelt
  <2>3. /\ DOMAIN names = DOMAIN m.arguments
        /\ \A k \in DOMAIN m.arguments :
             /\ names[k] = <<m.arguments[k].name>>
             /\ create_vector_of_double_markers_for(m.text)[k] = m.arguments[k].boxed
        /\ DOMAIN m.arguments = 1..number_of_parameters_in(m.text)
    BY <2>1, CallIsRead
  <2> HIDE DEF names
  <2>4. Named = {i}
    BY <2>2, <2>3
  <2>5. QED
    BY <2>3, <2>4
<1>2. DOMAIN given = 1..number_of_parameters_in(m.text) /\ given[i] = actual
  BY <1>1 DEF ActualValues
<1>3. Applied(m, i, c, actual) =
        {a \in Anything \cup {Nothing} :
           \E n \in Named : Suits(c, given[n]) => a = execute(c, figures, given[n])}
  BY <1>1, <1>2 DEF Applied
<1>4. QED
  BY <1>1, <1>2, <1>3

LEMMA MocksAgree ==
  ASSUME CallsAreWellSpelt, NEW m \in MockCalls, NEW i \in DOMAIN m.arguments,
         NEW c, NEW actual, Suits(c, actual), c.create \notin Orders,
         m.arguments[i].boxed = (actual.type = "double"),
         NEW x \in Applied(m, i, c, actual)
  PROVE  x = test_want(c, figures, actual)
BY MocksExecute, MocksWant

LEMMA MocksIgnore ==
  ASSUME CallsAreWellSpelt, NEW m \in MockCalls, NEW i \in DOMAIN m.arguments,
         NEW c, NEW actual, Suits(c, actual), c.create \in Orders,
         m.arguments[i].boxed = (actual.type = "double"),
         NEW x \in Applied(m, i, c, actual)
  PROVE  x = Nothing
BY MocksExecute DEF Orders, execute, test_true

-----------------------------------------------------------------------------
(* Numbers converted to the integer types of C                             *)

LEMMA Remainder ==
  ASSUME NEW n \in Int, NEW w \in Nat, 0 < w
  PROVE  n % w \in 0..(w - 1)
OBVIOUS

LEMMA SmallRemainder ==
  ASSUME NEW w \in Nat, NEW m \in 0..(w-1)
  PROVE  m % w = m /\ (m - w) % w = m
OBVIOUS

LEMMA ZeroStays ==
  ASSUME NEW t \in CTypes
  PROVE  Convert(0, t) = 0
<1>1. t.values \in Nat /\ 0 < t.values
  BY WidthAssumption DEF CTypes
<1>2. 0 % t.values = 0
  BY <1>1
<1>3. QED
  BY <1>1, <1>2 DEF Convert

LEMMA OneOfEach ==
  ASSUME NEW x \in Int, NEW y \in Int, NEW t \in CTypes, NEW u \in CTypes, t.values = u.values
  PROVE  Convert(x, t) = Convert(y, t) <=> Convert(x, u) = Convert(y, u)
<1> DEFINE w == t.values
           k == x % w
           l == y % w
<1>1. w \in Nat /\ 0 < w /\ u.values = w
  BY WidthAssumption DEF CTypes
<1>2. k \in 0..(w - 1) /\ l \in 0..(w - 1)
  BY <1>1, Remainder
<1> HIDE DEF w
<1>3. /\ Convert(x, t) = Convert(y, t) <=> k = l
      /\ Convert(x, u) = Convert(y, u) <=> k = l
  BY <1>1, <1>2 DEF Convert, w
<1>4. QED
  BY <1>3

LEMMA ConvertTwice ==
  ASSUME NEW x \in Int, NEW t \in CTypes
  PROVE  Convert(x, t) \in Int /\ Convert(Convert(x, t), t) = Convert(x, t)
<1> DEFINE w == t.values
           k == x % w
<1>1. w \in Nat /\ 0 < w
  BY WidthAssumption DEF CTypes
<1>2. k \in 0..(w - 1)
  BY <1>1, Remainder
<1>3. k % w = k /\ (k - w) % w = k
  BY <1>1, <1>2, SmallRemainder
<1> HIDE DEF k
<1>4. Convert(x, t) = IF t.signed /\ 2 * k >= w THEN k - w ELSE k
  BY DEF Convert, k
<1> HIDE DEF w
<1>5. QED
  BY <1>1, <1>2, <1>3, <1>4 DEF Convert, w
-----------------------------------------------------------------------------
LEMMA SameZero ==
  ASSUME NEW t \in CTypes, NEW v, v.type = "integer", v.value \in Int, CanBe(v, t)
  PROVE  Native(v, t) = 0 <=> v.value = 0
<1>1. intptr_t \in CTypes
  BY DEF intptr_t, CTypes
<1>2. Convert(0, t) = 0 /\ Convert(0, intptr_t) = 0
  BY <1>1, ZeroStays
<1>3. QED
  BY <1>2 DEF CanBe, Native

LEMMA SameNumbers ==
  ASSUME NEW o \in [of : DOMAIN Constraining, message : BOOLEAN, tried : CTypes, expected : CTypes],
         NEW v, v.type = "integer", v.value \in Int, CanBe(v, o.tried),
         NEW e, e.type = "integer", e.value \in Int, CanBe(e, o.expected),
         ~({o.tried.values, o.expected.values} = {IntValues} /\ o.tried.signed # o.expected.signed)
  PROVE  SameNumber(o, v, e) <=> v.value = e.value
<1> DEFINE t == o.tried
           u == o.expected
           both == Common(t, u)
           x == Native(v, t)
           y == Native(e, u)
<1>1. /\ t \in CTypes /\ u \in CTypes /\ intptr_t \in CTypes
      /\ IntValues \in Nat /\ LongValues \in Nat /\ IntValues < LongValues
  BY WidthAssumption DEF intptr_t, CTypes
<1>2. /\ x \in Int /\ y \in Int
      /\ Convert(x, t) = x /\ Convert(y, u) = y
      /\ Convert(x, intptr_t) = v.value /\ Convert(y, intptr_t) = e.value
  BY <1>1, ConvertTwice DEF Native, CanBe
<1>3. SameNumber(o, v, e) <=> Convert(x, both) = Convert(y, both)
  BY DEF SameNumber
<1>4. CASE t.values = LongValues \/ u.values = LongValues
  <2>1. both \in CTypes /\ both.values = intptr_t.values
    BY <1>1, <1>4 DEF Common, CTypes, Larger, intptr_t
  <2> HIDE DEF both, x, y
  <2>2. QED
    BY <1>1, <1>2, <1>3, <2>1, OneOfEach
<1>5. CASE t.values = IntValues /\ u.values = IntValues
  <2>1. t.signed = u.signed
    BY <1>5
  <2>2. t = u
    BY <1>1, <1>5, <2>1 DEF CTypes
  <2>3. both = t
    <3>1. both = [values |-> IntValues, signed |-> t.signed]
      BY <1>1, <1>5, <2>2 DEF Common, Larger, CTypes
    <3>2. QED
      BY <1>1, <1>5, <3>1 DEF CTypes
  <2>4. SameNumber(o, v, e) <=> x = y
    BY <1>2, <1>3, <2>2, <2>3
  <2>5. v.value = e.value => x = y
    BY <2>2 DEF Native
  <2>6. QED
    BY <1>2, <2>4, <2>5
<1>6. QED
  BY <1>1, <1>4, <1>5 DEF CTypes

LEMMA PlainAgrees ==
  ASSUME OlderStyle, IntegersAreNumbers, DoublesAreNumbers, NEW o \in Older, NEW c \in Checks,
         NEW actual \in Actuals, Suits(c, actual), c.create = Constraining[o.of],
         CanBe(actual, o.tried), CanBe(c.expected, o.expected), ~DoesNotSay(o, actual)
  PROVE  Plain(o, c, actual) = test_want(c, figures, actual)
<1>1. ~parameters_are_not_valid_for(c, actual) /\ ~Crashes(c, actual)
  BY DEF OlderStyle, Constraining, parameters_are_not_valid_for, ContentComparers, Crashes
<1>2. c.create \in DoubleComparers =>
        (doubles_are_equal(figures, actual.value, c.expected.value) <=>
         doubles_are_equal(figures, c.expected.value, actual.value))
  BY EqualEitherWay DEF DoublesAreNumbers, Suits, ValueComparers, ContentComparers,
                        StringComparers, DoubleComparers
<1>3. Holds(o, actual, c.expected) <=> compare(c, figures, actual)
  <2> DEFINE e == c.expected
  <2>a. /\ o \in [of : DOMAIN Constraining, message : BOOLEAN, tried : CTypes, expected : CTypes]
        /\ int \in CTypes
    BY DEF OlderStyle, int, CTypes
  <2>b. ASSUME c.create \in {"is_true", "is_false", "is_equal_to", "is_not_equal_to"}
        PROVE  /\ actual.type = "integer" /\ actual.value \in Int
               /\ e.type = "integer" /\ e.value \in Int
               /\ e = actual <=> e.value = actual.value
    <3>1. c.create \in ValueComparers /\ actual.type = "integer"
      BY <2>b DEF Suits, ValueComparers, ContentComparers, StringComparers, DoubleComparers
    <3>2. /\ e = [type |-> "integer", value |-> e.value] /\ e.value \in Int
          /\ actual = [type |-> "integer", value |-> actual.value] /\ actual.value \in Int
      BY <3>1 DEF IntegersAreNumbers
    <3> HIDE DEF e
    <3>3. e.type = "integer"
      BY <3>2
    <3>4. QED
      BY <3>1, <3>2, <3>3
  <2>1. CASE o.of \in {"assert_true", "assert_false"}
    <3>1. /\ c.create = IF o.of = "assert_true" THEN "is_true" ELSE "is_false"
          /\ e.value = 0
      BY <2>1 DEF Constraining, IntegersAreNumbers
    <3>2. compare(c, figures, actual) <=> IF o.of = "assert_true" THEN e # actual ELSE e = actual
      BY <2>1, <3>1 DEF compare, Capturers
    <3>3. Native(actual, o.tried) = 0 <=> actual.value = 0
      BY <2>a, <2>b, <3>1, SameZero
    <3>4. o.of = "assert_true" => Convert(Native(actual, o.tried), int) = Native(actual, o.tried)
      BY DEF DoesNotSay
    <3>5. Holds(o, actual, e) <=> IF o.of = "assert_true" THEN Native(actual, o.tried) # 0
                                                         ELSE Native(actual, o.tried) = 0
      BY <2>1, <3>4 DEF Holds
    <3>6. QED
      BY <2>1, <2>b, <3>1, <3>2, <3>3, <3>5
  <2>2. CASE o.of \in {"assert_equal", "assert_not_equal"}
    <3>1. c.create = IF o.of = "assert_equal" THEN "is_equal_to" ELSE "is_not_equal_to"
      BY <2>2 DEF Constraining
    <3>2. compare(c, figures, actual) <=> IF o.of = "assert_equal" THEN e = actual ELSE e # actual
      BY <2>2, <3>1 DEF compare, Capturers
    <3>3. o.message => (SameNumber(o, actual, e) <=> actual.value = e.value)
      <4>1. o.message => ~({o.tried.values, o.expected.values} = {IntValues} /\ o.tried.signed # o.expected.signed)
        BY <2>2 DEF DoesNotSay
      <4>2. QED
        BY <2>a, <2>b, <3>1, <4>1, SameNumbers
    <3>4. Holds(o, actual, e) <=>
            IF o.of = "assert_equal" THEN IF o.message THEN SameNumber(o, actual, e) ELSE actual = e
                                     ELSE IF o.message THEN ~SameNumber(o, actual, e) ELSE actual # e
      BY <2>2 DEF Holds
    <3>5. QED
      BY <2>2, <2>b, <3>1, <3>2, <3>3, <3>4
  <2>3. CASE o.of = "assert_string_equal"
    <3>1. c.create = "is_equal_to_string"
      BY <2>3 DEF Constraining
    <3>2. compare(c, figures, actual) <=> strings_are_equal(c.expected, actual)
      BY <3>1 DEF compare, Capturers
    <3>3. Holds(o, actual, c.expected) <=> strings_are_equal(actual, c.expected)
      BY <2>3 DEF Holds
    <3>4. QED
      BY <3>2, <3>3 DEF strings_are_equal
  <2>4. CASE o.of = "assert_string_not_equal"
    <3>1. c.create = "is_not_equal_to_string"
      BY <2>4 DEF Constraining
    <3>2. compare(c, figures, actual) <=> ~strings_are_equal(c.expected, actual)
      BY <3>1 DEF compare, Capturers
    <3>3. Holds(o, actual, c.expected) <=> ~strings_are_equal(actual, c.expected)
      BY <2>4 DEF Holds
    <3>4. QED
      BY <3>2, <3>3 DEF strings_are_equal
  <2>5. CASE o.of = "assert_double_equal"
    <3>1. c.create = "is_equal_to_double"
      BY <2>5 DEF Constraining
    <3>2. compare(c, figures, actual) <=> doubles_are_equal(figures, c.expected.value, actual.value)
      BY <3>1 DEF compare, Capturers
    <3>3. Holds(o, actual, c.expected) <=> doubles_are_equal(figures, actual.value, c.expected.value)
      BY <2>5 DEF Holds
    <3>4. QED
      BY <3>2, <3>3, <1>2, <3>1 DEF DoubleComparers
  <2>6. CASE o.of = "assert_double_not_equal"
    <3>1. c.create = "is_not_equal_to_double"
      BY <2>6 DEF Constraining
    <3>2. compare(c, figures, actual) <=> ~doubles_are_equal(figures, c.expected.value, actual.value)
      BY <3>1 DEF compare, Capturers
    <3>3. Holds(o, actual, c.expected) <=> ~doubles_are_equal(figures, actual.value, c.expected.value)
      BY <2>6 DEF Holds, OlderStyle, DoesNotSay, doubles_are_equal
    <3>4. QED
      BY <3>2, <3>3, <1>2, <3>1 DEF DoubleComparers
  <2>7. QED
    BY <2>1, <2>2, <2>3, <2>4, <2>5, <2>6 DEF OlderStyle, Constraining
<1>4. QED
  BY <1>1, <1>3 DEF Plain, test_want, Verdict

(* For all values, of any C types, all constraints, figures and mock()     *)
(* calls of variables, boxed or not, with any blanks, an assertion, an     *)
(* assertion of the older style and a mock report the same of a check,     *)
(* with the exceptions that AllWaysAgree names (assertions.c:30, legacy.h, *)
(* mocks.c, parameters.c): a mock reports nothing of a constraint that     *)
(* orders, assert_true() of what fits no int and a message on an int       *)
(* against an unsigned int are left open, and so is the one macro that     *)
(* compares the wrong way. Variables whose names begin with box_double     *)
(* are not covered where they are neither boxed nor in d().                *)
THEOREM ChecksAgree ==
  ASSUME CallsAreWellSpelt, IntegersAreNumbers, DoublesAreNumbers, OlderStyle
  PROVE  Spec => []AllWaysAgree
<1>1. Init => AllWaysAgree
  BY DEF Init, AllWaysAgree
<1>2. ASSUME AllWaysAgree, [Next]_vars PROVE AllWaysAgree'
  <2>0. ASSUME asserted' = mocked', asserted' = plain' PROVE AllWaysAgree'
    BY <2>0 DEF AllWaysAgree
  <2>1. CASE \E n \in Figures : significant_figures_for_assert_double_are(n)
    BY <1>2, <2>1 DEF significant_figures_for_assert_double_are, AllWaysAgree, DoesNotSay
  <2>2. CASE GoOn \/ NextTest
    BY <2>0, <2>2 DEF GoOn, NextTest, Cleared
  <2>3. CASE UNCHANGED vars
    BY <1>2, <2>3 DEF vars, AllWaysAgree, DoesNotSay
  <2>4. ASSUME NEW c \in Checks, NEW actual \in Actuals,
               NEW m \in MockCalls, NEW i \in DOMAIN m.arguments, CheckBoth(c, actual, m, i)
        PROVE  AllWaysAgree'
    <3>1. /\ check'.constraint = c /\ asserted' = test_want(c, figures, actual) /\ plain' = asserted'
          /\ Suits(c, actual) /\ m.arguments[i].boxed = (actual.type = "double")
          /\ mocked' \in Applied(m, i, c, actual)
      BY <2>4, OneResult DEF CheckBoth
    <3>2. CASE c.create \notin Orders
      BY <2>0, <3>1, <3>2, MocksAgree
    <3>3. CASE c.create \in Orders
      <4>1. mocked' = Nothing
        BY <3>1, <3>3, MocksIgnore
      <4>2. QED
        BY <3>1, <3>3, <4>1 DEF AllWaysAgree
    <3>4. QED
      BY <3>2, <3>3
  <2>5. ASSUME NEW c \in Checks, NEW actual \in Actuals, NEW o \in Older,
               CheckPlain(c, actual, o)
        PROVE  AllWaysAgree'
    <3>1. /\ check'.older = o /\ check'.actual = actual
          /\ asserted' = test_want(c, figures, actual) /\ mocked' = asserted'
      BY <2>5, OneResult DEF CheckPlain
    <3>2. DoesNotSay(o, actual) \/ plain' = asserted'
      BY <2>5, <3>1, PlainAgrees DEF CheckPlain
    <3>3. DoesNotSay(o, actual) => DoesNotSay(check.older, check.actual)'
      BY <3>1 DEF DoesNotSay, Native
    <3>4. QED
      BY <3>1, <3>2, <3>3 DEF AllWaysAgree
  <2>6. ASSUME NEW c \in Checks, NEW actual \in Actuals, Misuse(c, actual)
        PROVE  AllWaysAgree'
    BY <2>0, <2>6 DEF Misuse
  <2>7. CASE Check
    BY <2>4, <2>5, <2>6, <2>7 DEF Check
  <2>8. QED
    BY <1>2, <2>1, <2>2, <2>3, <2>7 DEF Next
<1>3. QED
  BY <1>1, <1>2, PTL DEF Spec
-----------------------------------------------------------------------------
(* Doubles                                                                 *)

LEMMA PowersAre ==
  /\ 10^0 = 1 /\ 10^1 = 10 /\ 10^2 = 100 /\ 10^3 = 1000 /\ 10^4 = 10000
  /\ 10^5 = 100000 /\ 10^6 = 1000000 /\ 10^7 = 10000000
  /\ 10^8 = 100000000 /\ 10^9 = 1000000000
<1>1. \A n \in 1..9 : 10^n = 10 * 10^(n - 1)
  BY PowersAssumption DEF MaxDigits
<1>2. 10^0 = 1 /\ 10^1 = 10 /\ 10^2 = 100 /\ 10^3 = 1000
  BY PowersAssumption, <1>1
<1>3. 10^4 = 10000 /\ 10^5 = 100000 /\ 10^6 = 1000000
  BY <1>1, <1>2
<1>4. 10^7 = 10000000 /\ 10^8 = 100000000 /\ 10^9 = 1000000000
  BY <1>1, <1>3
<1>5. QED
  BY <1>2, <1>3, <1>4

LEMMA PowersGrow ==
  ASSUME NEW m \in 0..MaxDigits, NEW n \in 0..MaxDigits, m <= n
  PROVE  10^m \in Nat \ {0} /\ 10^n \in Nat \ {0} /\ 10^m <= 10^n
<1> DEFINE power == [k \in 0..9 |-> 10^k]
<1>1. /\ power[0] = 1 /\ power[1] = 10 /\ power[2] = 100 /\ power[3] = 1000
      /\ power[4] = 10000 /\ power[5] = 100000 /\ power[6] = 1000000
      /\ power[7] = 10000000 /\ power[8] = 100000000 /\ power[9] = 1000000000
  BY PowersAre
<1>2. m \in 0..9 /\ n \in 0..9 /\ 10^m = power[m] /\ 10^n = power[n]
  BY DEF MaxDigits
<1> HIDE DEF power
<1>3. power[m] \in Nat \ {0} /\ power[n] \in Nat \ {0} /\ power[m] <= power[n]
  BY <1>1, <1>2
<1>4. QED
  BY <1>2, <1>3

\* a double of which the model knows the digits
InRange(x) == x \in Int /\ Magnitude(x) < 10^MaxDigits

LEMMA DigitsAre ==
  ASSUME NEW x, InRange(x), x # 0
  PROVE  /\ Digits(x) \in 1..MaxDigits
         /\ 10^(Digits(x) - 1) <= Magnitude(x) /\ Magnitude(x) < 10^Digits(x)
<1>1. Magnitude(x) \in Nat \ {0}
  BY DEF InRange, Magnitude
<1>2. \E n \in 1..MaxDigits : 10^(n - 1) <= Magnitude(x) /\ Magnitude(x) < 10^n
  BY <1>1, PowersAre DEF InRange, MaxDigits
<1>3. QED
  BY <1>2 DEF Digits

LEMMA AccuracyGrows ==
  ASSUME figures \in Nat, NEW x, NEW y, InRange(x), InRange(y), Magnitude(x) <= Magnitude(y)
  PROVE  /\ accuracy(figures, x) \in Nat /\ accuracy(figures, y) \in Nat
         /\ accuracy(figures, x) <= accuracy(figures, y)
<1> DEFINE E(z) == Larger(Digits(z) - figures, 0)
<1>1. \A z : InRange(z) /\ z # 0 => /\ E(z) \in 0..MaxDigits
                                  /\ accuracy(figures, z) = 10^E(z)
  BY DigitsAre DEF Larger, accuracy, MaxDigits
<1>2. accuracy(figures, 0) = 0
  BY DEF accuracy
<1>3. CASE x = 0
  <2>1. CASE y = 0
    BY <1>2, <1>3, <2>1
  <2>2. CASE y # 0
    BY <1>1, <1>2, <1>3, <2>2, PowersGrow
  <2>3. QED
    BY <2>1, <2>2
<1>4. CASE x # 0
  <2>1. y # 0
    BY <1>4 DEF InRange, Magnitude
  <2>2. Digits(x) <= Digits(y)
    <3> DEFINE dx == Digits(x)
               dy == Digits(y)
    <3>1. /\ dx \in 1..MaxDigits /\ 10^(dx - 1) <= Magnitude(x)
          /\ dy \in 1..MaxDigits /\ Magnitude(y) < 10^dy
      BY <1>4, <2>1, DigitsAre
    <3> HIDE DEF dx, dy
    <3>2. ASSUME ~(dx <= dy) PROVE FALSE
      <4>1. dx - 1 \in 0..MaxDigits /\ dy \in 0..MaxDigits /\ dy <= dx - 1
        BY <3>1, <3>2 DEF MaxDigits
      <4>2. 10^dy \in Nat /\ 10^(dx - 1) \in Nat /\ 10^dy <= 10^(dx - 1)
        BY <4>1, PowersGrow
      <4>3. Magnitude(x) \in Nat /\ Magnitude(y) \in Nat
        BY DEF InRange, Magnitude
      <4>4. QED
        BY <3>1, <4>2, <4>3
    <3>3. QED
      BY <3>2 DEF dx, dy
  <2>3. E(x) <= E(y)
    BY <1>4, <2>1, <2>2, DigitsAre DEF Larger, MaxDigits
  <2>4. QED
    BY <1>1, <1>4, <2>1, <2>3, PowersGrow
<1>5. QED
  BY <1>3, <1>4

DoublesInRange ==
  /\ \A c \in Checks : c.create \in DoubleComparers => InRange(c.expected.value)
  /\ \A actual \in Actuals : actual.type = "double" => InRange(actual.value)

LEMMA TolerancesAgree ==
  ASSUME figures \in Nat, NEW e, NEW x, InRange(e), InRange(x),
         ~doubles_are_equal(figures, e, x)
  PROVE  /\ double_is_lesser(figures, e, x) <=> x < e
         /\ double_is_greater(figures, e, x) <=> x > e
<1> DEFINE widest == Larger(Magnitude(e), Magnitude(x))
           between == accuracy(figures, Larger(e, x))
<1>1. e \in Int /\ x \in Int
  BY DEF InRange
<1>2. e # x /\ ~(Magnitude(e - x) < accuracy(figures, widest))
  BY DEF doubles_are_equal
<1>3. InRange(widest) /\ InRange(Larger(e, x)) /\ Magnitude(Larger(e, x)) <= Magnitude(widest)
  BY DEF InRange, Larger, Magnitude
<1>4. /\ between \in Nat /\ accuracy(figures, widest) \in Nat
      /\ between <= accuracy(figures, widest)
  BY <1>3, AccuracyGrows
<1>5. between <= Magnitude(e - x)
  BY <1>1, <1>2, <1>4 DEF Magnitude
<1> HIDE DEF between
<1>6. double_is_lesser(figures, e, x) <=> x < e + between
  BY DEF double_is_lesser, between
<1>7. double_is_greater(figures, e, x) <=> x > e - between
  BY DEF double_is_greater, between
<1>8. QED
  BY <1>1, <1>2, <1>4, <1>5, <1>6, <1>7 DEF Magnitude

\* what the values of a check are, and the figures it is made with
Measured ==
  /\ figures \in Nat
  /\ check # None => check.constraint \in Checks /\ check.actual \in Actuals

(* Doubles that are not equal are less or greater as they really are, for  *)
(* all doubles the model can hold and all figures, although the three      *)
(* tolerances are computed from different magnitudes                       *)
(* (constraint.c:901-916).                                                 *)
THEOREM DoublesAreOrdered ==
  ASSUME DoublesInRange, Figures \subseteq Nat
  PROVE  Spec => []DoublesOrdered
<1>1. Init => Measured
  BY DEF Init, Measured
<1>2. ASSUME Measured, [Next]_vars PROVE Measured'
  <2>1. ASSUME check' = None, figures' \in Nat PROVE Measured'
    BY <2>1 DEF Measured, None
  <2>2. ASSUME NEW c \in Checks, NEW actual \in Actuals,
               NEW o, check' = [constraint |-> c, actual |-> actual, older |-> o], UNCHANGED figures
        PROVE  Measured'
    BY <1>2, <2>2 DEF Measured
  <2>3. CASE \E n \in Figures : significant_figures_for_assert_double_are(n)
    BY <2>1, <2>3 DEF significant_figures_for_assert_double_are
  <2>4. CASE Check
    BY <2>2, <2>4 DEF Check, CheckBoth, CheckPlain, Misuse
  <2>5. CASE GoOn \/ NextTest
    BY <1>2, <2>1, <2>5 DEF GoOn, NextTest, Cleared, Measured
  <2>6. CASE UNCHANGED vars
    BY <1>2, <2>6 DEF vars, Measured, None
  <2>7. QED
    BY <1>2, <2>3, <2>4, <2>5, <2>6 DEF Next
<1>3. ASSUME Measured PROVE DoublesOrdered
  <2> SUFFICES ASSUME check.constraint.create \in DoubleComparers, check.actual.type = "double"
               PROVE  LET x == check.actual.value
                          e == check.constraint.expected.value
                      IN  /\ doubles_are_equal(figures, e, x) = doubles_are_equal(figures, x, e)
                          /\ \/ doubles_are_equal(figures, e, x)
                             \/ /\ double_is_lesser(figures, e, x) <=> x < e
                                /\ double_is_greater(figures, e, x) <=> x > e
    BY DEF DoublesOrdered
  <2> DEFINE x == check.actual.value
             e == check.constraint.expected.value
  <2>1. check # None
    BY DEF None, DoubleComparers
  <2>2. InRange(x) /\ InRange(e)
    BY <1>3, <2>1 DEF Measured, DoublesInRange
  <2>3. x \in Int /\ e \in Int /\ figures \in Nat
    BY <1>3, <2>2 DEF InRange, Measured
  <2> HIDE DEF x, e
  <2>4. doubles_are_equal(figures, e, x) = doubles_are_equal(figures, x, e)
    BY <2>3, EqualEitherWay DEF doubles_are_equal
  <2>5. \/ doubles_are_equal(figures, e, x)
        \/ /\ double_is_lesser(figures, e, x) <=> x < e
           /\ double_is_greater(figures, e, x) <=> x > e
    BY <2>2, <2>3, TolerancesAgree
  <2>6. QED
    BY <2>4, <2>5 DEF x, e
<1>4. QED
  BY <1>1, <1>2, <1>3, PTL DEF Spec
=============================================================================
