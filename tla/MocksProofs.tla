----------------------------- MODULE MocksProofs -----------------------------
(***************************************************************************)
(* Theorems about the expectation queue for any functions, parameters,     *)
(* values and constraint lists, and for tests of any length.               *)
(***************************************************************************)
EXTENDS Mocks, Induction, FiniteSetTheorems, SequenceTheorems

-----------------------------------------------------------------------------
(* The first expectation of a function, and a queue without it             *)

LEMMA FindIsFor ==
  ASSUME queue \in Seq(Expectation), NEW h, For(h) # {}
  PROVE  Find(h) \in For(h) /\ Find(h) \in DOMAIN queue
<1>1. For(h) \subseteq Nat
  BY DEF For
<1>2. \E i \in For(h) : \A j \in For(h) : i <= j
  BY <1>1, LeastExists
<1>3. QED
  BY <1>2 DEF Find, For

LEMMA WithoutType ==
  ASSUME queue \in Seq(Expectation), NEW k \in DOMAIN queue
  PROVE  /\ Without(k) \in Seq(Expectation)
         /\ DOMAIN Without(k) = 1..(Len(queue) - 1)
         /\ \A i \in 1..(Len(queue) - 1) :
              /\ i \in DOMAIN queue /\ i + 1 \in DOMAIN queue
              /\ Without(k)[i] = IF i < k THEN queue[i] ELSE queue[i + 1]
<1>1. Len(queue) \in Nat \ {0} /\ DOMAIN queue = 1..Len(queue)
  OBVIOUS
<1>2. \A i \in 1..(Len(queue) - 1) : queue[i] \in Expectation /\ queue[i + 1] \in Expectation
  BY <1>1
<1>3. QED
  BY <1>1, <1>2 DEF Without

LEMMA ThoseAreFinite ==
  ASSUME NEW cs \in Declarable, NEW kinds
  PROVE  IsFiniteSet(Those(cs, kinds))
<1>1. cs \in Seq(Constraint)
  BY MocksAssumption
<1>2. Those(cs, kinds) \in SUBSET (1..Len(cs)) /\ Len(cs) \in Nat
  BY <1>1 DEF Those
<1>3. IsFiniteSet(1..Len(cs))
  BY <1>2, FS_Interval
<1>4. QED
  BY <1>2, <1>3, FS_Subset

LEMMA SubsetsCount ==
  ASSUME NEW S, IsFiniteSet(S), NEW T, T \subseteq S
  PROVE  Cardinality(T) \in Nat
BY FS_Subset, FS_CardinalityType

LEMMA TimesType == ASSUME NEW cs \in Declarable PROVE Times(cs) \in Int
<1>1. cs \in Seq(Constraint)
  BY MocksAssumption
<1>2. CASE Those(cs, {"times"}) = {}
  BY <1>2 DEF Times
<1>3. CASE Those(cs, {"times"}) # {}
  <2>1. Those(cs, {"times"}) \subseteq Nat
    BY <1>1 DEF Those
  <2>2. Smallest(Those(cs, {"times"})) \in Those(cs, {"times"})
    BY <1>3, <2>1, LeastExists DEF Smallest
  <2>3. PICK c \in Those(cs, {"times"}) : c = Smallest(Those(cs, {"times"}))
    BY <2>2
  <2>4. cs[c].kind = "times" /\ cs[c] \in Constraint
    BY <1>1, <2>3 DEF Those
  <2>5. cs[c].count \in Int
    BY <2>4 DEF Constraint
  <2>6. QED
    BY <1>3, <2>3, <2>5 DEF Times
<1>4. QED
  BY <1>2, <1>3

LEMMA ResultType == ASSUME NEW cs \in Declarable PROVE ResultOf(cs) \in Values \cup {Default}
<1>1. cs \in Seq(Constraint)
  BY MocksAssumption
<1>2. CASE Those(cs, {"return"}) = {}
  BY <1>2 DEF ResultOf
<1>3. CASE Those(cs, {"return"}) # {}
  <2>1. Those(cs, {"return"}) \subseteq Nat
    BY <1>1 DEF Those
  <2>2. PICK c \in Those(cs, {"return"}) : c = Smallest(Those(cs, {"return"}))
    BY <1>3, <2>1, LeastExists DEF Smallest
  <2>3. cs[c].kind = "return" /\ cs[c] \in Constraint
    BY <1>1, <2>2 DEF Those
  <2>4. cs[c].value \in Values
    BY <2>3 DEF Constraint
  <2>5. QED
    BY <1>3, <2>2, <2>4 DEF ResultOf
<1>4. QED
  BY <1>2, <1>3

LEMMA OnlyType ==
  ASSUME NEW v \in Values \cup {Default}
  PROVE  Only(v) \in Responses
BY DEF Only, Responses

LEMMA DefaultOnly == Only(Default) \in Responses
BY OnlyType

LEMMA ResponseType ==
  ASSUME NEW cs \in Declarable, NEW h \in Functions, NEW actuals \in Actuals(h),
         Misspelt(h, cs) = {}
  PROVE  Response(cs, actuals) \in Responses
<1> DEFINE S == {<<cs[i].parameter, cs[i].value>> : i \in Those(cs, {"set"})}
           C == {<<cs[i].parameter, actuals[cs[i].parameter]>> : i \in Those(cs, {"capture"})}
<1>1. cs \in Seq(Constraint)
  BY MocksAssumption
<1>2. ASSUME NEW i \in Those(cs, {"set"})
      PROVE  cs[i].parameter \in Names /\ cs[i].value \in Values
  <2>1. cs[i].kind = "set" /\ cs[i] \in Constraint
    BY <1>1 DEF Those
  <2>2. QED
    BY <2>1 DEF Constraint
<1>3. ASSUME NEW i \in Those(cs, {"capture"})
      PROVE  cs[i].parameter \in Names /\ actuals[cs[i].parameter] \in Values
  <2>1. i \in DOMAIN cs /\ cs[i].kind = "capture"
    BY DEF Those
  <2>2. cs[i].parameter \in Parameters[h]
    BY <2>1 DEF Misspelt, Those
  <2>3. Parameters[h] \subseteq Names /\ actuals \in [Parameters[h] -> Values]
    BY MocksAssumption DEF Actuals
  <2>4. QED
    BY <2>2, <2>3
<1>4. S \subseteq Names \X Values /\ C \subseteq Names \X Values
  BY <1>2, <1>3
<1>5. Cardinality(Those(cs, {"effect"})) \in Nat
  BY ThoseAreFinite, SubsetsCount
<1>6. ResultOf(cs) \in Values \cup {Default}
  BY ResultType
<1>7. QED
  BY <1>4, <1>5, <1>6 DEF Response, Responses
-----------------------------------------------------------------------------
(* Type correctness                                                        *)

LEMMA ReportType ==
  ASSUME results \in [{"pass", "fail"} -> Nat], NEW a \in Nat, NEW b \in Nat, Report(a, b)
  PROVE  results' \in [{"pass", "fail"} -> Nat]
BY DEF Report

LEMMA TriggeredType ==
  ASSUME NEW e \in Expectation, NEW n \in Nat, NEW d \in Nat
  PROVE  /\ Triggered(e, n, d) \in Expectation
         /\ Triggered(e, n, d).ttl = e.ttl
         /\ Triggered(e, n, d).function = e.function
BY DEF Triggered, Expectation

LEMMA AgedType ==
  ASSUME queue \in Seq(Expectation), NEW k \in DOMAIN queue, NEW e \in Expectation
  PROVE  Aged(k, e) \in Seq(Expectation)
<1>1. CASE IsAlways(e)
  BY <1>1 DEF Aged
<1>2. CASE ~IsAlways(e) /\ e.ttl <= 1
  BY <1>2, WithoutType DEF Aged
<1>3. CASE ~IsAlways(e) /\ ~(e.ttl <= 1)
  <2>1. Older(e) \in Expectation
    BY DEF Older, Expectation
  <2>2. QED
    BY <1>3, <2>1 DEF Aged
<1>4. QED
  BY <1>1, <1>2, <1>3

\* the expectation that answers, and what an answered call makes of it
LEMMA AnswerType ==
  ASSUME TypeOK, NEW h \in Functions, Answer(h)
  PROVE  /\ Find(h) \in DOMAIN queue
         /\ queue[Find(h)] \in Expectation
         /\ queue[Find(h)].constraints \in Declarable
         /\ queue[Find(h)].function = h
         /\ ~IsNever(queue[Find(h)])
<1>1. queue \in Seq(Expectation) /\ For(h) # {}
  BY DEF TypeOK, Answer
<1>2. Find(h) \in For(h) /\ Find(h) \in DOMAIN queue
  BY <1>1, FindIsFor
<1>3. queue[Find(h)] \in Expectation
  BY <1>1, <1>2
<1>4. QED
  BY <1>2, <1>3 DEF Expectation, Answer, For

LEMMA CountersAreFinite ==
  ASSUME queue \in Seq(Expectation)
  PROVE  IsFiniteSet(Counters)
<1> DEFINE I == {j \in DOMAIN queue : IsLimited(queue[j])}
           Of(i) == {<<i, c>> : c \in Those(queue[i].constraints, {"times"})}
           S == {Of(i) : i \in I}
<1>1. I \in SUBSET (1..Len(queue)) /\ Len(queue) \in Nat
  OBVIOUS
<1>2. IsFiniteSet(I)
  BY <1>1, FS_Interval, FS_Subset
<1>3. ASSUME NEW i \in I PROVE IsFiniteSet(Of(i))
  <2> DEFINE T == Those(queue[i].constraints, {"times"})
             F == [c \in T |-> <<i, c>>]
  <2>1. queue[i] \in Expectation
    BY <1>1
  <2>2. IsFiniteSet(T)
    BY <2>1, ThoseAreFinite DEF Expectation
  <2> HIDE DEF T
  <2>3. F \in Surjection(T, {<<i, c>> : c \in T})
    BY DEF Surjection
  <2>4. IsFiniteSet({<<i, c>> : c \in T})
    BY <2>2, <2>3, FS_Surjection
  <2>5. QED
    BY <2>4 DEF T
<1>4. [i \in I |-> Of(i)] \in Surjection(I, S)
  <2> HIDE DEF I
  <2>1. QED
    BY DEF Surjection
<1>5. IsFiniteSet(S)
  BY <1>2, <1>4, FS_Surjection
<1>6. \A T \in S : IsFiniteSet(T)
  BY <1>3
<1>7. IsFiniteSet(UNION S)
  BY <1>5, <1>6, FS_UNION
<1>8. QED
  BY <1>7 DEF Counters

LEMMA TypeStep == TypeOK /\ [Next]_vars => TypeOK'
<1> SUFFICES ASSUME TypeOK, [Next]_vars PROVE TypeOK'
  OBVIOUS
<1>0. /\ queue \in Seq(Expectation) /\ results \in [{"pass", "fail"} -> Nat]
      /\ debt \in [Functions -> Int] /\ steps \in Nat /\ tests \in Nat
  BY DEF TypeOK
<1>1. ASSUME NEW m \in Modes, SetMode(m) PROVE TypeOK'
  BY <1>1, MocksAssumption DEF SetMode, TypeOK
<1>2. ASSUME NEW h \in Functions, Reject(h) PROVE TypeOK'
  <2>1. results' \in [{"pass", "fail"} -> Nat]
    BY <1>0, <1>2, ReportType DEF Reject
  <2>2. queue' \in Seq(Expectation)
    <3>1. CASE HasAlways(h)
      BY <1>0, <1>2, <3>1 DEF Reject
    <3>2. CASE ~HasAlways(h)
      <4>1. PICK k \in For(h) : k = CHOOSE i \in For(h) : IsNever(queue[i])
        BY <1>2, <3>2 DEF Reject, HasNever
      <4>2. k \in DOMAIN queue /\ queue' = Without(k)
        BY <1>2, <3>2, <4>1 DEF Reject, For
      <4>3. QED
        BY <1>0, <4>2, WithoutType
    <3>3. QED
      BY <3>1, <3>2
  <2>3. QED
    BY <1>0, <1>2, <2>1, <2>2 DEF Reject, InTest, TypeOK
<1>3. ASSUME NEW h \in Functions, NEW ttl \in Int, NEW cs \in Declarable, Declare(h, ttl, cs),
             debt' \in [Functions -> Int]
      PROVE  TypeOK'
  <2>1. queue' \in Seq(Expectation)
    BY <1>0, <1>3 DEF Declare, Expectation
  <2>2. QED
    BY <1>0, <1>3, <2>1 DEF Declare, InTest, TypeOK
<1>4. ASSUME NEW h \in Functions, NEW cs \in Declarable, Expect(h, cs) PROVE TypeOK'
  <2>1. Times(cs) \in Int /\ debt' \in [Functions -> Int]
    BY <1>0, <1>4, TimesType DEF Expect, Owes
  <2>2. QED
    BY <1>3, <1>4, <2>1 DEF Expect
<1>5. ASSUME NEW h \in Functions, NEW cs \in Declarable, AlwaysExpect(h, cs) PROVE TypeOK'
  BY <1>0, <1>3, <1>5 DEF AlwaysExpect, UNLIMITED_TIME_TO_LIVE
<1>6. ASSUME NEW h \in Functions, NeverExpect(h) PROVE TypeOK'
  <2>1. <<>> \in Declarable /\ -UNLIMITED_TIME_TO_LIVE \in Int
    BY MocksAssumption DEF UNLIMITED_TIME_TO_LIVE
  <2>2. Declare(h, -UNLIMITED_TIME_TO_LIVE, <<>>) /\ debt' \in [Functions -> Int]
    BY <1>0, <1>6 DEF NeverExpect
  <2>3. QED
    BY <1>3, <2>1, <2>2
<1>7. ASSUME NEW h \in Functions, NEW actuals \in Actuals(h), UnexpectedCall(h, actuals)
      PROVE  TypeOK'
  <2>1. results' \in [{"pass", "fail"} -> Nat]
    BY <1>0, <1>7, ReportType DEF UnexpectedCall
  <2>2. [function |-> h, actuals |-> actuals] \in Calls
    BY DEF Calls
  <2>3. learned \in Seq(Calls)
    BY DEF TypeOK
  <2>4. learned' \in Seq(Calls)
    BY <1>7, <2>2, <2>3 DEF UnexpectedCall
  <2>5. debt' \in [Functions -> Int]
    BY <1>0, <1>7 DEF UnexpectedCall, Owes
  <2>6. QED
    BY <1>0, <1>7, <2>1, <2>4, <2>5, DefaultOnly DEF UnexpectedCall, InTest, TypeOK
<1>8. ASSUME NEW h \in Functions, ForbiddenCall(h) PROVE TypeOK'
  <2>1. Find(h) \in DOMAIN queue
    BY <1>0, <1>8, FindIsFor DEF ForbiddenCall
  <2>2. queue' \in Seq(Expectation)
    <3>1. queue[Find(h)] \in Expectation /\ 0 \in Nat /\ 1 \in Nat
      BY <1>0, <2>1
    <3>2. Triggered(queue[Find(h)], 0, 1) \in Expectation
      BY <3>1, TriggeredType, Zenon
    <3>3. QED
      BY <1>0, <1>8, <2>1, <3>2 DEF ForbiddenCall
  <2>3. results' \in [{"pass", "fail"} -> Nat]
    BY <1>0, <1>8, ReportType DEF ForbiddenCall
  <2>4. debt' \in [Functions -> Int]
    BY <1>0, <1>8 DEF ForbiddenCall, Owes
  <2>5. QED
    BY <1>0, <1>8, <2>2, <2>3, <2>4, DefaultOnly DEF ForbiddenCall, InTest, TypeOK
<1>9. ASSUME NEW h \in Functions, Answer(h), NEW n \in Nat, NEW d \in Nat,
             queue' = Aged(Find(h), Triggered(queue[Find(h)], n, d)),
             results' \in [{"pass", "fail"} -> Nat], response' \in Responses
      PROVE  TypeOK'
  <2>1. Find(h) \in DOMAIN queue /\ queue[Find(h)] \in Expectation
    BY <1>9, AnswerType
  <2>2. Triggered(queue[Find(h)], n, d) \in Expectation
    BY <2>1, TriggeredType
  <2>3. queue' \in Seq(Expectation)
    BY <1>0, <1>9, <2>1, <2>2, AgedType
  <2>4. debt' \in [Functions -> Int] /\ mocked' \subseteq Functions /\ steps' \in Nat
    BY <1>0, <1>9 DEF Answer, Owes, InTest, TypeOK
  <2>5. QED
    BY <1>0, <1>9, <2>3, <2>4 DEF Answer, TypeOK
<1>10. ASSUME NEW h \in Functions, MisspeltCall(h) PROVE TypeOK'
  <2> DEFINE cs == queue[Find(h)].constraints
             N  == {i \in Those(cs, {"times"}) : i < Smallest(Misspelt(h, cs))}
             e  == queue[Find(h)]
  <2>1. Answer(h) /\ Report(0, 1) /\ response' = Only(ResultOf(cs))
        /\ queue' = Aged(Find(h), Triggered(e, Cardinality(N), 0))
    BY <1>10 DEF MisspeltCall
  <2>2. cs \in Declarable /\ e \in Expectation
    BY <2>1, AnswerType
  <2>3. Cardinality(N) \in Nat
    <3>1. IsFiniteSet(Those(cs, {"times"})) /\ N \subseteq Those(cs, {"times"})
      BY <2>2, ThoseAreFinite
    <3>2. QED
      BY <3>1, SubsetsCount
  <2> HIDE DEF N
  <2>4. results' \in [{"pass", "fail"} -> Nat] /\ response' \in Responses
    BY <1>0, <2>1, <2>2, ReportType, ResultType, OnlyType
  <2>5. QED
    BY <1>9, <2>1, <2>3, <2>4
<1>11. ASSUME NEW h \in Functions, NEW actuals \in Actuals(h), AnsweredCall(h, actuals)
       PROVE  TypeOK'
  <2> DEFINE cs   == queue[Find(h)].constraints
             good == {i \in Those(cs, {"compare"}) : Holds(cs[i], actuals)}
             bad  == Those(cs, {"compare"}) \ good
             n    == Cardinality(Those(cs, {"times"}))
  <2>1. /\ Answer(h) /\ Report(Cardinality(good), Cardinality(bad))
        /\ response' = Response(cs, actuals)
        /\ queue' = Aged(Find(h), Triggered(queue[Find(h)], n, 1))
    BY <1>11 DEF AnsweredCall
  <2>2. cs \in Declarable
    BY <2>1, AnswerType
  <2>3. IsFiniteSet(Those(cs, {"compare"})) /\ IsFiniteSet(Those(cs, {"times"}))
    BY <2>2, ThoseAreFinite
  <2>4. Cardinality(good) \in Nat /\ Cardinality(bad) \in Nat /\ n \in Nat
    BY <2>3, SubsetsCount
  <2>5. response' \in Responses
    <3>1. cs \in Seq(Constraint) /\ Misspelt(h, cs) = {}
      BY <1>11, <2>2, MocksAssumption DEF AnsweredCall
    <3>2. QED
      BY <2>1, <2>2, <3>1, ResponseType
  <2> HIDE DEF n, good, bad
  <2>6. results' \in [{"pass", "fail"} -> Nat]
    BY <1>0, <2>1, <2>4, ReportType
  <2>7. QED
    BY <1>9, <2>1, <2>4, <2>5, <2>6
<1>12. CASE Tally
  <2>1. IsFiniteSet(Counters) /\ IsFiniteSet(DOMAIN queue)
    BY <1>0, CountersAreFinite, FS_Interval
  <2>2. /\ Cardinality(Exact) \in Nat /\ Cardinality(Counters \ Exact) \in Nat
        /\ Cardinality(Obeyed) \in Nat /\ Cardinality(Unmet) \in Nat
    BY <2>1, SubsetsCount DEF Exact, Obeyed, Unmet
  <2>3. results' \in [{"pass", "fail"} -> Nat]
    BY <1>0, <1>12, <2>2, ReportType DEF Tally
  <2>4. QED
    BY <1>12, <2>3 DEF Tally, TypeOK
<1>13. CASE NextTest
  <2>1. results' \in [{"pass", "fail"} -> Nat] /\ debt' \in [Functions -> Int]
    BY <1>13 DEF NextTest
  <2>2. tests' \in Nat /\ steps' \in Nat
    BY <1>0, <1>13 DEF NextTest
  <2>3. /\ tallied' \in BOOLEAN /\ response' \in Responses
        /\ queue' = <<>> /\ learned' = <<>> /\ UNCHANGED <<mode, mocked>>
    BY <1>13, DefaultOnly DEF NextTest
  <2>4. QED
    BY <2>1, <2>2, <2>3 DEF TypeOK
<1>14. CASE UNCHANGED vars
  BY <1>14 DEF vars, TypeOK
<1>15. QED
  BY <1>1, <1>2, <1>4, <1>5, <1>6, <1>7, <1>8, <1>10, <1>11, <1>12, <1>13, <1>14 DEF Next

LEMMA TypeInit == Init => TypeOK
<1> SUFFICES ASSUME Init PROVE TypeOK
  OBVIOUS
<1>1. results \in [{"pass", "fail"} -> Nat] /\ debt \in [Functions -> Int]
  BY DEF Init
<1>2. tests \in Nat /\ steps \in Nat
  BY DEF Init
<1>3. tallied \in BOOLEAN /\ response \in Responses
  BY DefaultOnly DEF Init
<1>4. mode \in {"strict", "loose", "learning"} /\ mocked \subseteq Functions
  BY DEF Init
<1>5. queue \in Seq(Expectation) /\ learned \in Seq(Calls)
  BY DEF Init
<1>6. QED
  BY <1>1, <1>2, <1>3, <1>4, <1>5 DEF TypeOK

(* The expectation queue and the counters of the mocks keep their types in *)
(* every test, whatever it declares and calls (mocks.c:185, 437).          *)
THEOREM MocksTypeCorrect == Spec => []TypeOK
<1>1. TypeOK /\ [Next]_vars => TypeOK'
  BY TypeStep
<1>2. QED
  BY <1>1, TypeInit, PTL DEF Spec
-----------------------------------------------------------------------------
(* Always and never expectations stay last                                 *)

(* The time to live of a limited expectation must not be able to count     *)
(* down to the value that marks always expectations (mocks.c:39, 429).     *)
TimesAreSmall == \A cs \in Declarable : Times(cs) <= UNLIMITED_TIME_TO_LIVE

LivesAreSmall == \A i \in DOMAIN queue : queue[i].ttl <= UNLIMITED_TIME_TO_LIVE

QueueInv == TypeOK /\ LivesAreSmall /\ NothingBehindUnlimited

LEMMA WithoutKeeps ==
  ASSUME QueueInv, NEW k \in DOMAIN queue, queue' = Without(k)
  PROVE  LivesAreSmall' /\ NothingBehindUnlimited'
<1> DEFINE old(i) == IF i < k THEN i ELSE i + 1
<1>1. /\ DOMAIN queue' = 1..(Len(queue) - 1)
      /\ \A i \in 1..(Len(queue) - 1) : old(i) \in DOMAIN queue /\ queue'[i] = queue[old(i)]
  BY WithoutType DEF QueueInv, TypeOK
<1>2. \A i, j \in 1..(Len(queue) - 1) : i < j => old(i) < old(j)
  BY DEF QueueInv, TypeOK
<1> HIDE DEF old
<1>3. LivesAreSmall'
  BY <1>1 DEF QueueInv, LivesAreSmall
<1>4. ASSUME NEW i \in DOMAIN queue', NEW j \in DOMAIN queue', i < j,
             queue'[i].function = queue'[j].function
      PROVE  IsLimited(queue'[i])
  BY <1>1, <1>2, <1>4 DEF QueueInv, NothingBehindUnlimited
<1>5. QED
  BY <1>3, <1>4 DEF NothingBehindUnlimited, IsLimited, IsAlways, IsNever

\* an entry may change as long as it keeps its function and stays or becomes limited
LEMMA ChangeKeeps ==
  ASSUME QueueInv, NEW k \in DOMAIN queue, NEW e \in Expectation,
         queue' = [queue EXCEPT ![k] = e],
         e.function = queue[k].function, e.ttl <= UNLIMITED_TIME_TO_LIVE,
         IsLimited(queue[k]) => IsLimited(e)
  PROVE  LivesAreSmall' /\ NothingBehindUnlimited'
<1>1. /\ DOMAIN queue' = DOMAIN queue
      /\ \A i \in DOMAIN queue : queue'[i] = IF i = k THEN e ELSE queue[i]
  BY DEF QueueInv, TypeOK
<1>2. LivesAreSmall'
  BY <1>1 DEF QueueInv, LivesAreSmall
<1>3. ASSUME NEW i \in DOMAIN queue', NEW j \in DOMAIN queue', i < j,
             queue'[i].function = queue'[j].function
      PROVE  IsLimited(queue'[i])
  <2>1. queue[i].function = queue[j].function
    BY <1>1, <1>3
  <2>2. IsLimited(queue[i])
    BY <1>1, <1>3, <2>1 DEF QueueInv, NothingBehindUnlimited
  <2>3. QED
    BY <1>1, <2>2
<1>4. QED
  BY <1>2, <1>3 DEF NothingBehindUnlimited, IsLimited, IsAlways, IsNever

LEMMA AgedKeeps ==
  ASSUME QueueInv, NEW k \in DOMAIN queue, ~IsNever(queue[k]),
         NEW e \in Expectation, e.function = queue[k].function, e.ttl = queue[k].ttl,
         queue' = Aged(k, e)
  PROVE  LivesAreSmall' /\ NothingBehindUnlimited'
<1>1. e.ttl \in Int /\ e.ttl <= UNLIMITED_TIME_TO_LIVE
  BY DEF QueueInv, LivesAreSmall, Expectation
<1>2. CASE IsAlways(e)
  BY <1>1, <1>2, ChangeKeeps DEF Aged, IsLimited, IsAlways
<1>3. CASE ~IsAlways(e) /\ e.ttl <= 1
  BY <1>3, WithoutKeeps DEF Aged
<1>4. CASE ~IsAlways(e) /\ ~(e.ttl <= 1)
  <2>1. Older(e) \in Expectation /\ Older(e).function = e.function /\ Older(e).ttl = e.ttl - 1
    BY DEF Older, Expectation
  <2>2. IsLimited(Older(e)) /\ Older(e).ttl <= UNLIMITED_TIME_TO_LIVE
    BY <1>1, <1>4, <2>1 DEF IsLimited, IsAlways, IsNever, UNLIMITED_TIME_TO_LIVE
  <2>3. queue' = [queue EXCEPT ![k] = Older(e)]
    BY <1>4 DEF Aged
  <2>4. QED
    BY <2>1, <2>2, <2>3, ChangeKeeps
<1>5. QED
  BY <1>2, <1>3, <1>4

LEMMA DeclareKeeps ==
  ASSUME QueueInv, NEW h \in Functions, NEW ttl \in Int, ttl <= UNLIMITED_TIME_TO_LIVE,
         NEW cs \in Declarable, Declare(h, ttl, cs)
  PROVE  LivesAreSmall' /\ NothingBehindUnlimited'
<1> DEFINE e == [function |-> h, ttl |-> ttl, constraints |-> cs, called |-> 0, triggered |-> 0]
<1>1. queue \in Seq(Expectation) /\ e \in Expectation /\ queue' = Append(queue, e)
      /\ e.function = h /\ e.ttl = ttl
  BY DEF QueueInv, TypeOK, Declare, Expectation
<1> HIDE DEF e
<1>2. /\ Len(queue) \in Nat /\ DOMAIN queue = 1..Len(queue) /\ DOMAIN queue' = 1..(Len(queue) + 1)
      /\ \A i \in 1..Len(queue) : queue'[i] = queue[i]
      /\ queue'[Len(queue) + 1] = e
  BY <1>1
<1>3. LivesAreSmall'
  BY <1>1, <1>2 DEF QueueInv, LivesAreSmall
<1>4. ASSUME NEW i \in DOMAIN queue', NEW j \in DOMAIN queue', i < j,
             queue'[i].function = queue'[j].function
      PROVE  IsLimited(queue'[i])
  <2>1. i \in DOMAIN queue /\ queue'[i] = queue[i]
    BY <1>2, <1>4
  <2>2. CASE j \in DOMAIN queue
    BY <1>2, <1>4, <2>1, <2>2 DEF QueueInv, NothingBehindUnlimited
  <2>3. CASE j \notin DOMAIN queue
    <3>1. queue[i].function = h
      BY <1>1, <1>2, <1>4, <2>1, <2>3
    <3>2. i \in For(h)
      BY <2>1, <3>1 DEF For
    <3>3. QED
      BY <2>1, <3>2 DEF Declare, HasAlways, HasNever, IsLimited
  <2>4. QED
    BY <2>2, <2>3
<1>5. QED
  BY <1>3, <1>4 DEF NothingBehindUnlimited, IsLimited, IsAlways, IsNever

LEMMA QueueStep ==
  ASSUME TimesAreSmall, QueueInv, [Next]_vars
  PROVE  QueueInv'
<1> DEFINE Kept == LivesAreSmall' /\ NothingBehindUnlimited'
<1>0. TypeOK' /\ queue \in Seq(Expectation)
  BY TypeStep DEF QueueInv, TypeOK
<1>1. ASSUME UNCHANGED queue PROVE Kept
  BY <1>1 DEF QueueInv, LivesAreSmall, NothingBehindUnlimited, IsLimited, IsAlways, IsNever
<1>2. ASSUME NEW h \in Functions, Reject(h) PROVE Kept
  <2>1. CASE HasAlways(h)
    BY <1>1, <1>2, <2>1 DEF Reject
  <2>2. CASE ~HasAlways(h)
    <3>1. PICK k \in For(h) : k = CHOOSE i \in For(h) : IsNever(queue[i])
      BY <1>2, <2>2 DEF Reject, HasNever
    <3>2. k \in DOMAIN queue /\ queue' = Without(k)
      BY <1>2, <2>2, <3>1 DEF Reject, For
    <3>3. QED
      BY <3>2, WithoutKeeps
  <2>3. QED
    BY <2>1, <2>2
<1>3. ASSUME NEW h \in Functions, NEW cs \in Declarable, Expect(h, cs) PROVE Kept
  BY <1>3, TimesType, DeclareKeeps DEF Expect, TimesAreSmall
<1>4. ASSUME NEW h \in Functions, NEW cs \in Declarable, AlwaysExpect(h, cs) PROVE Kept
  BY <1>4, DeclareKeeps DEF AlwaysExpect, UNLIMITED_TIME_TO_LIVE
<1>5. ASSUME NEW h \in Functions, NeverExpect(h) PROVE Kept
  <2>1. <<>> \in Declarable /\ -UNLIMITED_TIME_TO_LIVE \in Int
        /\ -UNLIMITED_TIME_TO_LIVE <= UNLIMITED_TIME_TO_LIVE
    BY MocksAssumption DEF UNLIMITED_TIME_TO_LIVE
  <2>2. Declare(h, -UNLIMITED_TIME_TO_LIVE, <<>>)
    BY <1>5 DEF NeverExpect
  <2>3. QED
    BY <2>1, <2>2, DeclareKeeps
<1>6. ASSUME NEW h \in Functions, ForbiddenCall(h) PROVE Kept
  <2> DEFINE e == Triggered(queue[Find(h)], 0, 1)
  <2>1. Find(h) \in DOMAIN queue /\ IsNever(queue[Find(h)])
    BY <1>0, <1>6, FindIsFor DEF ForbiddenCall
  <2>2. e \in Expectation /\ e.ttl = queue[Find(h)].ttl /\ e.function = queue[Find(h)].function
    <3>1. queue[Find(h)] \in Expectation
      BY <1>0, <2>1
    <3>2. 0 \in Nat /\ 1 \in Nat
      OBVIOUS
    <3>3. QED
      BY <3>1, <3>2, TriggeredType, Zenon
  <2>3. queue' = [queue EXCEPT ![Find(h)] = e]
    BY <1>6 DEF ForbiddenCall
  <2> HIDE DEF e
  <2>4. e.ttl <= UNLIMITED_TIME_TO_LIVE /\ ~IsLimited(queue[Find(h)])
    BY <2>1, <2>2 DEF QueueInv, LivesAreSmall, IsLimited
  <2>5. QED
    BY <2>1, <2>2, <2>3, <2>4, ChangeKeeps
<1>7. ASSUME NEW h \in Functions, Answer(h), NEW n \in Nat, NEW d \in Nat,
             queue' = Aged(Find(h), Triggered(queue[Find(h)], n, d))
      PROVE  Kept
  <2>1. Find(h) \in DOMAIN queue /\ queue[Find(h)] \in Expectation /\ ~IsNever(queue[Find(h)])
    BY <1>7, AnswerType DEF QueueInv
  <2>2. QED
    BY <1>7, <2>1, TriggeredType, AgedKeeps
<1>8. ASSUME NEW h \in Functions, Answer(h) PROVE queue[Find(h)].constraints \in Declarable
  BY <1>8, AnswerType DEF QueueInv
<1>9. ASSUME NEW h \in Functions, MisspeltCall(h) PROVE Kept
  <2> DEFINE cs == queue[Find(h)].constraints
             N  == {i \in Those(cs, {"times"}) : i < Smallest(Misspelt(h, cs))}
  <2>1. Answer(h) /\ queue' = Aged(Find(h), Triggered(queue[Find(h)], Cardinality(N), 0))
    BY <1>9 DEF MisspeltCall
  <2>2. IsFiniteSet(Those(cs, {"times"})) /\ N \subseteq Those(cs, {"times"})
    BY <1>8, <2>1, ThoseAreFinite
  <2>3. Cardinality(N) \in Nat
    BY <2>2, SubsetsCount
  <2> HIDE DEF N
  <2>4. QED
    BY <1>7, <2>1, <2>3
<1>10. ASSUME NEW h \in Functions, NEW actuals \in Actuals(h), AnsweredCall(h, actuals)
       PROVE  Kept
  <2> DEFINE n == Cardinality(Those(queue[Find(h)].constraints, {"times"}))
  <2>1. Answer(h) /\ queue' = Aged(Find(h), Triggered(queue[Find(h)], n, 1))
    BY <1>10 DEF AnsweredCall
  <2>2. n \in Nat
    BY <1>8, <2>1, ThoseAreFinite, FS_CardinalityType
  <2> HIDE DEF n
  <2>3. QED
    BY <1>7, <2>1, <2>2
<1>11. ASSUME Tally \/ NextTest PROVE Kept
  BY <1>11 DEF Tally, NextTest, LivesAreSmall, NothingBehindUnlimited
<1>12. ASSUME (\E m \in Modes : SetMode(m)) \/ UNCHANGED vars PROVE Kept
  BY <1>1, <1>12 DEF SetMode, vars
<1>13. ASSUME NEW h \in Functions, NEW actuals \in Actuals(h), UnexpectedCall(h, actuals)
       PROVE  Kept
  BY <1>1, <1>13 DEF UnexpectedCall
<1> HIDE DEF Kept
<1>14. Kept
  BY <1>2, <1>3, <1>4, <1>5, <1>6, <1>9, <1>10, <1>11, <1>12, <1>13 DEF Next
<1>15. QED
  BY <1>0, <1>14 DEF QueueInv, Kept

LEMMA QueueInit == Init => QueueInv
BY TypeInit DEF Init, QueueInv, LivesAreSmall, NothingBehindUnlimited

(* Nothing is ever queued behind an always or never expectation, provided  *)
(* that no times(n) exceeds UNLIMITED_TIME_TO_LIVE (mocks.c:442, 454).     *)
THEOREM UnlimitedStaysLast ==
  ASSUME TimesAreSmall
  PROVE  Spec => []NothingBehindUnlimited
<1>1. QueueInv /\ [Next]_vars => QueueInv'
  BY QueueStep
<1>2. Init => QueueInv
  BY QueueInit
<1>3. QueueInv => NothingBehindUnlimited
  BY DEF QueueInv
<1>4. QED
  BY <1>1, <1>2, <1>3, PTL DEF Spec
-----------------------------------------------------------------------------
(* The two counters of an expectation                                      *)

\* what CountersAgree says of one expectation
Agrees(e) ==
  IsLimited(e) =>
    \A c \in DOMAIN e.constraints :
      Those(e.constraints, {"times"}) = {c} => e.ttl + e.called = e.constraints[c].count

AgreeInv == TypeOK /\ (results["fail"] = 0 => \A i \in DOMAIN queue : Agrees(queue[i]))

LEMMA FreshAgrees ==
  ASSUME NEW h \in Functions, NEW cs \in Declarable
  PROVE  Agrees([function |-> h, ttl |-> Times(cs), constraints |-> cs,
                 called |-> 0, triggered |-> 0])
<1> SUFFICES ASSUME NEW c \in DOMAIN cs, Those(cs, {"times"}) = {c}
             PROVE  Times(cs) + 0 = cs[c].count
  BY DEF Agrees
<1>1. c \in Nat
  BY MocksAssumption
<1>2. Smallest({c}) = c
  BY <1>1 DEF Smallest
<1>3. Times(cs) = cs[c].count
  BY <1>2 DEF Times
<1>4. QED
  BY <1>3, TimesType

\* an answered call takes one from the time to live and adds one to the calls
LEMMA AgedAgrees ==
  ASSUME queue \in Seq(Expectation), \A i \in DOMAIN queue : Agrees(queue[i]),
         NEW k \in DOMAIN queue,
         NEW n \in Nat, n = Cardinality(Those(queue[k].constraints, {"times"})),
         queue' = Aged(k, Triggered(queue[k], n, 1))
  PROVE  \A i \in DOMAIN queue' : Agrees(queue'[i])
<1> DEFINE e == Triggered(queue[k], n, 1)
<1>1. /\ queue[k] \in Expectation /\ e \in Expectation
      /\ e.ttl = queue[k].ttl /\ e.constraints = queue[k].constraints
      /\ e.called = queue[k].called + n
      /\ queue[k].ttl \in Int /\ queue[k].called \in Nat
  <2>1. queue[k] \in Expectation
    OBVIOUS
  <2>2. e \in Expectation
    BY <2>1, TriggeredType
  <2>3. queue[k].ttl \in Int /\ queue[k].called \in Nat
    BY <2>1 DEF Expectation
  <2>4. QED
    BY <2>1, <2>2, <2>3 DEF Triggered
<1> HIDE DEF e
<1>2. CASE IsAlways(e)
  <2>1. Agrees(e)
    BY <1>2 DEF Agrees, IsLimited
  <2>2. queue' = [queue EXCEPT ![k] = e]
    BY <1>2 DEF Aged, e
  <2>3. QED
    BY <1>1, <2>1, <2>2
<1>3. CASE ~IsAlways(e) /\ e.ttl <= 1
  <2>1. queue' = Without(k)
    BY <1>3 DEF Aged, e
  <2>2. QED
    BY <2>1, WithoutType
<1>4. CASE ~IsAlways(e) /\ ~(e.ttl <= 1)
  <2> DEFINE old == Older(e)
  <2>1. /\ queue' = [queue EXCEPT ![k] = old]
        /\ old \in Expectation
        /\ old.ttl = queue[k].ttl - 1 /\ old.called = queue[k].called + n
        /\ old.constraints = queue[k].constraints
    <3>1. queue' = [queue EXCEPT ![k] = old]
      BY <1>4 DEF Aged, e
    <3>2. old \in Expectation
      BY <1>1 DEF Older, Expectation
    <3>3. QED
      BY <1>1, <3>1, <3>2 DEF Older
  <2>2. IsLimited(queue[k])
    BY <1>1, <1>4 DEF IsLimited, IsAlways, IsNever, Expectation, UNLIMITED_TIME_TO_LIVE
  <2>3. ASSUME NEW c \in DOMAIN old.constraints, Those(old.constraints, {"times"}) = {c}
        PROVE  old.ttl + old.called = old.constraints[c].count
    <3>1. queue[k].ttl + queue[k].called = queue[k].constraints[c].count
      BY <2>1, <2>2, <2>3 DEF Agrees
    <3>2. n = 1
      BY <2>1, <2>3, FS_Singleton
    <3>3. QED
      BY <1>1, <2>1, <3>1, <3>2
  <2> HIDE DEF old
  <2>4. Agrees(old)
    BY <2>3 DEF Agrees
  <2>5. QED
    BY <2>1, <2>4
<1>5. QED
  BY <1>2, <1>3, <1>4

LEMMA AgreeStep == AgreeInv /\ [Next]_vars => AgreeInv'
<1> SUFFICES ASSUME AgreeInv, [Next]_vars, results'["fail"] = 0
             PROVE  \A i \in DOMAIN queue' : Agrees(queue'[i])
  BY TypeStep DEF AgreeInv, Agrees, Those, IsLimited, IsAlways, IsNever
<1>0. TypeOK /\ queue \in Seq(Expectation) /\ results \in [{"pass", "fail"} -> Nat]
  BY DEF AgreeInv, TypeOK
<1>1. ASSUME NEW a \in Nat, NEW b \in Nat, Report(a, b) PROVE b = 0 /\ results["fail"] = 0
  BY <1>0, <1>1 DEF Report
<1>2. ASSUME UNCHANGED queue, results["fail"] = 0
      PROVE  \A i \in DOMAIN queue' : Agrees(queue'[i])
  BY <1>2 DEF AgreeInv
<1>3. ASSUME NEW h \in Functions, Reject(h) \/ ForbiddenCall(h) \/ MisspeltCall(h) PROVE FALSE
  <2>1. Report(0, 1)
    BY <1>3 DEF Reject, ForbiddenCall, MisspeltCall
  <2>2. QED
    BY <1>1, <2>1
<1>4. ASSUME NEW h \in Functions, NEW ttl \in Int, NEW cs \in Declarable, Declare(h, ttl, cs),
             Agrees([function |-> h, ttl |-> ttl, constraints |-> cs,
                     called |-> 0, triggered |-> 0])
      PROVE  \A i \in DOMAIN queue' : Agrees(queue'[i])
  <2> DEFINE e == [function |-> h, ttl |-> ttl, constraints |-> cs, called |-> 0, triggered |-> 0]
  <2>1. /\ e \in Expectation /\ queue' = Append(queue, e) /\ Agrees(e)
        /\ results["fail"] = 0
    BY <1>4 DEF Declare, Expectation
  <2> HIDE DEF e
  <2>2. /\ DOMAIN queue' = 1..(Len(queue) + 1) /\ queue'[Len(queue) + 1] = e
        /\ \A i \in 1..Len(queue) : queue'[i] = queue[i]
        /\ Len(queue) \in Nat /\ DOMAIN queue = 1..Len(queue)
    BY <1>0, <2>1
  <2>3. QED
    BY <2>1, <2>2 DEF AgreeInv
<1>5. ASSUME NEW h \in Functions, NEW cs \in Declarable, Expect(h, cs)
      PROVE  \A i \in DOMAIN queue' : Agrees(queue'[i])
  BY <1>4, <1>5, FreshAgrees, TimesType DEF Expect
<1>6. ASSUME NEW h \in Functions, NEW cs \in Declarable, AlwaysExpect(h, cs)
      PROVE  \A i \in DOMAIN queue' : Agrees(queue'[i])
  <2>1. Agrees([function |-> h, ttl |-> UNLIMITED_TIME_TO_LIVE, constraints |-> cs,
                called |-> 0, triggered |-> 0])
    BY DEF Agrees, IsLimited, IsAlways
  <2>2. QED
    BY <1>4, <1>6, <2>1 DEF AlwaysExpect, UNLIMITED_TIME_TO_LIVE
<1>7. ASSUME NEW h \in Functions, NeverExpect(h)
      PROVE  \A i \in DOMAIN queue' : Agrees(queue'[i])
  <2>1. Agrees([function |-> h, ttl |-> -UNLIMITED_TIME_TO_LIVE, constraints |-> <<>>,
                called |-> 0, triggered |-> 0])
    BY DEF Agrees, IsLimited, IsNever
  <2>2. <<>> \in Declarable /\ -UNLIMITED_TIME_TO_LIVE \in Int
    BY MocksAssumption DEF UNLIMITED_TIME_TO_LIVE
  <2>3. Declare(h, -UNLIMITED_TIME_TO_LIVE, <<>>)
    BY <1>7 DEF NeverExpect
  <2>4. QED
    BY <1>4, <2>1, <2>2, <2>3
<1>8. ASSUME NEW h \in Functions, NEW actuals \in Actuals(h), UnexpectedCall(h, actuals)
      PROVE  \A i \in DOMAIN queue' : Agrees(queue'[i])
  <2>1. Report(0, IF mode = "strict" THEN 1 ELSE 0) /\ UNCHANGED queue
    BY <1>8 DEF UnexpectedCall
  <2>2. QED
    BY <1>1, <1>2, <2>1
<1>9. ASSUME NEW h \in Functions, NEW actuals \in Actuals(h), AnsweredCall(h, actuals)
      PROVE  \A i \in DOMAIN queue' : Agrees(queue'[i])
  <2> DEFINE cs   == queue[Find(h)].constraints
             good == {i \in Those(cs, {"compare"}) : Holds(cs[i], actuals)}
             bad  == Those(cs, {"compare"}) \ good
             n    == Cardinality(Those(cs, {"times"}))
  <2>1. /\ Answer(h) /\ Report(Cardinality(good), Cardinality(bad))
        /\ queue' = Aged(Find(h), Triggered(queue[Find(h)], n, 1))
    BY <1>9 DEF AnsweredCall
  <2>2. cs \in Declarable /\ Find(h) \in DOMAIN queue
    BY <1>0, <2>1, AnswerType
  <2>3. IsFiniteSet(Those(cs, {"compare"})) /\ n \in Nat
    BY <2>2, ThoseAreFinite, FS_CardinalityType
  <2>4. Cardinality(good) \in Nat /\ Cardinality(bad) \in Nat
    BY <2>3, SubsetsCount
  <2>5. results["fail"] = 0
    BY <1>1, <2>1, <2>4
  <2> HIDE DEF good, bad
  <2>6. QED
    BY <1>0, <2>1, <2>2, <2>3, <2>5, AgedAgrees DEF AgreeInv
<1>10. ASSUME Tally \/ NextTest PROVE queue' = <<>>
  BY <1>10 DEF Tally, NextTest
<1>11. ASSUME (\E m \in Modes : SetMode(m)) \/ UNCHANGED vars
       PROVE  UNCHANGED queue /\ results["fail"] = 0
  BY <1>11 DEF SetMode, vars
<1>12. QED
  BY <1>2, <1>3, <1>5, <1>6, <1>7, <1>8, <1>9, <1>10, <1>11 DEF Next

(* The time to live that ends an expectation and the number of calls that  *)
(* the tally compares with times(n) agree in every test without failure:   *)
(* the two counters of mocks.c:226 and 803 count the same calls.           *)
THEOREM CountersStayTogether == Spec => []CountersAgree
<1>1. AgreeInv /\ [Next]_vars => AgreeInv'
  BY AgreeStep
<1>2. Init => AgreeInv
  BY TypeInit DEF Init, AgreeInv
<1>3. AgreeInv => CountersAgree
  BY DEF AgreeInv, Agrees, CountersAgree
<1>4. QED
  BY <1>1, <1>2, <1>3, PTL DEF Spec
-----------------------------------------------------------------------------
(* The calls that are still to be answered                                 *)

(* A list has at most one times(), and it asks for at least one call and   *)
(* for fewer than the number that marks always expectations.               *)
TimesAreCalls ==
  \A cs \in Declarable :
    /\ Times(cs) \in 1..(UNLIMITED_TIME_TO_LIVE - 1)
    /\ \A c, d \in Those(cs, {"times"}) : c = d

\* one for each call of h that the limited expectations of a queue wait for
Owing(q, h) ==
  {p \in (1..Len(q)) \X (1..UNLIMITED_TIME_TO_LIVE) :
     q[p[1]].function = h /\ IsLimited(q[p[1]]) /\ p[2] <= q[p[1]].ttl}

\* a limited expectation is gone when its last call is answered
NoneIsSpent(q) ==
  \A i \in 1..Len(q) : IsLimited(q[i]) => q[i].ttl \in 1..(UNLIMITED_TIME_TO_LIVE - 1)

DebtInv ==
  /\ AgreeInv
  /\ NoneIsSpent(queue)
  /\ ~tallied /\ results["fail"] = 0 => \A h \in Functions : debt[h] = Cardinality(Owing(queue, h))
  /\ tallied => queue = <<>>
  /\ tallied /\ results["fail"] = 0 => \A h \in Functions : debt[h] = 0

LEMMA UnlimitedType == UNLIMITED_TIME_TO_LIVE \in Nat /\ UNLIMITED_TIME_TO_LIVE > 1
  BY SMT DEF UNLIMITED_TIME_TO_LIVE

LEMMA OwingType ==
  ASSUME NEW q \in Seq(Expectation), NEW h
  PROVE  IsFiniteSet(Owing(q, h)) /\ Cardinality(Owing(q, h)) \in Nat
<1>1. IsFiniteSet(1..Len(q)) /\ IsFiniteSet(1..UNLIMITED_TIME_TO_LIVE)
  <2>1. Len(q) \in Int /\ UNLIMITED_TIME_TO_LIVE \in Int /\ 1 \in Int
    BY UnlimitedType
  <2>2. QED
    BY <2>1, FS_Interval
<1>2. IsFiniteSet((1..Len(q)) \X (1..UNLIMITED_TIME_TO_LIVE))
  BY <1>1, FS_Product
<1>3. Owing(q, h) \in SUBSET ((1..Len(q)) \X (1..UNLIMITED_TIME_TO_LIVE))
  BY DEF Owing
<1>4. IsFiniteSet(Owing(q, h))
  BY <1>2, <1>3, FS_Subset
<1>5. QED
  BY <1>4, FS_CardinalityType

\* a queue that differs in nothing that is owed
LEMMA OwingSame ==
  ASSUME NEW q \in Seq(Expectation), NEW r \in Seq(Expectation), Len(r) = Len(q),
         \A i \in 1..Len(q) : r[i].function = q[i].function /\ r[i].ttl = q[i].ttl
  PROVE  (\A h : Owing(r, h) = Owing(q, h)) /\ (NoneIsSpent(q) => NoneIsSpent(r))
BY DEF Owing, NoneIsSpent, IsLimited, IsAlways, IsNever

LEMMA OwingMore ==
  ASSUME NEW q \in Seq(Expectation), NEW e \in Expectation, NEW h
  PROVE  /\ IsLimited(e) /\ e.ttl \in 1..(UNLIMITED_TIME_TO_LIVE - 1) =>
              /\ e.function = h =>
                   Cardinality(Owing(Append(q, e), h)) = Cardinality(Owing(q, h)) + e.ttl
              /\ e.function # h => Owing(Append(q, e), h) = Owing(q, h)
              /\ NoneIsSpent(q) => NoneIsSpent(Append(q, e))
         /\ ~IsLimited(e) =>
              /\ Owing(Append(q, e), h) = Owing(q, h)
              /\ NoneIsSpent(q) => NoneIsSpent(Append(q, e))
<1> DEFINE n == Len(q)
           r == Append(q, e)
<1>1. /\ n \in Nat /\ Len(r) = n + 1 /\ r[n + 1] = e
      /\ \A i \in 1..n : r[i] = q[i]
  OBVIOUS
<1>2. ASSUME IsLimited(e) => e.ttl \in 1..(UNLIMITED_TIME_TO_LIVE - 1), NoneIsSpent(q)
      PROVE  NoneIsSpent(r)
  <2> HIDE DEF n, r
  <2> SUFFICES ASSUME NEW i \in 1..Len(r), IsLimited(r[i])
               PROVE  r[i].ttl \in 1..(UNLIMITED_TIME_TO_LIVE - 1)
    BY DEF NoneIsSpent
  <2>1. CASE i = n + 1
    BY <1>1, <1>2, <2>1
  <2>2. CASE i # n + 1
    <3>1. i \in 1..n
      BY <1>1, <2>2
    <3>2. QED
      BY <1>1, <1>2, <3>1 DEF NoneIsSpent, n
  <2>3. QED
    BY <2>1, <2>2
<1>3. CASE IsLimited(e) /\ e.ttl \in 1..(UNLIMITED_TIME_TO_LIVE - 1) /\ e.function = h
  <2> DEFINE more == {n + 1} \X (1..e.ttl)
  <2>1. Owing(r, h) = Owing(q, h) \cup more /\ Owing(q, h) \cap more = {}
    <3> HIDE DEF r
    <3>1. \A i \in 1..(n + 1) : i \in 1..n \/ i = n + 1
      BY <1>1
    <3>2. ASSUME NEW p \in Owing(r, h) PROVE p \in Owing(q, h) \cup more
      BY <1>1, <1>3, <3>1, <3>2 DEF Owing
    <3>3. ASSUME NEW p \in Owing(q, h) PROVE p \in Owing(r, h) /\ p \notin more
      BY <1>1, <3>3 DEF Owing
    <3>4. ASSUME NEW p \in more PROVE p \in Owing(r, h)
      BY <1>1, <1>3, <3>4, UnlimitedType DEF Owing
    <3>5. QED
      BY <3>2, <3>3, <3>4
  <2>2. IsFiniteSet(more) /\ Cardinality(more) = e.ttl
    <3>1. IsFiniteSet({n + 1}) /\ Cardinality({n + 1}) = 1
      BY FS_Singleton
    <3>2. IsFiniteSet(1..e.ttl) /\ Cardinality(1..e.ttl) = e.ttl
      BY <1>3, UnlimitedType, FS_Interval
    <3>3. IsFiniteSet(more) /\ Cardinality(more) = 1 * e.ttl
      BY <3>1, <3>2, FS_Product, ZenonT(30)
    <3>4. QED
      BY <1>3, <3>3
  <2>3. IsFiniteSet(Owing(q, h)) /\ Cardinality(Owing(q, h)) \in Nat
    BY OwingType
  <2> HIDE DEF more, r, n
  <2>4. Cardinality(Owing(r, h)) = Cardinality(Owing(q, h)) + Cardinality(more) - Cardinality({})
    BY <2>1, <2>2, <2>3, FS_Union
  <2>5. Cardinality(Owing(r, h)) = Cardinality(Owing(q, h)) + e.ttl
    BY <1>3, <2>2, <2>3, <2>4, FS_EmptySet
  <2>6. QED
    BY <1>2, <1>3, <2>5 DEF r
<1>4. CASE ~IsLimited(e) \/ e.function # h
  <2>1. Owing(r, h) = Owing(q, h)
    <3> HIDE DEF r
    <3>1. \A i \in 1..(n + 1) : i \in 1..n \/ i = n + 1
      BY <1>1
    <3>2. ASSUME NEW p \in Owing(r, h) PROVE p \in Owing(q, h)
      BY <1>1, <1>4, <3>1, <3>2 DEF Owing
    <3>3. ASSUME NEW p \in Owing(q, h) PROVE p \in Owing(r, h)
      BY <1>1, <3>3 DEF Owing
    <3>4. QED
      BY <3>2, <3>3
  <2>2. QED
    BY <1>2, <1>4, <2>1
<1>5. QED
  BY <1>2, <1>3, <1>4

\* without entry k the others wait for the same calls
LEMMA OwingWithout ==
  ASSUME queue \in Seq(Expectation), NEW k \in DOMAIN queue, NEW h
  PROVE  Cardinality(Owing(Without(k), h)) = Cardinality({p \in Owing(queue, h) : p[1] # k})
<1> DEFINE q == Without(k)
           n == Len(queue)
           old(i) == IF i < k THEN i ELSE i + 1
           S == {p \in Owing(queue, h) : p[1] # k}
           F == [p \in Owing(q, h) |-> <<old(p[1]), p[2]>>]
<1>1. /\ n \in Nat \ {0} /\ k \in 1..n /\ q \in Seq(Expectation) /\ Len(q) = n - 1
      /\ \A i \in 1..(n - 1) : q[i] = queue[old(i)] /\ old(i) \in 1..n /\ old(i) # k
  <2>1. n \in Nat \ {0} /\ k \in 1..n
    OBVIOUS
  <2>2. /\ q \in Seq(Expectation) /\ DOMAIN q = 1..(n - 1)
        /\ \A i \in 1..(n - 1) : q[i] = queue[old(i)]
    BY WithoutType
  <2>3. Len(q) = n - 1
    BY <2>1, <2>2
  <2>4. \A i \in 1..(n - 1) : old(i) \in 1..n /\ old(i) # k
    BY <2>1
  <2>5. QED
    BY <2>1, <2>2, <2>3, <2>4
<1>2. F \in [Owing(q, h) -> S]
  <2> SUFFICES ASSUME NEW p \in Owing(q, h) PROVE <<old(p[1]), p[2]>> \in S
    OBVIOUS
  <2>1. /\ p \in (1..(n - 1)) \X (1..UNLIMITED_TIME_TO_LIVE)
        /\ q[p[1]].function = h /\ IsLimited(q[p[1]]) /\ p[2] <= q[p[1]].ttl
    BY <1>1 DEF Owing
  <2>2. p[1] \in 1..(n - 1) /\ q[p[1]] = queue[old(p[1])] /\ old(p[1]) \in 1..n /\ old(p[1]) # k
    BY <1>1, <2>1
  <2> HIDE DEF old, q
  <2>3. QED
    BY <2>1, <2>2 DEF Owing
<1>3. ASSUME NEW a \in Owing(q, h), NEW b \in Owing(q, h), F[a] = F[b] PROVE a = b
  <2>1. /\ a \in (1..(n - 1)) \X (1..UNLIMITED_TIME_TO_LIVE)
        /\ b \in (1..(n - 1)) \X (1..UNLIMITED_TIME_TO_LIVE)
    BY <1>1 DEF Owing
  <2>2. old(a[1]) = old(b[1]) /\ a[2] = b[2]
    BY <1>3
  <2>3. a[1] = b[1]
    BY <1>1, <2>1, <2>2
  <2>4. QED
    BY <2>1, <2>2, <2>3
<1>4. ASSUME NEW p \in S PROVE \E a \in Owing(q, h) : F[a] = p
  <2>1. /\ p \in (1..n) \X (1..UNLIMITED_TIME_TO_LIVE) /\ p[1] # k
        /\ queue[p[1]].function = h /\ IsLimited(queue[p[1]]) /\ p[2] <= queue[p[1]].ttl
    BY DEF Owing
  <2>2. PICK i \in 1..(n - 1) : old(i) = p[1]
    <3>1. CASE p[1] < k
      <4>1. p[1] \in 1..(n - 1) /\ old(p[1]) = p[1]
        BY <1>1, <2>1, <3>1
      <4>2. QED
        BY <4>1
    <3>2. CASE ~(p[1] < k)
      <4>1. p[1] - 1 \in 1..(n - 1) /\ old(p[1] - 1) = p[1]
        BY <1>1, <2>1, <3>2
      <4>2. QED
        BY <4>1
    <3>3. QED
      BY <3>1, <3>2
  <2>3. q[i] = queue[p[1]]
    BY <1>1, <2>2
  <2> HIDE DEF old, q
  <2>4. <<i, p[2]>> \in Owing(q, h)
    BY <1>1, <2>1, <2>2, <2>3 DEF Owing
  <2>5. F[<<i, p[2]>>] = p
    BY <2>1, <2>2, <2>4
  <2>6. QED
    BY <2>4, <2>5
<1>5. IsFiniteSet(Owing(q, h))
  BY <1>1, OwingType
<1> HIDE DEF F, S, q
<1>6. F \in Bijection(Owing(q, h), S)
  BY <1>2, <1>3, <1>4 DEF Bijection, Injection, Surjection, IsInjective
<1>7. QED
  BY <1>5, <1>6, FS_Bijection DEF ExistsBijection, S, q

\* an answered call is one call less to wait for
LEMMA AgedOwing ==
  ASSUME queue \in Seq(Expectation), NoneIsSpent(queue),
         NEW k \in DOMAIN queue, ~IsNever(queue[k]),
         NEW e \in Expectation, e.function = queue[k].function, e.ttl = queue[k].ttl
  PROVE  /\ NoneIsSpent(Aged(k, e))
         /\ IsAlways(queue[k]) => \A h : Owing(Aged(k, e), h) = Owing(queue, h)
         /\ ~IsAlways(queue[k]) =>
              \A h : Cardinality(Owing(Aged(k, e), h))
                       = Cardinality(Owing(queue, h)) - (IF h = queue[k].function THEN 1 ELSE 0)
<1> DEFINE q == Aged(k, e)
           t == queue[k].ttl
<1>1. /\ queue[k] \in Expectation /\ t \in Int /\ k \in 1..Len(queue) /\ Len(queue) \in Nat
      /\ (IsAlways(e) <=> IsAlways(queue[k])) /\ q \in Seq(Expectation)
  <2>1. queue[k] \in Expectation /\ k \in 1..Len(queue) /\ Len(queue) \in Nat
    OBVIOUS
  <2>2. q \in Seq(Expectation)
    BY AgedType
  <2>3. QED
    BY <2>1, <2>2 DEF IsAlways, Expectation
<1>2. \A h : IsFiniteSet(Owing(queue, h)) /\ Cardinality(Owing(queue, h)) \in Nat
  BY OwingType
<1>3. CASE IsAlways(queue[k])
  <2>1. q = [queue EXCEPT ![k] = e]
    BY <1>1, <1>3 DEF Aged
  <2>2. Len(q) = Len(queue) /\ \A i \in 1..Len(queue) : q[i].function = queue[i].function /\ q[i].ttl = queue[i].ttl
    BY <1>1, <2>1
  <2> HIDE DEF q
  <2>3. (\A h : Owing(q, h) = Owing(queue, h)) /\ NoneIsSpent(q)
    BY <1>1, <2>2, OwingSame
  <2>4. QED
    BY <1>3, <2>3 DEF q
<1>4. ASSUME ~IsAlways(queue[k])
      PROVE  /\ t \in 1..(UNLIMITED_TIME_TO_LIVE - 1) /\ IsLimited(queue[k])
             /\ \A h : h = queue[k].function => <<k, t>> \in Owing(queue, h)
  <2>1. IsLimited(queue[k]) /\ t \in 1..(UNLIMITED_TIME_TO_LIVE - 1)
    BY <1>1, <1>4 DEF IsLimited, NoneIsSpent
  <2>2. <<k, t>> \in (1..Len(queue)) \X (1..UNLIMITED_TIME_TO_LIVE)
    BY <1>1, <2>1, UnlimitedType
  <2>3. QED
    BY <1>1, <2>1, <2>2 DEF Owing
\* the call that was answered is the last one of its expectation
<1>5. ASSUME ~IsAlways(queue[k]), NEW h, NEW S,
             S = IF h = queue[k].function THEN Owing(queue, h) \ {<<k, t>>} ELSE Owing(queue, h)
      PROVE  Cardinality(S) = Cardinality(Owing(queue, h)) - (IF h = queue[k].function THEN 1 ELSE 0)
  <2>1. CASE h = queue[k].function
    <3>1. <<k, t>> \in Owing(queue, h)
      BY <1>4, <1>5, <2>1
    <3>2. Cardinality(Owing(queue, h) \ {<<k, t>>}) = Cardinality(Owing(queue, h)) - 1
      BY <1>2, <3>1, FS_RemoveElement, ZenonT(30)
    <3>3. QED
      BY <1>5, <2>1, <3>2
  <2>2. CASE h # queue[k].function
    BY <1>2, <1>5, <2>2
  <2>3. QED
    BY <2>1, <2>2
<1>6. CASE ~IsAlways(queue[k]) /\ t <= 1
  <2>1. q = Without(k) /\ t = 1
    BY <1>1, <1>4, <1>6, UnlimitedType DEF Aged
  <2>2. NoneIsSpent(q)
    <3>1. /\ DOMAIN Without(k) = 1..(Len(queue) - 1) /\ Without(k) \in Seq(Expectation)
          /\ \A i \in 1..(Len(queue) - 1) : \E j \in DOMAIN queue : Without(k)[i] = queue[j]
      BY WithoutType
    <3>2. DOMAIN q = 1..Len(q) /\ DOMAIN queue = 1..Len(queue)
      BY <1>1
    <3> HIDE DEF q
    <3>3. \A i \in 1..Len(q) : \E j \in 1..Len(queue) : q[i] = queue[j]
      BY <2>1, <3>1, <3>2
    <3>4. QED
      BY <3>3 DEF NoneIsSpent
  <2>3. ASSUME NEW h
        PROVE  Cardinality(Owing(q, h))
                 = Cardinality(Owing(queue, h)) - (IF h = queue[k].function THEN 1 ELSE 0)
    <3> DEFINE S == {p \in Owing(queue, h) : p[1] # k}
    <3>1. Cardinality(Owing(q, h)) = Cardinality(S)
      BY <2>1, OwingWithout
    <3>2. S = IF h = queue[k].function THEN Owing(queue, h) \ {<<k, t>>} ELSE Owing(queue, h)
      <4>1. ASSUME NEW p \in Owing(queue, h), p[1] = k
            PROVE  h = queue[k].function /\ p = <<k, t>>
        BY <1>1, <2>1, <4>1 DEF Owing
      <4>2. QED
        BY <4>1
    <3> HIDE DEF S
    <3>3. QED
      BY <1>5, <1>6, <3>1, <3>2
  <2>4. QED
    BY <1>6, <2>2, <2>3
<1>7. CASE ~IsAlways(queue[k]) /\ ~(t <= 1)
  <2> DEFINE old == Older(e)
  <2>1. /\ q = [queue EXCEPT ![k] = old] /\ old.ttl = t - 1 /\ old.function = queue[k].function
    BY <1>1, <1>7 DEF Aged, Older
  <2>2. /\ Len(q) = Len(queue) /\ q[k] = old
        /\ \A i \in 1..Len(queue) : i # k => q[i] = queue[i]
    BY <1>1, <2>1
  <2>3. IsLimited(old) /\ old.ttl \in 1..(UNLIMITED_TIME_TO_LIVE - 1)
    <3>1. t \in 1..(UNLIMITED_TIME_TO_LIVE - 1)
      BY <1>4, <1>7
    <3>2. old.ttl \in 1..(UNLIMITED_TIME_TO_LIVE - 1)
      BY <1>1, <1>7, <2>1, <3>1, UnlimitedType
    <3>3. old.ttl # UNLIMITED_TIME_TO_LIVE /\ old.ttl # -UNLIMITED_TIME_TO_LIVE
      BY <3>2, UnlimitedType
    <3>4. QED
      BY <3>2, <3>3 DEF IsLimited, IsAlways, IsNever
  <2> HIDE DEF q, old
  <2>4. NoneIsSpent(q)
    BY <1>1, <2>2, <2>3 DEF NoneIsSpent
  <2>5. ASSUME NEW h
        PROVE  Owing(q, h) = IF h = queue[k].function THEN Owing(queue, h) \ {<<k, t>>}
                             ELSE Owing(queue, h)
    <3>1. ASSUME NEW p PROVE p \in Owing(q, h) <=> p \in Owing(queue, h) /\ p # <<k, t>>
      <4>1. CASE p \notin (1..Len(queue)) \X (1..UNLIMITED_TIME_TO_LIVE)
        BY <2>2, <4>1 DEF Owing
      <4>2. CASE p \in (1..Len(queue)) \X (1..UNLIMITED_TIME_TO_LIVE) /\ p[1] # k
        BY <2>2, <4>2 DEF Owing
      <4>3. CASE p \in (1..Len(queue)) \X (1..UNLIMITED_TIME_TO_LIVE) /\ p[1] = k
        <5>1. p = <<k, p[2]>> /\ p[2] \in 1..UNLIMITED_TIME_TO_LIVE
          BY <4>3
        <5>2. p \in Owing(q, h) <=> queue[k].function = h /\ p[2] <= t - 1
          BY <2>1, <2>2, <2>3, <4>3 DEF Owing
        <5>3. p \in Owing(queue, h) <=> queue[k].function = h /\ p[2] <= t
          BY <1>4, <1>7, <4>3 DEF Owing
        <5>4. p[2] \in Int
          BY <5>1, UnlimitedType
        <5>5. p[2] <= t - 1 <=> p[2] <= t /\ p[2] # t
          BY <1>1, <5>4
        <5>6. QED
          BY <5>1, <5>2, <5>3, <5>5
      <4>4. QED
        BY <4>1, <4>2, <4>3
    <3>2. h # queue[k].function => <<k, t>> \notin Owing(queue, h)
      BY DEF Owing
    <3>3. QED
      BY <3>1, <3>2
  <2>6. \A h : Cardinality(Owing(q, h))
                 = Cardinality(Owing(queue, h)) - (IF h = queue[k].function THEN 1 ELSE 0)
    BY <1>5, <1>7, <2>5
  <2>7. QED
    BY <1>7, <2>4, <2>6 DEF q
<1>8. QED
  BY <1>3, <1>6, <1>7

\* what a declaration adds to the queue
LEMMA DeclareOwing ==
  ASSUME queue \in Seq(Expectation), NoneIsSpent(queue), NEW h \in Functions, NEW ttl \in Int,
         NEW cs \in Declarable, Declare(h, ttl, cs)
  PROVE  /\ ttl \in 1..(UNLIMITED_TIME_TO_LIVE - 1) =>
              /\ NoneIsSpent(queue')
              /\ \A g : Cardinality(Owing(queue', g))
                          = Cardinality(Owing(queue, g)) + (IF g = h THEN ttl ELSE 0)
         /\ ttl \in {UNLIMITED_TIME_TO_LIVE, -UNLIMITED_TIME_TO_LIVE} =>
              NoneIsSpent(queue') /\ \A g : Owing(queue', g) = Owing(queue, g)
<1> DEFINE e == [function |-> h, ttl |-> ttl, constraints |-> cs, called |-> 0, triggered |-> 0]
<1>1. e \in Expectation /\ queue' = Append(queue, e) /\ e.function = h /\ e.ttl = ttl
  BY DEF Declare, Expectation
<1> HIDE DEF e
<1>2. CASE ttl \in 1..(UNLIMITED_TIME_TO_LIVE - 1)
  <2>1. ttl # UNLIMITED_TIME_TO_LIVE /\ ttl # -UNLIMITED_TIME_TO_LIVE
    BY <1>2, UnlimitedType
  <2>2. IsLimited(e)
    BY <1>1, <2>1 DEF IsLimited, IsAlways, IsNever
  <2>3. NoneIsSpent(queue')
    BY <1>1, <1>2, <2>2, OwingMore
  <2>4. ASSUME NEW g
        PROVE  Cardinality(Owing(queue', g))
                 = Cardinality(Owing(queue, g)) + (IF g = h THEN ttl ELSE 0)
    <3>1. CASE g = h
      BY <1>1, <1>2, <2>2, <3>1, OwingMore
    <3>2. CASE g # h
      <4>1. Owing(queue', g) = Owing(queue, g)
        BY <1>1, <1>2, <2>2, <3>2, OwingMore
      <4>2. Cardinality(Owing(queue, g)) \in Nat
        BY OwingType
      <4>3. QED
        BY <3>2, <4>1, <4>2
    <3>3. QED
      BY <3>1, <3>2
  <2>5. ttl # UNLIMITED_TIME_TO_LIVE /\ ttl # -UNLIMITED_TIME_TO_LIVE
    BY <2>1
  <2>6. QED
    BY <2>3, <2>4, <2>5
<1>3. CASE ttl \in {UNLIMITED_TIME_TO_LIVE, -UNLIMITED_TIME_TO_LIVE}
  <2>1. ~IsLimited(e)
    BY <1>1, <1>3 DEF IsLimited, IsAlways, IsNever
  <2>2. NoneIsSpent(queue') /\ \A g : Owing(queue', g) = Owing(queue, g)
    BY <1>1, <2>1, OwingMore
  <2>3. ttl \notin 1..(UNLIMITED_TIME_TO_LIVE - 1)
    BY <1>3, UnlimitedType
  <2>4. QED
    BY <2>2, <2>3
<1>4. QED
  BY <1>2, <1>3

\* a test that passes its tally leaves no limited expectation behind
\* a tally without a failure found no expectation that waits for calls
LEMMA TallyLimited ==
  ASSUME TimesAreCalls, DebtInv, Tally, results'["fail"] = 0
  PROVE  results["fail"] = 0 /\ \A i \in 1..Len(queue) : ~IsLimited(queue[i])
<1>1. /\ TypeOK /\ queue \in Seq(Expectation) /\ results \in [{"pass", "fail"} -> Nat]
      /\ NoneIsSpent(queue) /\ ~tallied
      /\ results["fail"] = 0 => \A i \in DOMAIN queue : Agrees(queue[i])
  BY DEF DebtInv, AgreeInv, TypeOK, Tally
<1>2. IsFiniteSet(Counters) /\ IsFiniteSet(Unmet) /\ IsFiniteSet(Counters \ Exact)
  <2>1. IsFiniteSet(1..Len(queue)) /\ Unmet \in SUBSET (1..Len(queue))
    <3>1. Len(queue) \in Int /\ 1 \in Int /\ DOMAIN queue = 1..Len(queue)
      BY <1>1
    <3>2. IsFiniteSet(1..Len(queue))
      BY <3>1, FS_Interval
    <3>3. QED
      BY <3>1, <3>2 DEF Unmet
  <2>2. IsFiniteSet(Counters)
    BY <1>1, CountersAreFinite
  <2>3. QED
    BY <2>1, <2>2, FS_Subset, FS_Difference
<1>3. results["fail"] = 0 /\ Counters \subseteq Exact /\ Unmet = {}
  <2> DEFINE a == Cardinality(Exact) + Cardinality(Obeyed)
             b == Cardinality(Counters \ Exact)
             c == Cardinality(Unmet)
  <2>1. b \in Nat /\ c \in Nat
    BY <1>2, FS_CardinalityType
  <2>2. results'["fail"] = results["fail"] + (b + c)
    <3> HIDE DEF a, b, c
    <3>1. Report(a, b + c)
      BY DEF Tally, a, b, c
    <3>2. QED
      BY <1>1, <3>1 DEF Report
  <2> HIDE DEF b, c
  <2>3. results["fail"] = 0 /\ b = 0 /\ c = 0
    BY <1>1, <2>1, <2>2
  <2>4. Counters \ Exact = {} /\ Unmet = {}
    BY <1>2, <2>3, FS_EmptySet DEF b, c
  <2>5. QED
    BY <2>3, <2>4
<1>4. ASSUME NEW i \in 1..Len(queue) PROVE ~IsLimited(queue[i])
  <2> SUFFICES ASSUME IsLimited(queue[i]) PROVE FALSE
    OBVIOUS
  <2>1. i \in DOMAIN queue /\ queue[i] \in Expectation
    BY <1>1
  <2> DEFINE cs == queue[i].constraints
  <2>2. cs \in Declarable /\ queue[i].ttl \in Int /\ queue[i].called \in Nat
    BY <2>1 DEF Expectation
  <2>3. Those(cs, {"times"}) # {}
    BY <1>3, <2>1 DEF Unmet
  <2>4. PICK c : c \in Those(cs, {"times"})
    BY <2>3
  <2>5. Those(cs, {"times"}) = {c} /\ c \in DOMAIN cs
    BY <2>2, <2>4 DEF TimesAreCalls, Those
  <2>6. <<i, c>> \in Counters
    BY <2>1, <2>4 DEF Counters
  <2>7. queue[i].called = cs[c].count
    BY <1>3, <2>6 DEF Exact
  <2>8. queue[i].ttl + queue[i].called = cs[c].count
    BY <1>1, <1>3, <2>1, <2>5 DEF Agrees
  <2>9. queue[i].ttl \in 1..(UNLIMITED_TIME_TO_LIVE - 1)
    BY <1>1 DEF NoneIsSpent
  <2> HIDE DEF cs
  <2>10. QED
    BY <2>2, <2>7, <2>8, <2>9, UnlimitedType
<1>5. QED
  BY <1>3, <1>4

LEMMA TallyOwing ==
  ASSUME TimesAreCalls, DebtInv, Tally, results'["fail"] = 0
  PROVE  \A h \in Functions : debt[h] = 0
<1>1. \A h : Owing(queue, h) = {}
  BY TallyLimited DEF Owing
<1>2. \A h \in Functions : debt[h] = Cardinality(Owing(queue, h))
  BY TallyLimited DEF DebtInv, Tally
<1>3. QED
  BY <1>1, <1>2, FS_EmptySet

\* within a test, a failure that was reported stays
LEMMA FailuresStay ==
  ASSUME TypeOK, [Next]_vars, ~tallied, results'["fail"] = 0
  PROVE  results["fail"] = 0
<1>0. queue \in Seq(Expectation) /\ results \in [{"pass", "fail"} -> Nat]
  BY DEF TypeOK
<1>1. ASSUME NEW a \in Nat, NEW b \in Nat, Report(a, b) PROVE results["fail"] = 0
  BY <1>0, <1>1 DEF Report
<1>2. ASSUME NEW h \in Functions, Reject(h) \/ ForbiddenCall(h) \/ MisspeltCall(h)
      PROVE  results["fail"] = 0
  <2>1. Report(0, 1)
    BY <1>2 DEF Reject, ForbiddenCall, MisspeltCall
  <2>2. QED
    BY <1>1, <2>1
<1>3. ASSUME NEW h \in Functions, NEW actuals \in Actuals(h), UnexpectedCall(h, actuals)
      PROVE  results["fail"] = 0
  <2>1. Report(0, IF mode = "strict" THEN 1 ELSE 0)
    BY <1>3 DEF UnexpectedCall
  <2>2. QED
    BY <1>1, <2>1
<1>4. ASSUME NEW h \in Functions, NEW actuals \in Actuals(h), AnsweredCall(h, actuals)
      PROVE  results["fail"] = 0
  <2> DEFINE cs   == queue[Find(h)].constraints
             good == {i \in Those(cs, {"compare"}) : Holds(cs[i], actuals)}
             bad  == Those(cs, {"compare"}) \ good
  <2>1. Answer(h) /\ Report(Cardinality(good), Cardinality(bad))
    BY <1>4 DEF AnsweredCall
  <2>2. cs \in Declarable
    BY <1>0, <2>1, AnswerType
  <2>3. IsFiniteSet(Those(cs, {"compare"}))
    BY <2>2, ThoseAreFinite
  <2>4. Cardinality(good) \in Nat /\ Cardinality(bad) \in Nat
    BY <2>3, SubsetsCount
  <2>5. QED
    BY <1>1, <2>1, <2>4
<1>5. CASE Tally
  <2> DEFINE a == Cardinality(Exact) + Cardinality(Obeyed)
             b == Cardinality(Counters \ Exact)
             c == Cardinality(Unmet)
  <2>1. b \in Nat /\ c \in Nat
    <3>1. IsFiniteSet(Counters) /\ IsFiniteSet(1..Len(queue)) /\ Unmet \in SUBSET (1..Len(queue))
      <4>1. Len(queue) \in Int /\ 1 \in Int /\ DOMAIN queue = 1..Len(queue)
        BY <1>0
      <4>2. IsFiniteSet(1..Len(queue))
        BY <4>1, FS_Interval
      <4>3. QED
        BY <1>0, <4>1, <4>2, CountersAreFinite DEF Unmet
    <3>2. QED
      BY <3>1, FS_Subset, FS_Difference, FS_CardinalityType
  <2>2. results'["fail"] = results["fail"] + (b + c)
    <3> HIDE DEF a, b, c
    <3>1. Report(a, b + c)
      BY <1>5 DEF Tally, a, b, c
    <3>2. QED
      BY <1>0, <3>1 DEF Report
  <2> HIDE DEF b, c
  <2>3. QED
    BY <1>0, <2>1, <2>2
<1>6. ASSUME NEW h \in Functions, NEW ttl, NEW cs, Declare(h, ttl, cs) PROVE results["fail"] = 0
  BY <1>6 DEF Declare
<1>7. ASSUME (\E m \in Modes : SetMode(m)) \/ UNCHANGED vars PROVE results["fail"] = 0
  BY <1>7 DEF SetMode, vars
<1>8. QED
  BY <1>2, <1>3, <1>4, <1>5, <1>6, <1>7 DEF Next, NextTest, Expect, AlwaysExpect, NeverExpect

LEMMA DebtStep ==
  ASSUME TimesAreCalls, DebtInv, [Next]_vars
  PROVE  DebtInv'
<1> DEFINE Paid == /\ NoneIsSpent(queue') /\ ~tallied'
                   /\ results'["fail"] = 0 =>
                        \A h \in Functions : debt'[h] = Cardinality(Owing(queue', h))
<1>0. /\ AgreeInv' /\ TypeOK /\ queue \in Seq(Expectation) /\ NoneIsSpent(queue)
      /\ debt \in [Functions -> Int]
      /\ \A h : Cardinality(Owing(queue, h)) \in Nat
      /\ ~tallied /\ results'["fail"] = 0 =>
           \A h \in Functions : debt[h] = Cardinality(Owing(queue, h))
  <2>1. AgreeInv' /\ TypeOK /\ queue \in Seq(Expectation)
    BY AgreeStep DEF DebtInv, AgreeInv, TypeOK
  <2>2. ~tallied /\ results'["fail"] = 0 =>
          \A h \in Functions : debt[h] = Cardinality(Owing(queue, h))
    BY <2>1, FailuresStay DEF DebtInv
  <2>3. QED
    BY <2>1, <2>2, OwingType DEF DebtInv, TypeOK
<1>1. ASSUME UNCHANGED <<queue, debt, tallied>>, ~tallied PROVE Paid
  BY <1>0, <1>1
<1>2. ASSUME NEW h \in Functions, Reject(h) PROVE Paid
  <2>1. ~tallied /\ tallied' = tallied /\ debt' = debt
    BY <1>2 DEF Reject, InTest
  <2>2. CASE HasAlways(h)
    BY <1>1, <1>2, <2>1, <2>2 DEF Reject
  <2>3. CASE ~HasAlways(h)
    <3>1. PICK k \in For(h) : k = (CHOOSE i \in For(h) : IsNever(queue[i])) /\ IsNever(queue[k])
      BY <1>2, <2>3 DEF Reject, HasNever
    <3>2. k \in DOMAIN queue /\ queue' = Without(k)
      BY <1>2, <2>3, <3>1 DEF Reject, For
    <3>3. \A g : {p \in Owing(queue, g) : p[1] # k} = Owing(queue, g)
      BY <3>1 DEF Owing, IsLimited
    <3>4. \A g : Cardinality(Owing(queue', g)) = Cardinality(Owing(queue, g))
      BY <1>0, <3>2, <3>3, OwingWithout
    <3>5. NoneIsSpent(queue')
      <4>1. /\ queue' \in Seq(Expectation) /\ DOMAIN queue' = 1..(Len(queue) - 1)
            /\ \A i \in 1..(Len(queue) - 1) : \E j \in DOMAIN queue : queue'[i] = queue[j]
        BY <1>0, <3>2, WithoutType
      <4>2. DOMAIN queue' = 1..Len(queue') /\ DOMAIN queue = 1..Len(queue)
        BY <1>0, <4>1
      <4>3. \A i \in 1..Len(queue') : \E j \in 1..Len(queue) : queue'[i] = queue[j]
        BY <4>1, <4>2
      <4>4. QED
        BY <1>0, <4>3 DEF NoneIsSpent
    <3>6. QED
      BY <1>0, <2>1, <3>4, <3>5
  <2>4. QED
    BY <2>2, <2>3
<1>3. ASSUME NEW h \in Functions, NEW cs \in Declarable, Expect(h, cs) PROVE Paid
  <2>1. /\ Declare(h, Times(cs), cs) /\ debt' = [debt EXCEPT ![h] = @ + Times(cs)]
        /\ ~tallied /\ ~tallied' /\ Times(cs) \in 1..(UNLIMITED_TIME_TO_LIVE - 1)
        /\ Times(cs) \in Int
    BY <1>3, TimesType DEF Expect, Owes, Declare, InTest, TimesAreCalls
  <2>2. /\ NoneIsSpent(queue')
        /\ \A g : Cardinality(Owing(queue', g))
                    = Cardinality(Owing(queue, g)) + (IF g = h THEN Times(cs) ELSE 0)
    BY <1>0, <2>1, DeclareOwing
  <2>3. QED
    BY <1>0, <2>1, <2>2
<1>4. ASSUME NEW h \in Functions, NEW cs \in Declarable, NEW ttl \in Int, Declare(h, ttl, cs),
             ttl \in {UNLIMITED_TIME_TO_LIVE, -UNLIMITED_TIME_TO_LIVE}, debt' = debt
      PROVE  Paid
  <2>1. ~tallied /\ ~tallied'
    BY <1>4 DEF Declare, InTest
  <2>2. NoneIsSpent(queue') /\ \A g : Owing(queue', g) = Owing(queue, g)
    BY <1>0, <1>4, DeclareOwing
  <2>3. QED
    BY <1>0, <1>4, <2>1, <2>2
<1>5. ASSUME NEW h \in Functions, (\E cs \in Declarable : AlwaysExpect(h, cs)) \/ NeverExpect(h)
      PROVE  Paid
  <2>1. <<>> \in Declarable /\ UNLIMITED_TIME_TO_LIVE \in Int /\ -UNLIMITED_TIME_TO_LIVE \in Int
    BY MocksAssumption, UnlimitedType
  <2> HIDE DEF Paid
  <2>2. QED
    BY <1>4, <1>5, <2>1 DEF AlwaysExpect, NeverExpect
<1>6. ASSUME NEW h \in Functions, ForbiddenCall(h) PROVE Paid
  <2> DEFINE e == Triggered(queue[Find(h)], 0, 1)
  <2>1. Find(h) \in DOMAIN queue /\ queue[Find(h)] \in Expectation
    BY <1>0, <1>6, FindIsFor DEF ForbiddenCall
  <2>2. e \in Expectation /\ e.ttl = queue[Find(h)].ttl /\ e.function = queue[Find(h)].function
    <3>1. 0 \in Nat /\ 1 \in Nat
      OBVIOUS
    <3>2. QED
      BY <2>1, <3>1, TriggeredType, Zenon
  <2>3. /\ queue' = [queue EXCEPT ![Find(h)] = e] /\ ~tallied /\ tallied' = tallied
        /\ results'["fail"] # 0
    BY <1>0, <1>6 DEF ForbiddenCall, Report, InTest, TypeOK
  <2> HIDE DEF e
  <2>4. /\ queue' \in Seq(Expectation) /\ Len(queue') = Len(queue)
        /\ \A i \in 1..Len(queue) :
             queue'[i].function = queue[i].function /\ queue'[i].ttl = queue[i].ttl
    BY <1>0, <2>1, <2>2, <2>3
  <2>5. (\A g : Owing(queue', g) = Owing(queue, g)) /\ NoneIsSpent(queue')
    BY <1>0, <2>4, OwingSame
  <2>6. QED
    BY <1>0, <2>3, <2>5
<1>7. ASSUME NEW h \in Functions, Answer(h), NEW n \in Nat, NEW d \in Nat,
             queue' = Aged(Find(h), Triggered(queue[Find(h)], n, d))
      PROVE  Paid
  <2> DEFINE k == Find(h)
             e == Triggered(queue[k], n, d)
  <2>1. /\ k \in DOMAIN queue /\ queue[k] \in Expectation /\ ~IsNever(queue[k])
        /\ queue[k].function = h
    BY <1>0, <1>7, AnswerType
  <2>2. e \in Expectation /\ e.ttl = queue[k].ttl /\ e.function = queue[k].function
    BY <2>1, TriggeredType
  <2>3. /\ ~tallied /\ tallied' = tallied
        /\ debt' = [debt EXCEPT ![h] = @ + (IF IsAlways(queue[k]) THEN 0 ELSE -1)]
    BY <1>7 DEF Answer, Owes, InTest
  <2> HIDE DEF k, e
  <2>4. queue' = Aged(k, e)
    BY <1>7 DEF k, e
  <2>5. /\ NoneIsSpent(Aged(k, e))
        /\ IsAlways(queue[k]) => \A g : Owing(Aged(k, e), g) = Owing(queue, g)
        /\ ~IsAlways(queue[k]) =>
             \A g : Cardinality(Owing(Aged(k, e), g))
                      = Cardinality(Owing(queue, g)) - (IF g = queue[k].function THEN 1 ELSE 0)
    BY <1>0, <2>1, <2>2, AgedOwing
  <2>6. CASE IsAlways(queue[k])
    BY <1>0, <2>3, <2>4, <2>5, <2>6
  <2>7. CASE ~IsAlways(queue[k])
    BY <1>0, <2>1, <2>3, <2>4, <2>5, <2>7
  <2>8. QED
    BY <2>6, <2>7
<1>8. ASSUME NEW h \in Functions, Answer(h) PROVE queue[Find(h)].constraints \in Declarable
  BY <1>0, <1>8, AnswerType
<1>9. ASSUME NEW h \in Functions, MisspeltCall(h) PROVE Paid
  <2> DEFINE cs == queue[Find(h)].constraints
             N  == {i \in Those(cs, {"times"}) : i < Smallest(Misspelt(h, cs))}
  <2>1. Answer(h) /\ queue' = Aged(Find(h), Triggered(queue[Find(h)], Cardinality(N), 0))
    BY <1>9 DEF MisspeltCall
  <2>2. IsFiniteSet(Those(cs, {"times"})) /\ N \subseteq Those(cs, {"times"})
    BY <1>8, <2>1, ThoseAreFinite
  <2>3. Cardinality(N) \in Nat
    BY <2>2, SubsetsCount
  <2> HIDE DEF N, Paid
  <2>4. QED
    BY <1>7, <2>1, <2>3
<1>10. ASSUME NEW h \in Functions, NEW actuals \in Actuals(h), AnsweredCall(h, actuals)
       PROVE  Paid
  <2> DEFINE n == Cardinality(Those(queue[Find(h)].constraints, {"times"}))
  <2>1. Answer(h) /\ queue' = Aged(Find(h), Triggered(queue[Find(h)], n, 1))
    BY <1>10 DEF AnsweredCall
  <2>2. n \in Nat
    BY <1>8, <2>1, ThoseAreFinite, FS_CardinalityType
  <2> HIDE DEF n, Paid
  <2>3. QED
    BY <1>7, <2>1, <2>2
<1>11. ASSUME Tally
       PROVE  /\ NoneIsSpent(queue') /\ tallied' /\ queue' = <<>>
              /\ results'["fail"] = 0 => \A h \in Functions : debt'[h] = 0
  <2>1. queue' = <<>> /\ tallied' /\ debt' = debt
    BY <1>11 DEF Tally
  <2>2. results'["fail"] = 0 => \A h \in Functions : debt'[h] = 0
    BY <1>11, <2>1, TallyOwing
  <2>3. QED
    BY <2>1, <2>2 DEF NoneIsSpent
<1>12. ASSUME NextTest PROVE Paid
  <2>1. queue' = <<>> /\ ~tallied' /\ debt' = [h \in Functions |-> 0]
    BY <1>12 DEF NextTest
  <2>2. \A h : Owing(queue', h) = {}
    BY <2>1 DEF Owing
  <2>3. NoneIsSpent(queue')
    BY <2>1 DEF NoneIsSpent
  <2>4. QED
    BY <2>1, <2>2, <2>3, FS_EmptySet
<1>13. ASSUME NEW h \in Functions, NEW actuals \in Actuals(h), UnexpectedCall(h, actuals)
       PROVE  Paid
  <2>1. UNCHANGED <<queue, tallied>> /\ ~tallied
    BY <1>13 DEF UnexpectedCall, InTest
  <2>2. results'["fail"] # 0 \/ debt' = debt
    <3>1. CASE mode = "strict"
      BY <1>0, <1>13, <3>1 DEF UnexpectedCall, Report, TypeOK
    <3>2. CASE mode # "strict"
      BY <1>0, <1>13, <3>2 DEF UnexpectedCall, Owes
    <3>3. QED
      BY <3>1, <3>2
  <2>3. QED
    BY <1>0, <2>1, <2>2
<1>14. ASSUME NEW m \in Modes, SetMode(m) PROVE Paid
  BY <1>1, <1>14 DEF SetMode
<1>15. ASSUME Paid PROVE DebtInv'
  BY <1>0, <1>15 DEF DebtInv
<1>16. CASE UNCHANGED vars
  <2>1. /\ NoneIsSpent(queue)'
        /\ ~tallied' /\ results'["fail"] = 0 =>
             \A h \in Functions : debt'[h] = Cardinality(Owing(queue', h))
    BY <1>0, <1>16 DEF vars
  <2>2. tallied' => /\ queue' = <<>>
                    /\ results'["fail"] = 0 => \A h \in Functions : debt'[h] = 0
    BY <1>16 DEF vars, DebtInv
  <2>3. QED
    BY <1>0, <2>1, <2>2 DEF DebtInv
<1> HIDE DEF Paid
<1>17. CASE Tally
  BY <1>0, <1>11, <1>17 DEF DebtInv
<1>18. QED
  BY <1>2, <1>3, <1>5, <1>6, <1>9, <1>10, <1>12, <1>13, <1>14, <1>15, <1>16, <1>17 DEF Next

LEMMA DebtInit == Init => DebtInv
<1> SUFFICES ASSUME Init PROVE DebtInv
  OBVIOUS
<1>1. AgreeInv /\ queue = <<>> /\ ~tallied /\ debt = [h \in Functions |-> 0]
  BY TypeInit DEF Init, AgreeInv
<1>2. (\A h : Owing(queue, h) = {}) /\ NoneIsSpent(queue)
  BY <1>1 DEF Owing, NoneIsSpent
<1>3. QED
  BY <1>1, <1>2, FS_EmptySet DEF DebtInv

(* For any functions and constraint lists of which none asks for zero      *)
(* calls or has two times(), a test with strict mocks that does not fail   *)
(* made all the calls it declared and, while they were strict, no other,   *)
(* whatever it called in between (mocks.c:226, 803).                       *)
THEOREM PassingTestsMadeTheirCalls == ASSUME TimesAreCalls PROVE Spec => []ExactCalls
<1>1. DebtInv /\ [Next]_vars => DebtInv'
  BY DebtStep
<1>2. Init => DebtInv
  BY DebtInit
<1>3. DebtInv => ExactCalls
  BY DEF DebtInv, ExactCalls
<1>4. QED
  BY <1>1, <1>2, <1>3, PTL DEF Spec
-----------------------------------------------------------------------------
(* The calls of a function in the order they are waited for                *)

LEMMA ExpectsType ==
  ASSUME NEW e \in Expectation, NEW h, IsLimited(e) => e.ttl \in Nat
  PROVE  Expects(e, h) \in Seq(Declarable)
<1>1. e.constraints \in Declarable
  BY DEF Expectation
<1>2. QED
  BY <1>1 DEF Expects

\* u is the recursion by which Owed is defined
OwesBy(u, q, h) ==
  /\ u[0] = <<>>
  /\ \A n \in 1..Len(q) : /\ Expects(q[n], h) \in Seq(Declarable)
                         /\ u[n] = u[n-1] \o Expects(q[n], h)
  /\ \A n \in 0..Len(q) : u[n] \in Seq(Declarable)

LEMMA OwedSteps ==
  ASSUME NEW q \in Seq(Expectation), NoneIsSpent(q), NEW h
  PROVE  \E u : OwesBy(u, q, h) /\ Owed(q, h) = u[Len(q)]
<1> DEFINE N == Len(q)
           D == Seq(Declarable)
           Q(u) == u = [n \in 0..Len(q) |->
                          IF n = 0 THEN <<>> ELSE u[n-1] \o Expects(q[n], h)]
           F == CHOOSE u : Q(u)
           I == [n \in 0..N |-> D]
           g == [p \in (1..N) \X D |-> p[2] \o Expects(q[p[1]], h)]
<1>0. N \in Nat /\ \A n \in 1..N : Expects(q[n], h) \in D
  <2>1. N \in Nat
    OBVIOUS
  <2>2. ASSUME NEW n \in 1..N PROVE Expects(q[n], h) \in D
    <3>1. q[n] \in Expectation
      OBVIOUS
    <3>2. IsLimited(q[n]) => q[n].ttl \in Nat
      BY UnlimitedType DEF NoneIsSpent
    <3> HIDE DEF D
    <3>3. QED
      BY <3>1, <3>2, ExpectsType DEF D
  <2>3. QED
    BY <2>1, <2>2
<1>1. \E u : Q(u) /\ \A n \in 0..N : u[n] \in D
  <2>1. ASSUME NEW i \in 1..N, NEW x \in D
        PROVE  g[<<i, x>>] = x \o Expects(q[i], h) /\ g[<<i, x>>] \in D
    <3>1. <<i, x>> \in (1..N) \X D
      OBVIOUS
    <3>2. g[<<i, x>>] = x \o Expects(q[i], h)
      BY <3>1
    <3>3. x \o Expects(q[i], h) \in D
      BY <1>0, ConcatProperties
    <3>4. QED
      BY <3>2, <3>3
  <2>2. <<>> \in I[0] /\ Leads(g, N, I)
    <3>1. <<>> \in D
      OBVIOUS
    <3> HIDE DEF g, N, D
    <3>2. QED
      BY <1>0, <2>1, <3>1 DEF Leads
  <2> HIDE DEF g, I
  <2>3. PICK u : Recurs(u, N, <<>>, g) /\ Within(u, N, I)
    <3> HIDE DEF N
    <3>1. QED
      BY <1>0, <2>2, RecursionExists
  <2>4. \A i \in 0..N : u[i] \in D
    BY <1>0, <2>3 DEF Within, I
  <2>5. /\ u = [i \in 0..N |-> u[i]] /\ u[0] = <<>>
        /\ \A i \in 1..N : u[i] = u[i-1] \o Expects(q[i], h)
    <3>1. u = [i \in 0..N |-> u[i]] /\ u[0] = <<>> /\ \A i \in 1..N : u[i] = g[<<i, u[i-1]>>]
      BY <2>3 DEF Recurs
    <3>2. \A i \in 1..N : u[i-1] \in D
      BY <1>0, <2>4
    <3>3. QED
      BY <2>1, <3>1, <3>2
  <2>6. Q(u)
    <3> HIDE DEF N
    <3>1. \A i \in 0..N : i = 0 \/ i \in 1..N
      BY <1>0
    <3>2. QED
      BY <2>5, <3>1 DEF N
  <2>7. QED
    BY <2>4, <2>6
<1>2. PICK v : Q(v) /\ \A n \in 0..N : v[n] \in D
  BY <1>1
<1>3. Q(F)
  <2> HIDE DEF Q
  <2>1. QED
    BY <1>2
<1>4. Owed(q, h) = F[N]
  BY DEF Owed
<1> HIDE DEF F
<1>5. ASSUME NEW u, Q(u)
      PROVE  u[0] = <<>> /\ \A n \in 1..N : u[n] = u[n-1] \o Expects(q[n], h)
  <2>1. u[0] = <<>>
    BY <1>0, <1>5
  <2>2. ASSUME NEW n \in 1..N PROVE u[n] = u[n-1] \o Expects(q[n], h)
    <3>1. n \in 0..N /\ n # 0
      BY <1>0
    <3>2. QED
      BY <1>5, <3>1
  <2>3. QED
    BY <2>1, <2>2
<1>6. /\ F[0] = <<>> /\ \A n \in 1..N : F[n] = F[n-1] \o Expects(q[n], h)
      /\ v[0] = <<>> /\ \A n \in 1..N : v[n] = v[n-1] \o Expects(q[n], h)
  BY <1>2, <1>3, <1>5
<1>7. \A n \in 0..N : F[n] \in D
  <2> DEFINE A == {n \in 0..N : F[n] = v[n]}
  <2> HIDE DEF N, D, Q
  <2>1. 0 \in A
    BY <1>0, <1>6
  <2>4. ASSUME NEW n \in 1..N, n - 1 \in A PROVE n \in A
    <3>1. n \in 0..N
      BY <1>0
    <3>2. F[n-1] = v[n-1]
      BY <2>4
    <3>3. F[n] = v[n]
      BY <1>6, <3>2
    <3>4. QED
      BY <3>1, <3>3
  <2>2. 0..N \subseteq A
    <3> HIDE DEF A
    <3>1. QED
      BY <1>0, <2>1, <2>4, Stepwise
  <2>3. QED
    BY <1>2, <2>2
<1>8. QED
  BY <1>0, <1>4, <1>6, <1>7 DEF OwesBy

\* from k to m, q waits for what r does d entries earlier
Shifted(q, r, h, d, k, m) == \A n \in (k+1)..m : Expects(q[n], h) = Expects(r[n-d], h)

Follows(u, q, v, r, h, x, d, k, m, i, j) ==
  /\ q \in Seq(Expectation) /\ r \in Seq(Expectation) /\ OwesBy(u, q, h) /\ OwesBy(v, r, h)
  /\ x \in Seq(Declarable) /\ d \in Nat /\ k \in Nat /\ m \in Nat /\ i = k - d /\ j = m - d
  /\ d <= k /\ k <= m /\ m <= Len(q) /\ j <= Len(r)
  /\ u[k] = x \o v[i] /\ Shifted(q, r, h, d, k, m)

Prefixed(y, x, z) == y = x \o z

LEMMA OwedShifts ==
  ASSUME NEW u, NEW q, NEW v, NEW r, NEW h, NEW x, NEW d, NEW k, NEW m, NEW i, NEW j,
         Follows(u, q, v, r, h, x, d, k, m, i, j)
  PROVE  Prefixed(u[m], x, v[j])
<1> USE DEF Follows, Prefixed
<1> DEFINE A == {n \in 0..(m-k) : u[k+n] = x \o v[k + n - d]}
<1>1. 0 \in A
  OBVIOUS
<1>2. ASSUME NEW n \in 1..(m-k), n - 1 \in A PROVE n \in A
  <2> DEFINE c == k + n
  <2>1. /\ c \in 1..Len(q) /\ c - d \in 1..Len(r) /\ c \in (k+1)..m
        /\ c - 1 = k + (n - 1) /\ c - d - 1 = k + (n - 1) - d
        /\ c - 1 \in 0..Len(q) /\ c - d - 1 \in 0..Len(r) /\ (c - d) - 1 = c - d - 1
    OBVIOUS
  <2> HIDE DEF c
  <2>2. u[c-1] = x \o v[c-d-1]
    BY <1>2, <2>1
  <2>3. u[c] = u[c-1] \o Expects(q[c], h) /\ v[c-d] = v[c-d-1] \o Expects(q[c], h)
    BY <2>1 DEF OwesBy, Shifted
  <2>4. v[c-d-1] \in Seq(Declarable) /\ Expects(q[c], h) \in Seq(Declarable)
    BY <2>1 DEF OwesBy, Shifted
  <2>5. (x \o v[c-d-1]) \o Expects(q[c], h) = x \o (v[c-d-1] \o Expects(q[c], h))
    <3> DEFINE y == v[c-d-1]
               z == Expects(q[c], h)
    <3> HIDE DEF y, z
    <3>1. y \in Seq(Declarable) /\ z \in Seq(Declarable)
      BY <2>4 DEF y, z
    <3>2. (x \o y) \o z = x \o (y \o z)
      BY ONLY x \in Seq(Declarable), <3>1, ConcatAssociative
    <3>3. QED
      BY <3>2 DEF y, z
  <2>6. u[c] = x \o v[c-d]
    <3>1. u[c] = (x \o v[c-d-1]) \o Expects(q[c], h)
      BY ONLY <2>2, <2>3, Zenon
    <3>2. u[c] = x \o (v[c-d-1] \o Expects(q[c], h))
      BY ONLY <2>5, <3>1, Zenon
    <3>3. QED
      BY ONLY <2>3, <3>2, Zenon
  <2>7. QED
    BY <2>6 DEF c
<1>3. m - k \in 0..(m-k) /\ m - k \in Nat /\ k + (m - k) = m /\ k + (m - k) - d = j
  OBVIOUS
<1>4. 0..(m-k) \subseteq A
  <2> HIDE DEF A
  <2>1. QED
    BY <1>1, <1>2, <1>3, Stepwise
<1>5. QED
  BY <1>3, <1>4

LEMMA Emptied ==
  ASSUME NEW s \in Seq(Declarable)
  PROVE  s \o <<>> = s /\ <<>> \o s = s /\ <<>> \in Seq(Declarable)
BY ConcatEmptySeq

\* the same expectations wait for the same calls
LEMMA OwedSame ==
  ASSUME NEW q \in Seq(Expectation), NEW r \in Seq(Expectation), NoneIsSpent(q), NoneIsSpent(r),
         Len(r) = Len(q), NEW h, \A i \in 1..Len(q) : Expects(q[i], h) = Expects(r[i], h)
  PROVE  Owed(r, h) = Owed(q, h)
<1> DEFINE n == Len(q)
<1>1. PICK u : OwesBy(u, q, h) /\ Owed(q, h) = u[n]
  BY OwedSteps
<1>2. PICK v : OwesBy(v, r, h) /\ Owed(r, h) = v[n]
  BY OwedSteps
<1>3. /\ n \in Nat /\ v[0] \in Seq(Declarable) /\ v[n] \in Seq(Declarable)
      /\ u[0] = <<>> /\ v[0] = <<>>
  BY <1>1, <1>2 DEF OwesBy
<1>4. <<>> \in Seq(Declarable) /\ u[0] = <<>> \o v[0]
  BY <1>3, Emptied
<1>5. u[n] = <<>> \o v[n]
  <2>1. /\ 0 \in Nat /\ 0 <= 0 /\ 0 <= n /\ n <= Len(q) /\ n <= Len(r) /\ n = n - 0 /\ 0 = 0 - 0
        /\ \A i \in (0+1)..n : i \in 1..n /\ i - 0 = i
    BY <1>3
  <2>2. Shifted(q, r, h, 0, 0, n)
    BY <2>1 DEF Shifted
  <2>3. Follows(u, q, v, r, h, <<>>, 0, 0, n, 0, n)
    BY <1>1, <1>2, <1>3, <1>4, <2>1, <2>2 DEF Follows
  <2>4. Prefixed(u[n], <<>>, v[n])
    BY <2>3, OwedShifts, Zenon
  <2>5. QED
    BY <2>4 DEF Prefixed
<1>6. QED
  BY <1>1, <1>2, <1>3, <1>5, Emptied

LEMMA OwedAppended ==
  ASSUME NEW q \in Seq(Expectation), NEW e \in Expectation, NoneIsSpent(q),
         NoneIsSpent(Append(q, e)), NEW h
  PROVE  Owed(Append(q, e), h) = Owed(q, h) \o Expects(e, h)
<1> DEFINE n == Len(q)
           r == Append(q, e)
<1>0. /\ n \in Nat /\ r \in Seq(Expectation) /\ Len(r) = n + 1 /\ r[n + 1] = e
      /\ \A i \in 1..n : r[i] = q[i]
  OBVIOUS
<1> HIDE DEF r
<1>1. PICK u : OwesBy(u, r, h) /\ Owed(r, h) = u[n + 1]
  BY <1>0, OwedSteps DEF r
<1>2. PICK v : OwesBy(v, q, h) /\ Owed(q, h) = v[n]
  BY OwedSteps
<1>3. /\ v[0] \in Seq(Declarable) /\ v[n] \in Seq(Declarable) /\ u[0] = <<>> /\ v[0] = <<>>
  BY <1>0, <1>1, <1>2 DEF OwesBy
<1>4. <<>> \in Seq(Declarable) /\ u[0] = <<>> \o v[0]
  BY <1>3, Emptied
<1>5. u[n] = <<>> \o v[n]
  <2>1. /\ 0 \in Nat /\ 0 <= 0 /\ 0 <= n /\ n <= Len(r) /\ n <= Len(q) /\ n = n - 0 /\ 0 = 0 - 0
        /\ \A i \in (0+1)..n : i \in 1..n /\ i - 0 = i
    BY <1>0
  <2>2. Shifted(r, q, h, 0, 0, n)
    BY <1>0, <2>1 DEF Shifted
  <2>3. Follows(u, r, v, q, h, <<>>, 0, 0, n, 0, n)
    BY <1>0, <1>1, <1>2, <1>3, <1>4, <2>1, <2>2 DEF Follows
  <2>4. Prefixed(u[n], <<>>, v[n])
    BY <2>3, OwedShifts, Zenon
  <2>5. QED
    BY <2>4 DEF Prefixed
<1>6. u[n + 1] = u[n] \o Expects(e, h)
  <2>1. n + 1 \in 1..Len(r) /\ (n + 1) - 1 = n
    BY <1>0
  <2>2. QED
    BY <1>0, <1>1, <2>1 DEF OwesBy
<1>7. u[n] = v[n]
  BY <1>3, <1>5, Emptied
<1>8. QED
  BY <1>1, <1>2, <1>6, <1>7 DEF r

LEMMA NothingYet ==
  ASSUME NEW q \in Seq(Expectation), NEW h, NEW u, OwesBy(u, q, h),
         NEW m \in 0..Len(q), \A i \in 1..m : Expects(q[i], h) = <<>>
  PROVE  u[m] = <<>>
<1> DEFINE A == {n \in 0..m : u[n] = <<>>}
<1>1. 0 \in A /\ m \in Nat
  BY DEF OwesBy
<1>2. ASSUME NEW n \in 1..m, n - 1 \in A PROVE n \in A
  <2>1. n \in 0..m /\ n \in 1..Len(q) /\ u[n-1] = <<>>
    BY <1>2
  <2>2. u[n] = u[n-1] \o Expects(q[n], h)
    BY <2>1 DEF OwesBy
  <2>3. <<>> \o <<>> = <<>>
    BY Emptied
  <2>4. u[n] = <<>>
    BY <2>1, <2>2, <2>3
  <2>5. QED
    BY <2>1, <2>4
<1>3. 0..m \subseteq A
  <2> HIDE DEF A
  <2>1. QED
    BY <1>1, <1>2, Stepwise
<1>4. QED
  BY <1>1, <1>3

LEMMA OwedUntil ==
  ASSUME NEW q \in Seq(Expectation), NEW r \in Seq(Expectation), NEW h, NEW u, NEW v,
         OwesBy(u, q, h), OwesBy(v, r, h),
         NEW m \in Nat, m <= Len(q), m <= Len(r),
         \A n \in 1..m : Expects(q[n], h) = Expects(r[n], h)
  PROVE  u[m] = v[m]
<1>1. /\ v[0] \in Seq(Declarable) /\ v[m] \in Seq(Declarable) /\ u[0] = <<>> /\ v[0] = <<>>
  BY DEF OwesBy
<1>2. <<>> \in Seq(Declarable) /\ u[0] = <<>> \o v[0]
  BY <1>1, Emptied
<1>3. Shifted(q, r, h, 0, 0, m)
  <2>1. \A n \in (0+1)..m : n \in 1..m /\ n - 0 = n
    OBVIOUS
  <2>2. QED
    BY <2>1 DEF Shifted
<1>4. 0 \in Nat /\ 0 <= 0 /\ 0 <= m /\ m = m - 0 /\ 0 = 0 - 0
  OBVIOUS
<1>5. u[m] = <<>> \o v[m]
  <2>1. Follows(u, q, v, r, h, <<>>, 0, 0, m, 0, m)
    BY <1>2, <1>3, <1>4 DEF Follows
  <2>2. Prefixed(u[m], <<>>, v[m])
    BY <2>1, OwedShifts, Zenon
  <2>3. QED
    BY <2>2 DEF Prefixed
<1>6. QED
  BY <1>1, <1>4, <1>5, Emptied

\* r is q without its entry at k
Removed(q, r, k) ==
  /\ k \in 1..Len(q) /\ Len(r) = Len(q) - 1
  /\ \A i \in 1..Len(r) : r[i] = IF i < k THEN q[i] ELSE q[i + 1]

\* an entry that waits for nothing, or before which none waits, can go
LEMMA OwedRemoved ==
  ASSUME NEW q \in Seq(Expectation), NEW r \in Seq(Expectation), NoneIsSpent(q), NoneIsSpent(r),
         NEW k, Removed(q, r, k), NEW h, NEW x, x = Expects(q[k], h),
         x = <<>> \/ \A i \in 1..(k-1) : Expects(q[i], h) = <<>>
  PROVE  Prefixed(Owed(q, h), x, Owed(r, h)) /\ Owed(r, h) \in Seq(Declarable)
<1> DEFINE n == Len(q)
<1>0. /\ n \in Nat /\ k \in 1..n /\ Len(r) = n - 1 /\ k - 1 \in Nat /\ k - 1 <= Len(q)
      /\ k - 1 <= Len(r) /\ k - 1 \in 0..Len(q) /\ k - 1 \in 0..Len(r) /\ Len(r) \in 0..Len(r)
  BY DEF Removed
<1>1. PICK u : OwesBy(u, q, h) /\ Owed(q, h) = u[n]
  BY OwedSteps
<1>2. PICK v : OwesBy(v, r, h) /\ Owed(r, h) = v[Len(r)]
  BY OwedSteps
<1>3. /\ u[k] = u[k-1] \o x /\ x \in Seq(Declarable) /\ u[k-1] \in Seq(Declarable)
      /\ v[k-1] \in Seq(Declarable) /\ v[Len(r)] \in Seq(Declarable)
  BY <1>0, <1>1, <1>2 DEF OwesBy
<1>4. u[k-1] = v[k-1]
  <2>1. \A i \in 1..(k-1) : r[i] = q[i]
    BY <1>0 DEF Removed
  <2>2. \A i \in 1..(k-1) : Expects(q[i], h) = Expects(r[i], h)
    BY <2>1
  <2>3. QED
    BY <1>0, <1>1, <1>2, <2>2, OwedUntil
<1>5. u[k] = x \o v[k-1]
  <2>1. CASE x = <<>>
    <3>1. u[k-1] \o x = x \o u[k-1]
      BY <1>3, <2>1, Emptied
    <3>2. QED
      BY ONLY <1>3, <1>4, <3>1
  <2>2. CASE \A i \in 1..(k-1) : Expects(q[i], h) = <<>>
    <3>1. u[k-1] = <<>>
      BY <1>0, <1>1, <2>2, NothingYet
    <3>2. <<>> \o x = x \o <<>>
      BY <1>3, Emptied
    <3>3. u[k] = <<>> \o x /\ v[k-1] = <<>>
      BY <1>3, <1>4, <3>1
    <3>4. QED
      BY <3>2, <3>3
  <2>3. QED
    BY <2>1, <2>2
<1>6. Shifted(q, r, h, 1, k, Len(q))
  <2>1. \A i \in (k+1)..Len(q) : i - 1 \in 1..Len(r) /\ ~(i - 1 < k) /\ (i - 1) + 1 = i
    BY <1>0
  <2>2. \A i \in (k+1)..Len(q) : r[i-1] = q[i]
    BY <2>1 DEF Removed
  <2>3. QED
    BY <2>2 DEF Shifted
<1>7. u[Len(q)] = x \o v[Len(r)]
  <2>1. /\ 1 \in Nat /\ k \in Nat /\ n \in Nat /\ 1 <= k /\ k <= n /\ n <= Len(q)
        /\ Len(r) <= Len(r) /\ Len(r) = n - 1
    BY <1>0
  <2>2. Follows(u, q, v, r, h, x, 1, k, n, k - 1, Len(r))
    BY <1>1, <1>2, <1>3, <1>5, <1>6, <2>1 DEF Follows
  <2>3. Prefixed(u[n], x, v[Len(r)])
    BY <2>2, OwedShifts, Zenon
  <2>4. QED
    BY <2>3 DEF Prefixed
<1>8. QED
  BY <1>1, <1>2, <1>3, <1>7 DEF Prefixed

\* the first entry that waits for a call can wait for one call less
LEMMA OwedShorter ==
  ASSUME NEW q \in Seq(Expectation), NEW r \in Seq(Expectation), NoneIsSpent(q), NoneIsSpent(r),
         Len(r) = Len(q), NEW k \in 1..Len(q), NEW h,
         \A i \in 1..Len(q) : i # k => r[i] = q[i],
         \A i \in 1..(k-1) : Expects(q[i], h) = <<>>,
         NEW x \in Seq(Declarable), NEW y \in Seq(Declarable),
         Expects(r[k], h) = y, Prefixed(Expects(q[k], h), x, y)
  PROVE  Prefixed(Owed(q, h), x, Owed(r, h)) /\ Owed(r, h) \in Seq(Declarable)
<1> DEFINE n == Len(q)
<1>0. /\ n \in Nat /\ k - 1 \in 0..Len(q) /\ k - 1 \in 0..Len(r) /\ k \in 1..Len(r) /\ n \in 0..Len(r)
      /\ k = k - 0 /\ \A i \in 1..(k-1) : i \in 1..n /\ i # k
      /\ \A i \in (k+1)..n : i \in 1..n /\ i # k /\ i - 0 = i
  OBVIOUS
<1>1. PICK u : OwesBy(u, q, h) /\ Owed(q, h) = u[n]
  BY OwedSteps
<1>2. PICK v : OwesBy(v, r, h) /\ Owed(r, h) = v[Len(r)]
  BY OwedSteps
<1>3. /\ u[k] = u[k-1] \o Expects(q[k], h) /\ Expects(q[k], h) \in Seq(Declarable)
      /\ v[k] = v[k-1] \o y /\ v[Len(r)] \in Seq(Declarable) /\ v[k] \in Seq(Declarable)
  <2>1. u[k] = u[k-1] \o Expects(q[k], h) /\ Expects(q[k], h) \in Seq(Declarable)
    BY ONLY <1>1, k \in 1..Len(q) DEF OwesBy
  <2>2. v[k] = v[k-1] \o Expects(r[k], h)
    BY ONLY <1>0, <1>2 DEF OwesBy
  <2>3. v[Len(r)] \in Seq(Declarable) /\ v[k] \in Seq(Declarable)
    BY ONLY <1>0, <1>2, r \in Seq(Expectation) DEF OwesBy
  <2>4. QED
    BY ONLY <2>1, <2>2, <2>3, Expects(r[k], h) = y
<1>4. u[k-1] = <<>> /\ v[k-1] = <<>>
  <2>1. \A i \in 1..(k-1) : Expects(r[i], h) = <<>>
    BY ONLY <1>0, \A i \in 1..(k-1) : Expects(q[i], h) = <<>>,
            \A i \in 1..Len(q) : i # k => r[i] = q[i]
  <2>2. k - 1 \in 0..Len(q) /\ k - 1 \in 0..Len(r)
    BY <1>0
  <2>3. u[k-1] = <<>>
    BY ONLY <1>1, <2>2, q \in Seq(Expectation), \A i \in 1..(k-1) : Expects(q[i], h) = <<>>,
            NothingYet
  <2>4. v[k-1] = <<>>
    BY ONLY <1>2, <2>1, <2>2, r \in Seq(Expectation), NothingYet
  <2>5. QED
    BY <2>3, <2>4
<1>5. u[k] = x \o v[k]
  <2>1. <<>> \o Expects(q[k], h) = Expects(q[k], h) /\ <<>> \o y = y
    BY <1>3, Emptied
  <2>2. u[k] = Expects(q[k], h) /\ v[k] = y
    BY ONLY <1>3, <1>4, <2>1
  <2>3. u[k] = x \o y
    BY ONLY <2>2, Prefixed(Expects(q[k], h), x, y) DEF Prefixed
  <2>4. QED
    BY ONLY <2>2, <2>3
<1>6. Shifted(q, r, h, 0, k, Len(q))
  <2>1. ASSUME NEW i \in (k+1)..n PROVE r[i] = q[i] /\ i - 0 = i
    BY <1>0
  <2>2. QED
    BY <2>1 DEF Shifted
<1>7. u[Len(q)] = x \o v[Len(r)]
  <2>1. /\ 0 \in Nat /\ k \in Nat /\ n \in Nat /\ 0 <= k /\ k <= n /\ n <= Len(q)
        /\ Len(r) <= Len(r) /\ Len(r) = n - 0
    BY <1>0
  <2>2. Follows(u, q, v, r, h, x, 0, k, n, k, Len(r))
    BY <1>0, <1>1, <1>2, <1>5, <1>6, <2>1 DEF Follows
  <2>3. Prefixed(u[n], x, v[Len(r)])
    BY <2>2, OwedShifts, Zenon
  <2>4. QED
    BY <2>3 DEF Prefixed
<1>8. QED
  BY <1>1, <1>2, <1>3, <1>7 DEF Prefixed

\* nothing is owed just when no entry waits
LEMMA OwedNothing ==
  ASSUME NEW q \in Seq(Expectation), NoneIsSpent(q), NEW h
  PROVE  /\ Owed(q, h) \in Seq(Declarable)
         /\ Owed(q, h) = <<>> <=> \A i \in 1..Len(q) : Expects(q[i], h) = <<>>
<1>1. PICK u : OwesBy(u, q, h) /\ Owed(q, h) = u[Len(q)]
  BY OwedSteps
<1>2. Len(q) \in 0..Len(q) /\ u[Len(q)] \in Seq(Declarable)
  BY <1>1 DEF OwesBy
<1>3. ASSUME \A i \in 1..Len(q) : Expects(q[i], h) = <<>> PROVE u[Len(q)] = <<>>
  BY <1>1, <1>2, <1>3, NothingYet
<1>4. ASSUME NEW k \in 1..Len(q), Expects(q[k], h) # <<>> PROVE u[Len(q)] # <<>>
  <2> DEFINE m == Len(q) - k
             A == {n \in 0..m : u[k+n] # <<>>}
  <2>1. m \in Nat /\ m \in 0..m /\ k + m = Len(q) /\ k - 1 \in 0..Len(q)
    OBVIOUS
  <2>2. \A y, z \in Seq(Declarable) : y # <<>> \/ z # <<>> => y \o z # <<>>
    <3>1. ASSUME NEW y \in Seq(Declarable), NEW z \in Seq(Declarable), y \o z = <<>>
          PROVE  y = <<>> /\ z = <<>>
      <4>1. Len(y \o z) = Len(y) + Len(z) /\ Len(y \o z) = 0
        BY <3>1
      <4>2. Len(y) = 0 /\ Len(z) = 0
        BY <4>1
      <4>3. QED
        BY <4>2
    <3>2. QED
      BY <3>1
  <2>3. 0 \in A
    <3>1. /\ u[k] = u[k-1] \o Expects(q[k], h) /\ u[k-1] \in Seq(Declarable)
          /\ Expects(q[k], h) \in Seq(Declarable)
      BY <1>1, <2>1 DEF OwesBy
    <3>2. u[k] # <<>>
      BY <1>4, <2>2, <3>1
    <3>3. k + 0 = k
      OBVIOUS
    <3>4. QED
      BY <2>1, <3>2, <3>3
  <2>4. ASSUME NEW n \in 1..m, n - 1 \in A PROVE n \in A
    <3>1. k + n \in 1..Len(q) /\ (k + n) - 1 = k + (n - 1) /\ (k + n) - 1 \in 0..Len(q) /\ n \in 0..m
      BY <2>1
    <3>2. /\ u[k+n] = u[(k+n)-1] \o Expects(q[k+n], h) /\ u[(k+n)-1] \in Seq(Declarable)
          /\ Expects(q[k+n], h) \in Seq(Declarable)
      BY <1>1, <3>1 DEF OwesBy
    <3>3. u[(k+n)-1] # <<>>
      BY <2>4, <3>1
    <3>4. u[k+n] # <<>>
      BY <2>2, <3>2, <3>3
    <3>5. QED
      BY <3>1, <3>4
  <2>5. 0..m \subseteq A
    <3> HIDE DEF A, m
    <3>1. QED
      BY <2>1, <2>3, <2>4, Stepwise
  <2>6. QED
    BY <2>1, <2>5
<1>5. QED
  BY <1>1, <1>2, <1>3, <1>4

LEMMA NothingExpected ==
  ASSUME NEW e, NEW h, e.function # h \/ ~IsLimited(e)
  PROVE  Expects(e, h) = <<>>
BY DEF Expects

\* an expectation waits for one call and those that are left after it
LEMMA SomeExpected ==
  ASSUME NEW e \in Expectation, IsLimited(e), e.ttl \in Nat \ {0}
  PROVE  LET cs   == e.constraints
             rest == [i \in 1..(e.ttl - 1) |-> cs]
         IN  /\ rest \in Seq(Declarable) /\ <<cs>> \in Seq(Declarable)
             /\ Prefixed(Expects(e, e.function), <<cs>>, rest)
             /\ Expects(e, e.function) # <<>>
<1> DEFINE cs   == e.constraints
           n    == e.ttl
           rest == [i \in 1..(n - 1) |-> cs]
           all  == [i \in 1..n |-> cs]
<1>1. cs \in Declarable /\ n \in Nat \ {0} /\ Expects(e, e.function) = all
  BY DEF Expects, Expectation
<1> HIDE DEF cs, n
<1>2. rest \in Seq(Declarable) /\ <<cs>> \in Seq(Declarable) /\ all \in Seq(Declarable)
      /\ Len(rest) = n - 1 /\ Len(<<cs>>) = 1 /\ Len(all) = n /\ <<cs>>[1] = cs
      /\ \A i \in 1..(n-1) : rest[i] = cs
  BY <1>1
<1> DEFINE both == <<cs>> \o rest
<1>3. /\ both \in Seq(Declarable) /\ Len(both) = n
      /\ \A i \in 1..n : both[i] = IF i <= 1 THEN <<cs>>[i] ELSE rest[i - 1]
  BY <1>1, <1>2, ConcatProperties
<1>4. \A i \in 1..n : both[i] = all[i]
  <2>1. ASSUME NEW i \in 1..n PROVE both[i] = cs
    <3>1. CASE i = 1
      BY <1>2, <1>3, <3>1
    <3>2. CASE i # 1
      <4>1. i - 1 \in 1..(n-1) /\ ~(i <= 1)
        BY <1>1, <3>2
      <4>2. QED
        BY <1>2, <1>3, <4>1
    <3>3. QED
      BY <3>1, <3>2
  <2>2. QED
    BY <2>1
<1>5. both = all
  <2> HIDE DEF both, all
  <2>1. QED
    BY <1>2, <1>3, <1>4, SeqEqual
<1>6. all # <<>>
  <2>1. Len(all) # Len(<<>>)
    BY <1>1, <1>2
  <2>2. QED
    BY <2>1
<1>7. QED
  BY <1>1, <1>2, <1>5, <1>6 DEF cs, n, Prefixed

LEMMA FirstAndRest ==
  ASSUME NEW S, NEW c \in S, NEW s \in Seq(S)
  PROVE  Head(<<c>> \o s) = c /\ Tail(<<c>> \o s) = s /\ <<c>> \o s # <<>>
<1> DEFINE b == <<c>> \o s
<1>1. <<c>> \in Seq(S) /\ Len(<<c>>) = 1 /\ <<c>>[1] = c /\ Len(s) \in Nat
  OBVIOUS
<1>2. /\ b \in Seq(S) /\ Len(b) = Len(s) + 1
      /\ \A i \in 1..(Len(s) + 1) : b[i] = IF i <= 1 THEN <<c>>[i] ELSE s[i - 1]
  BY <1>1, ConcatProperties
<1> HIDE DEF b
<1>3. b[1] = c /\ b # <<>> /\ Tail(b) \in Seq(S) /\ Len(Tail(b)) = Len(s)
  BY <1>1, <1>2
<1>4. \A i \in 1..Len(s) : Tail(b)[i] = s[i]
  <2>1. ASSUME NEW i \in 1..Len(s) PROVE Tail(b)[i] = s[i]
    <3>1. i + 1 \in 1..(Len(s) + 1) /\ ~(i + 1 <= 1) /\ (i + 1) - 1 = i
      BY <1>1
    <3>2. Tail(b)[i] = b[i + 1]
      BY <1>1, <1>2, <3>1
    <3>3. QED
      BY <1>2, <3>1, <3>2
  <2>2. QED
    BY <2>1
<1>5. Tail(b) = s
  BY <1>3, <1>4, SeqEqual
<1>6. Head(b) = c
  BY <1>2, <1>3
<1>7. QED
  BY <1>3, <1>5, <1>6 DEF b
-----------------------------------------------------------------------------
(* What holds of a function after the calls that are owed                  *)

\* the unlimited expectations of h in a queue
Ends(q, h) ==
  {<<q[i].ttl, q[i].constraints>> : i \in {j \in 1..Len(q) : q[j].function = h /\ ~IsLimited(q[j])}}

EndOf(how, cs) == [how |-> how, constraints |-> cs]

LastIs(E, l) ==
  \/ E = {} /\ l = EndOf("none", <<>>)
  \/ \E cs : E = {<<UNLIMITED_TIME_TO_LIVE, cs>>} /\ l = EndOf("always", cs)
  \/ \E cs : E = {<<-UNLIMITED_TIME_TO_LIVE, cs>>} /\ l = EndOf("never", <<>>)

LEMMA LastSame ==
  ASSUME NEW E, NEW l, NEW m, LastIs(E, l), LastIs(E, m)
  PROVE  l = m
<1>1. UNLIMITED_TIME_TO_LIVE # -UNLIMITED_TIME_TO_LIVE
  BY UnlimitedType
<1>2. ASSUME NEW n, NEW o, NEW cs, NEW ds, {<<n, cs>>} = {<<o, ds>>} PROVE n = o /\ cs = ds
  <2>1. <<n, cs>> = <<o, ds>>
    BY <1>2, Zenon
  <2>2. QED
    BY <2>1
<1>3. \A n, cs : {<<n, cs>>} # {}
  OBVIOUS
<1> DEFINE A(y) == E = {} /\ y = EndOf("none", <<>>)
           B(y) == \E cs : E = {<<UNLIMITED_TIME_TO_LIVE, cs>>} /\ y = EndOf("always", cs)
           C(y) == \E cs : E = {<<-UNLIMITED_TIME_TO_LIVE, cs>>} /\ y = EndOf("never", <<>>)
<1>4. (A(l) \/ B(l) \/ C(l)) /\ (A(m) \/ B(m) \/ C(m))
  BY DEF LastIs
<1>5. ASSUME B(l), B(m) PROVE l = m
  <2>1. PICK cs : E = {<<UNLIMITED_TIME_TO_LIVE, cs>>} /\ l = EndOf("always", cs)
    BY <1>5
  <2>2. PICK ds : E = {<<UNLIMITED_TIME_TO_LIVE, ds>>} /\ m = EndOf("always", ds)
    BY <1>5
  <2>3. cs = ds
    BY ONLY <1>2, <2>1, <2>2
  <2>4. QED
    BY <2>1, <2>2, <2>3
<1>6. ASSUME NEW x, NEW y, B(x), C(y) PROVE FALSE
  <2>1. PICK cs : E = {<<UNLIMITED_TIME_TO_LIVE, cs>>}
    BY <1>6
  <2>2. PICK ds : E = {<<-UNLIMITED_TIME_TO_LIVE, ds>>}
    BY <1>6
  <2> DEFINE N == -UNLIMITED_TIME_TO_LIVE
  <2>3. E = {<<N, ds>>}
    BY <2>2
  <2> HIDE DEF N
  <2>4. {<<UNLIMITED_TIME_TO_LIVE, cs>>} = {<<N, ds>>}
    BY ONLY <2>1, <2>3, Zenon
  <2>5. UNLIMITED_TIME_TO_LIVE = N
    BY ONLY <1>2, <2>4, Zenon
  <2>6. QED
    BY <1>1, <2>5 DEF N
<1>7. (A(l) => ~B(m) /\ ~C(m)) /\ (A(m) => ~B(l) /\ ~C(l))
  BY <1>3
<1>8. (A(l) /\ A(m) => l = m) /\ (C(l) /\ C(m) => l = m)
  OBVIOUS
<1> HIDE DEF A, B, C
<1>9. QED
  BY <1>4, <1>5, <1>6, <1>7, <1>8

LEMMA LastView == TypeOK /\ NothingBehindUnlimited => \A h : LastIs(Ends(queue, h), LastOf(h))
<1> SUFFICES ASSUME TypeOK, NothingBehindUnlimited, NEW h
             PROVE  LastIs(Ends(queue, h), LastOf(h))
  OBVIOUS
<1>0. queue \in Seq(Expectation) /\ DOMAIN queue = 1..Len(queue) /\ Len(queue) \in Nat
  BY DEF TypeOK
<1>1. ASSUME NEW i \in For(h), NEW j \in For(h), ~IsLimited(queue[i]), ~IsLimited(queue[j])
      PROVE  i = j
  BY <1>0, <1>1 DEF For, NothingBehindUnlimited
<1>2. ASSUME NEW i \in For(h), ~IsLimited(queue[i])
      PROVE  Ends(queue, h) = {<<queue[i].ttl, queue[i].constraints>>}
  <2>1. {j \in 1..Len(queue) : queue[j].function = h /\ ~IsLimited(queue[j])} = {i}
    BY <1>0, <1>1, <1>2 DEF For
  <2>2. QED
    BY <2>1 DEF Ends
<1>3. CASE HasAlways(h)
  <2>1. PICK k \in For(h) : k = CHOOSE i \in For(h) : IsAlways(queue[i])
    BY <1>3 DEF HasAlways
  <2>2. IsAlways(queue[k])
    BY <1>3, <2>1 DEF HasAlways
  <2>3. LastOf(h) = EndOf("always", queue[k].constraints)
    BY <1>3, <2>1 DEF LastOf, EndOf
  <2>4. Ends(queue, h) = {<<UNLIMITED_TIME_TO_LIVE, queue[k].constraints>>}
    BY <1>2, <2>2 DEF IsLimited, IsAlways
  <2>5. QED
    BY <2>3, <2>4 DEF LastIs
<1>4. CASE ~HasAlways(h) /\ HasNever(h)
  <2>1. PICK k \in For(h) : IsNever(queue[k])
    BY <1>4 DEF HasNever
  <2>2. LastOf(h) = EndOf("never", <<>>)
    BY <1>4 DEF LastOf, EndOf
  <2>3. Ends(queue, h) = {<<-UNLIMITED_TIME_TO_LIVE, queue[k].constraints>>}
    BY <1>2, <2>1 DEF IsLimited, IsNever
  <2>4. QED
    BY <2>2, <2>3 DEF LastIs
<1>5. CASE ~HasAlways(h) /\ ~HasNever(h)
  <2>1. LastOf(h) = EndOf("none", <<>>)
    BY <1>5 DEF LastOf, EndOf
  <2>2. {j \in 1..Len(queue) : queue[j].function = h /\ ~IsLimited(queue[j])} = {}
    BY <1>0, <1>5 DEF HasAlways, HasNever, For, IsLimited
  <2>3. QED
    BY <2>1, <2>2 DEF LastIs, Ends
<1>6. QED
  BY <1>3, <1>4, <1>5

\* what changes in neither place does not change what is promised of h
SameFor(q, r, h) == Owed(r, h) = Owed(q, h) /\ Ends(r, h) = Ends(q, h)

Appended(r, q, e) == r = Append(q, e)

AppendSeen(r, q, e, h) ==
  /\ e.function # h => SameFor(q, r, h)
  /\ e.function = h =>
       /\ Prefixed(Owed(r, h), Owed(q, h), Expects(e, h))
       /\ ~IsLimited(e) => Owed(r, h) = Owed(q, h)
       /\ IsLimited(e) => Ends(r, h) = Ends(q, h)

LEMMA AppendedView ==
  ASSUME NEW q \in Seq(Expectation), NEW e \in Expectation, NoneIsSpent(q),
         NEW r, Appended(r, q, e), NoneIsSpent(r), NEW h
  PROVE  AppendSeen(r, q, e, h)
<1>0. r = Append(q, e)
  BY DEF Appended
<1>1. /\ Len(q) \in Nat /\ Len(r) = Len(q) + 1 /\ r[Len(q) + 1] = e
      /\ \A i \in 1..Len(q) : r[i] = q[i]
  BY <1>0
<1>2. Owed(r, h) = Owed(q, h) \o Expects(e, h) /\ Owed(q, h) \in Seq(Declarable)
  BY <1>0, OwedAppended, OwedNothing
<1>3. e.function # h \/ ~IsLimited(e) => Owed(r, h) = Owed(q, h)
  BY <1>2, NothingExpected, Emptied
<1>4. 1..Len(r) = (1..Len(q)) \cup {Len(q) + 1} /\ Len(q) + 1 \notin 1..Len(q)
  BY <1>1
<1>5. Ends(r, h) = Ends(q, h) \cup
        (IF e.function = h /\ ~IsLimited(e) THEN {<<e.ttl, e.constraints>>} ELSE {})
  <2> DEFINE I(s) == {j \in 1..Len(s) : s[j].function = h /\ ~IsLimited(s[j])}
             T(s, j) == <<s[j].ttl, s[j].constraints>>
  <2>1. I(r) = I(q) \cup (IF e.function = h /\ ~IsLimited(e) THEN {Len(q) + 1} ELSE {})
    BY <1>1, <1>4
  <2>2. \A j \in I(q) : T(r, j) = T(q, j)
    BY <1>1
  <2>3. T(r, Len(q) + 1) = <<e.ttl, e.constraints>>
    BY <1>1
  <2>4. Ends(r, h) = {T(r, j) : j \in I(r)} /\ Ends(q, h) = {T(q, j) : j \in I(q)}
    BY DEF Ends
  <2> HIDE DEF I, T
  <2>5. QED
    BY <2>1, <2>2, <2>3, <2>4
<1>6. QED
  BY <1>2, <1>3, <1>5 DEF SameFor, Prefixed, AppendSeen

LEMMA UnchangedView ==
  ASSUME NEW q \in Seq(Expectation), NEW r \in Seq(Expectation), NoneIsSpent(q), NoneIsSpent(r),
         Len(r) = Len(q),
         \A i \in 1..Len(q) : /\ r[i].function = q[i].function /\ r[i].ttl = q[i].ttl
                             /\ r[i].constraints = q[i].constraints,
         NEW h
  PROVE  SameFor(q, r, h)
<1>1. \A i \in 1..Len(q) : Expects(q[i], h) = Expects(r[i], h)
  BY DEF Expects, IsLimited, IsAlways, IsNever
<1>2. Owed(r, h) = Owed(q, h)
  BY <1>1, OwedSame
<1>3. Ends(r, h) = Ends(q, h)
  BY DEF Ends, IsLimited, IsAlways, IsNever
<1>4. QED
  BY <1>2, <1>3 DEF SameFor

LEMMA RemovedView ==
  ASSUME NEW q \in Seq(Expectation), NEW r \in Seq(Expectation), NEW k, Removed(q, r, k), NEW h
  PROVE  q[k].function # h \/ IsLimited(q[k]) => Ends(r, h) = Ends(q, h)
<1> DEFINE I(s) == {j \in 1..Len(s) : s[j].function = h /\ ~IsLimited(s[j])}
           T(s, j) == <<s[j].ttl, s[j].constraints>>
           old(i) == IF i < k THEN i ELSE i + 1
<1>1. /\ Len(q) \in Nat /\ Len(r) = Len(q) - 1 /\ k \in 1..Len(q)
      /\ \A i \in 1..Len(r) : r[i] = q[old(i)] /\ old(i) \in 1..Len(q) /\ old(i) # k
      /\ \A i \in 1..Len(q) : i # k => \E j \in 1..Len(r) : i = old(j)
  <2>1. Len(q) \in Nat /\ Len(r) = Len(q) - 1 /\ k \in 1..Len(q)
    BY DEF Removed
  <2>2. \A i \in 1..Len(r) : r[i] = q[old(i)] /\ old(i) \in 1..Len(q) /\ old(i) # k
    BY <2>1 DEF Removed
  <2>3. ASSUME NEW i \in 1..Len(q), i # k PROVE \E j \in 1..Len(r) : i = old(j)
    <3>1. CASE i < k
      BY <2>1, <3>1
    <3>2. CASE i > k
      <4>1. i - 1 \in 1..Len(r) /\ old(i - 1) = i
        BY <2>1, <3>2
      <4>2. QED
        BY <4>1
    <3>3. QED
      BY <2>1, <2>3, <3>1, <3>2
  <2>4. QED
    BY <2>1, <2>2, <2>3
<1> HIDE DEF old
<1>2. Ends(r, h) = {T(r, j) : j \in I(r)} /\ Ends(q, h) = {T(q, j) : j \in I(q)}
  BY DEF Ends
<1>3. Ends(r, h) \subseteq Ends(q, h)
  <2>1. \A j \in I(r) : old(j) \in I(q) /\ T(r, j) = T(q, old(j))
    BY <1>1
  <2> HIDE DEF I, T
  <2>2. QED
    BY <1>2, <2>1
<1>4. ASSUME NEW i \in I(q), i # k PROVE T(q, i) \in Ends(r, h)
  <2>1. PICK j \in 1..Len(r) : i = old(j)
    BY <1>1, <1>4
  <2>2. j \in I(r) /\ T(r, j) = T(q, i)
    BY <1>1, <1>4, <2>1
  <2> HIDE DEF I, T
  <2>3. QED
    BY <1>2, <2>2
<1>5. k \in I(q) <=> q[k].function = h /\ ~IsLimited(q[k])
  BY <1>1
<1> HIDE DEF I, T
<1>6. QED
  BY <1>2, <1>3, <1>4, <1>5
-----------------------------------------------------------------------------
(* The calls that expectations answer, as the contract sees them           *)

LEMMA LastViewNext ==
  (TypeOK /\ NothingBehindUnlimited)' => (\A h : LastIs(Ends(queue, h), LastOf(h)))'
BY LastView, PTL

\* what the steps below know of the states before and after
Known ==
  /\ TypeOK /\ NothingBehindUnlimited /\ NoneIsSpent(queue)
  /\ \A h : LastIs(Ends(queue, h), LastOf(h))

Kept(h) == Owed(queue', h) = Owed(queue, h) /\ LastOf(h)' = LastOf(h)

LEMMA SameIsKept ==
  ASSUME Known, Known', NEW h, SameFor(queue, queue', h)
  PROVE  Kept(h)
<1>1. LastIs(Ends(queue, h), LastOf(h)) /\ LastIs(Ends(queue', h), LastOf(h)')
  BY DEF Known
<1>2. Ends(queue', h) = Ends(queue, h) /\ Owed(queue', h) = Owed(queue, h)
  BY DEF SameFor
<1>3. LastIs(Ends(queue, h), LastOf(h)')
  BY <1>1, <1>2
<1>4. LastOf(h)' = LastOf(h)
  BY <1>1, <1>3, LastSame
<1>5. QED
  BY <1>2, <1>4 DEF Kept

\* an unlimited expectation says what holds last
LEMMA LastOfUnlimited ==
  ASSUME Known, NEW k \in DOMAIN queue, NEW h, queue[k].function = h
  PROVE  /\ IsAlways(queue[k]) => LastOf(h) = EndOf("always", queue[k].constraints)
         /\ IsNever(queue[k]) => LastOf(h) = EndOf("never", <<>>)
<1> DEFINE cs == queue[k].constraints
<1>0. k \in 1..Len(queue) /\ LastIs(Ends(queue, h), LastOf(h))
  BY DEF Known, TypeOK
<1>1. ~IsLimited(queue[k]) => <<queue[k].ttl, cs>> \in Ends(queue, h)
  BY <1>0 DEF Ends
<1>2. UNLIMITED_TIME_TO_LIVE # -UNLIMITED_TIME_TO_LIVE
  BY UnlimitedType
<1> DEFINE N == -UNLIMITED_TIME_TO_LIVE
<1>3. /\ IsAlways(queue[k]) => <<UNLIMITED_TIME_TO_LIVE, cs>> \in Ends(queue, h)
      /\ IsNever(queue[k]) => <<N, cs>> \in Ends(queue, h)
  BY <1>1 DEF IsLimited, IsAlways, IsNever
<1>4. \/ Ends(queue, h) = {}
      \/ \E ds : Ends(queue, h) = {<<UNLIMITED_TIME_TO_LIVE, ds>>} /\ LastOf(h) = EndOf("always", ds)
      \/ \E ds : Ends(queue, h) = {<<N, ds>>} /\ LastOf(h) = EndOf("never", <<>>)
  BY <1>0 DEF LastIs
<1>5. UNLIMITED_TIME_TO_LIVE # N
  BY <1>2
<1> HIDE DEF N, cs
<1>6. CASE Ends(queue, h) = {}
  BY <1>3, <1>6
<1>7. ASSUME NEW ds, Ends(queue, h) = {<<UNLIMITED_TIME_TO_LIVE, ds>>},
             LastOf(h) = EndOf("always", ds)
      PROVE  (IsAlways(queue[k]) => LastOf(h) = EndOf("always", cs)) /\ ~IsNever(queue[k])
  <2>1. \A n, bs : <<n, bs>> \in Ends(queue, h) => n = UNLIMITED_TIME_TO_LIVE /\ bs = ds
    BY ONLY <1>7
  <2>2. QED
    BY <1>3, <1>5, <1>7, <2>1
<1>8. ASSUME NEW ds, Ends(queue, h) = {<<N, ds>>}, LastOf(h) = EndOf("never", <<>>)
      PROVE  ~IsAlways(queue[k])
  <2>1. \A n, bs : <<n, bs>> \in Ends(queue, h) => n = N
    BY ONLY <1>8
  <2>2. QED
    BY <1>3, <1>5, <2>1
<1>9. QED
  BY <1>4, <1>6, <1>7, <1>8 DEF cs

\* the expectation found is the first, and the only one if it is unlimited
LEMMA FoundIsFirst ==
  ASSUME Known, NEW h, For(h) # {}
  PROVE  LET k == Find(h)
         IN  /\ k \in DOMAIN queue /\ queue[k] \in Expectation /\ queue[k].function = h
             /\ \A i \in 1..(k-1) : Expects(queue[i], h) = <<>>
             /\ ~IsLimited(queue[k]) => Owed(queue, h) = <<>>
<1> DEFINE k == Find(h)
<1>0. queue \in Seq(Expectation) /\ DOMAIN queue = 1..Len(queue) /\ Len(queue) \in Nat
  BY DEF Known, TypeOK
<1>1. k \in DOMAIN queue /\ k \in For(h)
  BY <1>0, FindIsFor
<1>2. queue[k] \in Expectation /\ queue[k].function = h
  BY <1>0, <1>1 DEF For
<1>3. \A j \in For(h) : k <= j
  <2>1. For(h) \subseteq Nat
    BY <1>0 DEF For
  <2>2. \E i \in For(h) : \A j \in For(h) : i <= j
    BY <2>1, LeastExists
  <2>3. QED
    BY <2>2 DEF Find
<1> HIDE DEF k
<1>4. \A i \in 1..(k-1) : queue[i].function # h
  BY <1>0, <1>1, <1>3 DEF For
<1>5. \A i \in 1..(k-1) : Expects(queue[i], h) = <<>>
  BY <1>4, NothingExpected
<1>6. ASSUME ~IsLimited(queue[k]) PROVE Owed(queue, h) = <<>>
  <2>1. \A i \in 1..Len(queue) : queue[i].function = h => i = k
    BY <1>0, <1>1, <1>2, <1>3, <1>6 DEF Known, NothingBehindUnlimited, For
  <2>2. \A i \in 1..Len(queue) : Expects(queue[i], h) = <<>>
    BY <1>6, <2>1, NothingExpected
  <2>3. QED
    BY <1>0, <2>2, OwedNothing DEF Known
<1>7. QED
  BY <1>1, <1>2, <1>5, <1>6 DEF k

LEMMA WithoutRemoves ==
  ASSUME queue \in Seq(Expectation), NEW k \in DOMAIN queue
  PROVE  Removed(queue, Without(k), k)
<1>1. /\ Without(k) \in Seq(Expectation) /\ DOMAIN Without(k) = 1..(Len(queue) - 1)
      /\ \A i \in 1..(Len(queue) - 1) : Without(k)[i] = IF i < k THEN queue[i] ELSE queue[i + 1]
  BY WithoutType
<1>2. Len(Without(k)) = Len(queue) - 1
  BY <1>1
<1>3. QED
  BY <1>1, <1>2 DEF Removed

\* an answered call takes the first call that is owed, or none if there is no end to them
AnswerSeen(h, cs) ==
  /\ \A g : g # h => Kept(g)
  /\ LastOf(h)' = LastOf(h)
  /\ \/ /\ Owed(queue', h) \in Seq(Declarable) /\ Owed(queue, h) = <<cs>> \o Owed(queue', h)
     \/ /\ Owed(queue, h) = <<>> /\ Owed(queue', h) = <<>> /\ LastOf(h) = EndOf("always", cs)

LEMMA AnswerView ==
  ASSUME Known, Known', NEW h \in Functions, Answer(h), NEW n \in Nat, NEW d \in Nat,
         queue' = Aged(Find(h), Triggered(queue[Find(h)], n, d))
  PROVE  AnswerSeen(h, queue[Find(h)].constraints)
<1> DEFINE k  == Find(h)
           e  == Triggered(queue[k], n, d)
           cs == queue[k].constraints
<1>0. /\ queue \in Seq(Expectation) /\ queue' \in Seq(Expectation)
      /\ NoneIsSpent(queue) /\ NoneIsSpent(queue')
      /\ DOMAIN queue = 1..Len(queue) /\ Len(queue) \in Nat
  BY DEF Known, TypeOK
<1>1. /\ k \in DOMAIN queue /\ queue[k] \in Expectation /\ queue[k].function = h
      /\ \A i \in 1..(k-1) : Expects(queue[i], h) = <<>>
      /\ ~IsLimited(queue[k]) => Owed(queue, h) = <<>>
  BY FoundIsFirst DEF Answer
<1>2. ~IsNever(queue[k]) /\ queue' = Aged(k, e)
  BY DEF Answer
<1>3. /\ e \in Expectation /\ e.function = h /\ e.ttl = queue[k].ttl /\ e.constraints = cs
      /\ cs \in Declarable
  BY <1>1, TriggeredType DEF Triggered, Expectation
<1> HIDE DEF k, e, cs
<1>4. <<cs>> \in Seq(Declarable)
  BY <1>3
<1>5. CASE IsAlways(queue[k])
  <2>1. queue' = [queue EXCEPT ![k] = e]
    BY <1>2, <1>3, <1>5 DEF Aged, IsAlways
  <2>2. Len(queue') = Len(queue) /\
        \A i \in 1..Len(queue) : /\ queue'[i].function = queue[i].function
                                 /\ queue'[i].ttl = queue[i].ttl
                                 /\ queue'[i].constraints = queue[i].constraints
    BY <1>0, <1>1, <1>3, <2>1 DEF cs
  <2>3. \A g : SameFor(queue, queue', g)
    BY <1>0, <2>2, UnchangedView
  <2>4. \A g : Kept(g)
    BY <2>3, SameIsKept
  <2>5. Owed(queue, h) = <<>> /\ LastOf(h) = EndOf("always", cs)
    BY <1>1, <1>5, LastOfUnlimited DEF IsLimited, cs
  <2>6. QED
    BY <2>4, <2>5 DEF AnswerSeen, Kept, cs, k
<1>6. ASSUME IsLimited(queue[k]),
             \A g : Ends(queue', g) = Ends(queue, g),
             \A g : g # h => Owed(queue', g) = Owed(queue, g),
             Owed(queue', h) \in Seq(Declarable), Owed(queue, h) = <<cs>> \o Owed(queue', h)
      PROVE  AnswerSeen(h, cs)
  <2>1. ASSUME NEW g PROVE LastOf(g)' = LastOf(g)
    <3>1. LastIs(Ends(queue, g), LastOf(g)) /\ LastIs(Ends(queue', g), LastOf(g)')
      BY DEF Known
    <3>2. LastIs(Ends(queue, g), LastOf(g)')
      BY <1>6, <3>1
    <3>3. QED
      BY <3>1, <3>2, LastSame
  <2>2. QED
    BY <1>6, <2>1 DEF AnswerSeen, Kept
<1>7. CASE IsLimited(queue[k]) /\ e.ttl <= 1
  <2>1. queue[k].ttl = 1 /\ queue' = Without(k)
    BY <1>0, <1>1, <1>2, <1>3, <1>7 DEF Aged, NoneIsSpent, IsLimited, IsAlways
  <2>2. Removed(queue, queue', k)
    BY <1>0, <1>1, <2>1, WithoutRemoves
  <2>3. \A g : Ends(queue', g) = Ends(queue, g)
    <3>1. queue \in Seq(Expectation) /\ queue' \in Seq(Expectation) /\ IsLimited(queue[k])
      BY <1>0, <1>7
    <3>2. QED
      BY ONLY <2>2, <3>1, RemovedView
  <2>4. Expects(queue[k], h) = <<cs>>
    <3>1. [i \in 1..1 |-> cs] = <<cs>>
      OBVIOUS
    <3>2. QED
      BY <1>1, <1>7, <2>1, <3>1 DEF Expects, cs
  <2>5. Owed(queue, h) = <<cs>> \o Owed(queue', h) /\ Owed(queue', h) \in Seq(Declarable)
    <3>1. Prefixed(Owed(queue, h), <<cs>>, Owed(queue', h)) /\ Owed(queue', h) \in Seq(Declarable)
      BY <1>0, <1>1, <2>2, <2>4, OwedRemoved, ZenonT(20)
    <3>2. QED
      BY <3>1 DEF Prefixed
  <2>6. ASSUME NEW g, g # h PROVE Owed(queue', g) = Owed(queue, g)
    <3>1. Expects(queue[k], g) = <<>>
      BY <1>1, <2>6, NothingExpected
    <3>2. Prefixed(Owed(queue, g), <<>>, Owed(queue', g)) /\ Owed(queue', g) \in Seq(Declarable)
      BY <1>0, <2>2, <3>1, OwedRemoved, Zenon
    <3>3. QED
      BY <3>2, Emptied DEF Prefixed
  <2>7. AnswerSeen(h, cs)
    BY <1>6, <1>7, <2>3, <2>5, <2>6
  <2>8. QED
    BY <2>7 DEF cs, k
<1>8. CASE IsLimited(queue[k]) /\ ~(e.ttl <= 1)
  <2> DEFINE o == Older(e)
  <2>1. queue' = [queue EXCEPT ![k] = o]
    BY <1>2, <1>3, <1>8 DEF Aged, IsLimited, IsAlways
  <2>2. /\ o \in Expectation /\ o.function = h /\ o.ttl = queue[k].ttl - 1 /\ o.constraints = cs
        /\ queue[k].ttl \in 2..(UNLIMITED_TIME_TO_LIVE - 1) /\ UNLIMITED_TIME_TO_LIVE \in Nat
    <3>1. queue[k].ttl \in 1..(UNLIMITED_TIME_TO_LIVE - 1) /\ UNLIMITED_TIME_TO_LIVE \in Nat
      BY <1>0, <1>1, <1>8, UnlimitedType DEF NoneIsSpent
    <3>2. queue[k].ttl \in 2..(UNLIMITED_TIME_TO_LIVE - 1)
      BY <1>3, <1>8, <3>1
    <3>3. o \in Expectation /\ o.function = h /\ o.ttl = queue[k].ttl - 1 /\ o.constraints = cs
      BY <1>3, <3>1 DEF Older, Expectation
    <3>4. QED
      BY <3>1, <3>2, <3>3
  <2>3. IsLimited(o)
    BY <2>2 DEF IsLimited, IsAlways, IsNever
  <2> HIDE DEF o
  <2>4. /\ k \in 1..Len(queue) /\ Len(queue') = Len(queue) /\ queue'[k] = o
        /\ \A i \in 1..Len(queue) : i # k => queue'[i] = queue[i]
    BY <1>0, <1>1, <2>1
  <2>5. \A g : Ends(queue', g) = Ends(queue, g)
    <3>1. ASSUME NEW g PROVE Ends(queue', g) = Ends(queue, g)
      <4> DEFINE I(s) == {j \in 1..Len(s) : s[j].function = g /\ ~IsLimited(s[j])}
                 T(s, j) == <<s[j].ttl, s[j].constraints>>
      <4>1. I(queue') = I(queue) /\ k \notin I(queue) /\ I(queue) \subseteq 1..Len(queue)
        BY <1>8, <2>3, <2>4
      <4>2. \A j \in I(queue) : T(queue', j) = T(queue, j)
        BY <2>4, <4>1
      <4>3. Ends(queue', g) = {T(queue', j) : j \in I(queue')} /\ Ends(queue, g) = {T(queue, j) : j \in I(queue)}
        BY DEF Ends
      <4> HIDE DEF I, T
      <4>4. QED
        BY <4>1, <4>2, <4>3
    <3>2. QED
      BY <3>1
  <2>6. ASSUME NEW g, g # h PROVE Owed(queue', g) = Owed(queue, g)
    <3>1. Expects(queue[k], g) = <<>> /\ Expects(o, g) = <<>>
      BY <1>1, <2>2, <2>6, NothingExpected
    <3>2. \A i \in 1..Len(queue) : Expects(queue[i], g) = Expects(queue'[i], g)
      BY <2>4, <3>1
    <3>3. QED
      BY <1>0, <2>4, <3>2, OwedSame
  <2>7. Owed(queue, h) = <<cs>> \o Owed(queue', h) /\ Owed(queue', h) \in Seq(Declarable)
    <3> DEFINE y == [i \in 1..(queue[k].ttl - 1) |-> cs]
    <3>1. y \in Seq(Declarable) /\ Prefixed(Expects(queue[k], h), <<cs>>, y)
      <4>1. queue[k].ttl \in Nat \ {0} /\ IsLimited(queue[k]) /\ queue[k].function = h
        BY <1>1, <1>8, <2>2
      <4>2. QED
        BY <1>1, <4>1, SomeExpected DEF cs
    <3>2. Expects(o, h) = y
      BY <2>2, <2>3 DEF Expects
    <3> HIDE DEF y
    <3>3. Prefixed(Owed(queue, h), <<cs>>, Owed(queue', h)) /\ Owed(queue', h) \in Seq(Declarable)
      BY <1>0, <1>1, <1>4, <2>4, <3>1, <3>2, OwedShorter, Zenon
    <3>4. QED
      BY <3>3 DEF Prefixed
  <2>8. AnswerSeen(h, cs)
    BY <1>6, <1>8, <2>5, <2>6, <2>7
  <2>9. QED
    BY <2>8 DEF cs, k
<1>9. QED
  BY <1>2, <1>5, <1>7, <1>8 DEF IsLimited

(* What a call gives back                                                  *)

LEMMA SatisfiedIs ==
  ASSUME NEW h, NEW cs, NEW actuals
  PROVE  /\ Misspelt(h, cs) # {} => ~Contract!Satisfies(h, cs, actuals)
         /\ Misspelt(h, cs) = {} =>
              (Contract!Satisfies(h, cs, actuals)
                 <=> Those(cs, {"compare"}) \ {i \in Those(cs, {"compare"}) : Holds(cs[i], actuals)} = {})
<1>1. Misspelt(h, cs) = {} <=> \A i \in DOMAIN cs :
        cs[i].kind \in {"compare", "set", "capture"} => cs[i].parameter \in Parameters[h]
  BY DEF Misspelt, Those
<1>2. Those(cs, {"compare"}) \ {i \in Those(cs, {"compare"}) : Holds(cs[i], actuals)} = {}
        <=> \A i \in DOMAIN cs : cs[i].kind = "compare" => actuals[cs[i].parameter] = cs[i].value
  BY DEF Those, Holds
<1>3. QED
  BY <1>1, <1>2 DEF Contract!Satisfies

LEMMA WithIs ==
  ASSUME NEW cs, NEW kind
  PROVE  Contract!With(cs, kind) = Those(cs, {kind})
BY DEF Contract!With, Those

LEMMA ResultIs ==
  ASSUME NEW cs
  PROVE  ResultOf(cs) = IF Contract!With(cs, "return") = {} THEN Default
                        ELSE cs[CHOOSE i \in Contract!With(cs, "return") :
                                  \A j \in Contract!With(cs, "return") : i <= j].value
<1> DEFINE R == Those(cs, {"return"})
           W == Contract!With(cs, "return")
<1>1. W = R
  BY WithIs
<1>2. ResultOf(cs) = IF R = {} THEN Default ELSE cs[CHOOSE i \in R : \A j \in R : i <= j].value
  BY DEF ResultOf, Smallest
<1> HIDE DEF R, W
<1>3. ResultOf(cs) = IF W = {} THEN Default ELSE cs[CHOOSE i \in W : \A j \in W : i <= j].value
  BY <1>1, <1>2
<1>4. QED
  BY <1>3 DEF W

LEMMA GivesResult ==
  ASSUME NEW h, NEW cs, NEW actuals, ~Contract!Satisfies(h, cs, actuals),
         response' = Only(ResultOf(cs))
  PROVE  Contract!Gives(h, cs, actuals)
<1>1. response'.result = ResultOf(cs)
  BY DEF Only
<1>2. QED
  BY <1>1, ResultIs DEF Contract!Gives

LEMMA GivesResponse ==
  ASSUME NEW h, NEW cs \in Declarable, NEW actuals, response' = Response(cs, actuals)
  PROVE  Contract!Gives(h, cs, actuals)
<1>1. /\ response'.result = ResultOf(cs)
      /\ response'.set = {<<cs[i].parameter, cs[i].value>> : i \in Those(cs, {"set"})}
      /\ response'.captured = {<<cs[i].parameter, actuals[cs[i].parameter]>> : i \in Those(cs, {"capture"})}
      /\ response'.effects = Cardinality(Those(cs, {"effect"}))
  BY DEF Response
<1>2. Cardinality(Those(cs, {"effect"})) > 0 <=> Those(cs, {"effect"}) # {}
  <2>1. IsFiniteSet(Those(cs, {"effect"}))
    BY ThoseAreFinite
  <2>2. Cardinality(Those(cs, {"effect"})) \in Nat
        /\ (Cardinality(Those(cs, {"effect"})) = 0 <=> Those(cs, {"effect"}) = {})
    BY <2>1, FS_CardinalityType, FS_EmptySet
  <2>3. QED
    BY <2>2
<1>3. /\ Contract!With(cs, "set") = Those(cs, {"set"})
      /\ Contract!With(cs, "capture") = Those(cs, {"capture"})
      /\ Contract!With(cs, "effect") = Those(cs, {"effect"})
  BY WithIs
<1>4. QED
  BY <1>1, <1>2, <1>3, ResultIs DEF Contract!Gives
-----------------------------------------------------------------------------
(* Every step is one that the contract allows                              *)

LEMMA OwedBecomes ==
  ASSUME NEW h \in Functions, NEW w, Owed(queue', h) = w,
         \A g \in Functions : g # h => Owed(queue', g) = Owed(queue, g)
  PROVE  owed' = [owed EXCEPT ![h] = w]
BY DEF owed

LEMMA LastBecomes ==
  ASSUME NEW h \in Functions, NEW l, LastOf(h)' = l,
         \A g \in Functions : g # h => LastOf(g)' = LastOf(g)
  PROVE  last' = [last EXCEPT ![h] = l]
BY DEF last

LEMMA OwedStays ==
  ASSUME \A g \in Functions : Owed(queue', g) = Owed(queue, g)
  PROVE  owed' = owed
BY DEF owed

LEMMA LastStays ==
  ASSUME \A g \in Functions : LastOf(g)' = LastOf(g)
  PROVE  last' = last
BY DEF last

LEMMA FailedIs ==
  ASSUME results \in [{"pass", "fail"} -> Nat], NEW a \in Nat, NEW b \in Nat, Report(a, b)
  PROVE  failed' = (failed \/ b > 0)
BY DEF Report, failed

LEMMA CallStep ==
  ASSUME Known, Known', NEW h \in Functions, NEW actuals \in Actuals(h),
         Contract!Call(h, actuals), InTest, UNCHANGED <<mode, tallied>>
  PROVE  Contract!Next
BY DEF Contract!Next, Contract!Step, InTest, Actuals

LEMMA AnswerStep ==
  ASSUME Known, Known', NEW h \in Functions, NEW actuals \in Actuals(h), Answer(h),
         NEW cs, AnswerSeen(h, cs), Contract!Gives(h, cs, actuals),
         failed' = (failed \/ ~Contract!Satisfies(h, cs, actuals))
  PROVE  Contract!Next
<1>1. InTest /\ UNCHANGED <<mode, tallied>>
  BY DEF Answer
<1>2. last' = last
  BY LastStays DEF AnswerSeen, Kept
<1>3. CASE Owed(queue', h) \in Seq(Declarable) /\ Owed(queue, h) = <<cs>> \o Owed(queue', h)
  <2> DEFINE s == Owed(queue', h)
  <2>1. cs \in Declarable
    <3>1. Owed(queue, h) \in Seq(Declarable)
      BY OwedNothing DEF Known, TypeOK
    <3>2. QED
      BY <3>1, <1>3
  <2>2. Head(Owed(queue, h)) = cs /\ Tail(Owed(queue, h)) = s /\ Owed(queue, h) # <<>>
    BY <1>3, <2>1, FirstAndRest
  <2>3. owed[h] = Owed(queue, h)
    BY DEF owed
  <2>4. owed' = [owed EXCEPT ![h] = s]
    BY OwedBecomes DEF AnswerSeen, Kept
  <2> HIDE DEF s
  <2>5. owed' = [owed EXCEPT ![h] = Tail(@)] /\ owed[h] # <<>> /\ Head(owed[h]) = cs
    BY <2>2, <2>3, <2>4
  <2>6. Contract!Call(h, actuals)
    BY <1>2, <2>5 DEF Contract!Call
  <2>7. QED
    BY <1>1, <2>6, CallStep
<1>4. CASE Owed(queue, h) = <<>> /\ Owed(queue', h) = <<>> /\ LastOf(h) = EndOf("always", cs)
  <2>1. owed' = owed
    BY <1>4, OwedStays DEF AnswerSeen, Kept
  <2>2. owed[h] = <<>> /\ last[h] = EndOf("always", cs)
    BY <1>4 DEF owed, last
  <2>3. last[h].how = "always" /\ last[h].constraints = cs
    BY <2>2 DEF EndOf
  <2>4. Contract!Call(h, actuals)
    BY <1>2, <2>1, <2>2, <2>3 DEF Contract!Call
  <2>5. QED
    BY <1>1, <2>4, CallStep
<1>5. QED
  BY <1>3, <1>4 DEF AnswerSeen

LEMMA SomeActuals == ASSUME NEW h \in Functions PROVE \E actuals : actuals \in Actuals(h)
<1>1. PICK v : v \in Values
  BY MocksAssumption
<1>2. [p \in Parameters[h] |-> v] \in Actuals(h)
  BY <1>1 DEF Actuals
<1>3. QED
  BY <1>2

LEMMA MisspeltStep ==
  ASSUME Known, Known', NEW h \in Functions, MisspeltCall(h)
  PROVE  Contract!Next
<1> DEFINE e  == queue[Find(h)]
           cs == e.constraints
           N  == {i \in Those(cs, {"times"}) : i < Smallest(Misspelt(h, cs))}
<1>1. /\ TypeOK /\ Answer(h) /\ Misspelt(h, cs) # {} /\ Report(0, 1) /\ response' = Only(ResultOf(cs))
      /\ queue' = Aged(Find(h), Triggered(e, Cardinality(N), 0))
  BY DEF Known, MisspeltCall
<1>2. cs \in Declarable
  BY <1>1, AnswerType
<1>3. Cardinality(N) \in Nat
  <2>1. IsFiniteSet(Those(cs, {"times"})) /\ N \subseteq Those(cs, {"times"})
    BY <1>2, ThoseAreFinite
  <2>2. QED
    BY <2>1, SubsetsCount
<1> HIDE DEF N
<1>4. AnswerSeen(h, cs)
  BY <1>1, <1>3, AnswerView
<1>5. failed' = (failed \/ 1 > 0)
  BY <1>1, FailedIs DEF TypeOK
<1>6. PICK actuals : actuals \in Actuals(h)
  BY SomeActuals
<1> HIDE DEF cs
<1>7. ~Contract!Satisfies(h, cs, actuals)
  BY <1>1, SatisfiedIs
<1>8. Contract!Gives(h, cs, actuals)
  BY <1>1, <1>7, GivesResult
<1>9. failed' = (failed \/ ~Contract!Satisfies(h, cs, actuals))
  BY <1>5, <1>7
<1>10. QED
  BY <1>1, <1>4, <1>6, <1>8, <1>9, AnswerStep

LEMMA AnsweredStep ==
  ASSUME Known, Known', NEW h \in Functions, NEW actuals \in Actuals(h), AnsweredCall(h, actuals)
  PROVE  Contract!Next
<1> DEFINE e    == queue[Find(h)]
           cs   == e.constraints
           C    == Those(cs, {"compare"})
           good == {i \in C : Holds(cs[i], actuals)}
           bad  == C \ good
           n    == Cardinality(Those(cs, {"times"}))
<1>1. /\ TypeOK /\ Answer(h) /\ Misspelt(h, cs) = {} /\ response' = Response(cs, actuals)
      /\ Report(Cardinality(good), Cardinality(bad))
      /\ queue' = Aged(Find(h), Triggered(e, n, 1))
  BY DEF Known, AnsweredCall
<1>2. cs \in Declarable
  BY <1>1, AnswerType
<1>3. n \in Nat /\ 1 \in Nat
  BY <1>2, ThoseAreFinite, SubsetsCount
<1>4. IsFiniteSet(C)
  BY <1>2, ThoseAreFinite
<1> HIDE DEF n
<1>5. AnswerSeen(h, cs)
  BY <1>1, <1>3, AnswerView
<1>6. Contract!Satisfies(h, cs, actuals) <=> bad = {}
  BY <1>1, SatisfiedIs
<1>7. Contract!Gives(h, cs, actuals)
  BY <1>1, <1>2, GivesResponse
<1> HIDE DEF C
<1>8. good \subseteq C /\ bad \subseteq C
  OBVIOUS
<1> HIDE DEF good, bad, cs
<1>9. Cardinality(good) \in Nat /\ Cardinality(bad) \in Nat
  BY <1>4, <1>8, SubsetsCount
<1>10. Cardinality(bad) = 0 <=> bad = {}
  BY <1>4, <1>8, FS_Subset, FS_EmptySet
<1>11. failed' = (failed \/ Cardinality(bad) > 0)
  BY <1>1, <1>9, FailedIs DEF TypeOK
<1>12. failed' = (failed \/ ~Contract!Satisfies(h, cs, actuals))
  BY <1>6, <1>9, <1>10, <1>11
<1>13. QED
  BY <1>1, <1>5, <1>7, <1>12, AnswerStep

LEMMA UnexpectedStep ==
  ASSUME Known, Known', NEW h \in Functions, NEW actuals \in Actuals(h), UnexpectedCall(h, actuals)
  PROVE  Contract!Next
<1> DEFINE b == IF mode = "strict" THEN 1 ELSE 0
<1>1. /\ TypeOK /\ For(h) = {} /\ queue' = queue /\ Report(0, b) /\ response' = Only(Default)
      /\ InTest /\ UNCHANGED <<mode, tallied>>
  BY DEF Known, UnexpectedCall
<1>2. failed' = (failed \/ b > 0)
  BY <1>1, FailedIs DEF TypeOK
<1>3. /\ owed' = owed
      /\ last' = last
  BY <1>1 DEF owed, last, LastOf, HasAlways, HasNever, For, IsAlways, IsNever
<1>4. owed[h] = <<>>
  <2>1. \A i \in 1..Len(queue) : queue[i].function # h
    BY <1>1 DEF For, TypeOK
  <2>2. Owed(queue, h) = <<>>
    BY <1>1, <2>1, NothingExpected, OwedNothing DEF Known, TypeOK
  <2>3. QED
    BY <2>2 DEF owed
<1>5. last[h] = EndOf("none", <<>>)
  BY <1>1 DEF last, LastOf, HasAlways, HasNever, EndOf
<1>6. last[h].how # "always" /\ last[h].how # "never"
  BY <1>5 DEF EndOf
<1>7. response' = Contract!Nothing
  BY <1>1 DEF Contract!Nothing, Only
<1>8. failed' = (failed \/ last[h].how = "never" \/ mode = "strict")
  BY <1>2, <1>6
<1>9. Contract!Call(h, actuals)
  BY <1>3, <1>4, <1>6, <1>7, <1>8 DEF Contract!Call
<1>10. QED
  BY <1>1, <1>9, CallStep

LEMMA ForbiddenStep ==
  ASSUME Known, Known', NEW h \in Functions, ForbiddenCall(h)
  PROVE  Contract!Next
<1> DEFINE k == Find(h)
           e == Triggered(queue[k], 0, 1)
<1>1. /\ TypeOK /\ For(h) # {} /\ IsNever(queue[k]) /\ queue' = [queue EXCEPT ![k] = e]
      /\ Report(0, 1) /\ response' = Only(Default) /\ InTest /\ UNCHANGED <<mode, tallied>>
  BY DEF Known, ForbiddenCall
<1>2. k \in DOMAIN queue /\ queue[k] \in Expectation /\ queue[k].function = h
      /\ (~IsLimited(queue[k]) => Owed(queue, h) = <<>>)
  BY <1>1, FoundIsFirst
<1> HIDE DEF k
<1>3. /\ queue \in Seq(Expectation) /\ queue' \in Seq(Expectation)
      /\ NoneIsSpent(queue) /\ NoneIsSpent(queue')
  BY DEF Known, TypeOK
<1>4. e.function = queue[k].function /\ e.ttl = queue[k].ttl /\ e.constraints = queue[k].constraints
  BY DEF Triggered
<1> HIDE DEF e
<1>5. Len(queue') = Len(queue) /\
      \A i \in 1..Len(queue) : /\ queue'[i].function = queue[i].function
                               /\ queue'[i].ttl = queue[i].ttl
                               /\ queue'[i].constraints = queue[i].constraints
  BY <1>1, <1>2, <1>3, <1>4
<1>6. \A g : SameFor(queue, queue', g)
  BY <1>3, <1>5, UnchangedView
<1>7. \A g : Kept(g)
  BY <1>6, SameIsKept
<1>8. owed' = owed /\ last' = last
  BY <1>7, OwedStays, LastStays DEF Kept
<1>9. owed[h] = <<>>
  BY <1>1, <1>2 DEF owed, IsLimited
<1>10. LastOf(h) = EndOf("never", <<>>)
  BY <1>1, <1>2, LastOfUnlimited
<1>11. last[h].how = "never"
  BY <1>10 DEF last, EndOf
<1>12. failed' = (failed \/ 1 > 0)
  BY <1>1, FailedIs DEF TypeOK
<1>13. response' = Contract!Nothing
  BY <1>1 DEF Contract!Nothing, Only
<1>14. PICK actuals : actuals \in Actuals(h)
  BY SomeActuals
<1>15. Contract!Call(h, actuals)
  BY <1>8, <1>9, <1>11, <1>12, <1>13 DEF Contract!Call
<1>16. QED
  BY <1>1, <1>14, <1>15, CallStep

LEMMA StepIsNext ==
  ASSUME InTest, UNCHANGED <<mode, tallied>>, NEW h \in Functions,
         \/ \E cs \in Declarable : Contract!Owe(h, cs)
         \/ \E cs \in Declarable : Contract!End(h, "always", cs)
         \/ Contract!End(h, "never", <<>>)
         \/ Contract!Refuse(h)
  PROVE  Contract!Next
BY DEF Contract!Next, Contract!Step, InTest

LEMMA DeclareView ==
  ASSUME Known, Known', NEW h \in Functions, NEW ttl \in Int, NEW cs \in Declarable,
         Declare(h, ttl, cs)
  PROVE  LET e == [function |-> h, ttl |-> ttl, constraints |-> cs, called |-> 0, triggered |-> 0]
         IN  /\ \A g : g # h => Kept(g)
             /\ e \in Expectation
             /\ IsLimited(e) <=> ttl \notin {UNLIMITED_TIME_TO_LIVE, -UNLIMITED_TIME_TO_LIVE}
             /\ Prefixed(Owed(queue', h), Owed(queue, h), Expects(e, h))
             /\ ~IsLimited(e) => Owed(queue', h) = Owed(queue, h)
             /\ IsLimited(e) => Ends(queue', h) = Ends(queue, h)
             /\ LastOf(h) = EndOf("none", <<>>)
             /\ UNCHANGED <<mode, tallied, failed, response>> /\ InTest
<1> DEFINE e == [function |-> h, ttl |-> ttl, constraints |-> cs, called |-> 0, triggered |-> 0]
<1>1. /\ queue' = Append(queue, e) /\ ~HasAlways(h) /\ ~HasNever(h) /\ InTest
      /\ UNCHANGED <<mode, tallied, results, response>>
  BY DEF Declare
<1>2. e \in Expectation /\ e.function = h /\ e.ttl = ttl
  BY DEF Expectation
<1> HIDE DEF e
<1>3. queue \in Seq(Expectation) /\ NoneIsSpent(queue) /\ NoneIsSpent(queue')
  BY DEF Known, TypeOK
<1>4. ASSUME NEW g
      PROVE  /\ e.function # g => SameFor(queue, queue', g)
             /\ e.function = g =>
                  /\ Prefixed(Owed(queue', g), Owed(queue, g), Expects(e, g))
                  /\ ~IsLimited(e) => Owed(queue', g) = Owed(queue, g)
                  /\ IsLimited(e) => Ends(queue', g) = Ends(queue, g)
  <2>1. Appended(queue', queue, e)
    BY <1>1 DEF Appended
  <2>2. AppendSeen(queue', queue, e, g)
    BY <1>2, <1>3, <2>1, AppendedView, Zenon
  <2>3. QED
    BY <2>2 DEF AppendSeen
<1>5. \A g : g # h => Kept(g)
  BY <1>2, <1>4, SameIsKept
<1>6. IsLimited(e) <=> ttl \notin {UNLIMITED_TIME_TO_LIVE, -UNLIMITED_TIME_TO_LIVE}
  BY <1>2 DEF IsLimited, IsAlways, IsNever
<1>7. LastOf(h) = EndOf("none", <<>>)
  BY <1>1 DEF LastOf, EndOf
<1>8. failed' = failed
  BY <1>1 DEF failed
<1>9. QED
  BY <1>1, <1>2, <1>4, <1>5, <1>6, <1>7, <1>8 DEF e

LEMMA ExpectStep ==
  ASSUME TimesAreCalls, Known, Known', NEW h \in Functions, NEW cs \in Declarable, Expect(h, cs)
  PROVE  Contract!Next
<1> DEFINE n == Times(cs)
           e == [function |-> h, ttl |-> n, constraints |-> cs, called |-> 0, triggered |-> 0]
<1>1. n \in 1..(UNLIMITED_TIME_TO_LIVE - 1) /\ n \in Int
  BY DEF TimesAreCalls
<1>2. n \notin {UNLIMITED_TIME_TO_LIVE, -UNLIMITED_TIME_TO_LIVE}
  BY <1>1, UnlimitedType
<1>3. /\ \A g : g # h => Kept(g)
      /\ IsLimited(e) <=> n \notin {UNLIMITED_TIME_TO_LIVE, -UNLIMITED_TIME_TO_LIVE}
      /\ Prefixed(Owed(queue', h), Owed(queue, h), Expects(e, h))
      /\ IsLimited(e) => Ends(queue', h) = Ends(queue, h)
      /\ LastOf(h) = EndOf("none", <<>>)
      /\ UNCHANGED <<mode, tallied, failed, response>> /\ InTest
  BY <1>1, DeclareView DEF Expect
<1>4. IsLimited(e)
  BY <1>2, <1>3
<1>5. Expects(e, h) = [i \in 1..n |-> cs]
  BY <1>4 DEF Expects
<1> HIDE DEF e
<1>6. LastOf(h)' = LastOf(h)
  <2>1. LastIs(Ends(queue, h), LastOf(h)) /\ LastIs(Ends(queue', h), LastOf(h)')
    BY DEF Known
  <2>2. LastIs(Ends(queue, h), LastOf(h)')
    BY <1>3, <1>4, <2>1
  <2>3. QED
    BY <2>1, <2>2, LastSame
<1>7. last' = last /\ last[h] = EndOf("none", <<>>)
  BY <1>3, <1>6, LastStays DEF Kept, last
<1>8. Owed(queue', h) = owed[h] \o [i \in 1..n |-> cs]
  BY <1>3, <1>5 DEF Prefixed, owed
<1>9. owed' = [owed EXCEPT ![h] = owed[h] \o [i \in 1..n |-> cs]]
  <2> DEFINE w == owed[h] \o [i \in 1..n |-> cs]
  <2> HIDE DEF w
  <2>1. QED
    BY <1>3, <1>8, OwedBecomes DEF Kept, w
<1>10. Repeats[cs] = n
  BY DEF Repeats
<1>11. Contract!Owe(h, cs)
  BY <1>3, <1>7, <1>9, <1>10 DEF Contract!Owe, Contract!Open, EndOf
<1>12. QED
  BY <1>3, <1>11, StepIsNext

LEMMA EndsSeen ==
  Known => \A k \in DOMAIN queue : \A h : queue[k].function = h =>
    /\ IsAlways(queue[k]) => LastOf(h) = EndOf("always", queue[k].constraints)
    /\ IsNever(queue[k]) => LastOf(h) = EndOf("never", <<>>)
BY LastOfUnlimited

LEMMA EndsSeenNext ==
  Known' => (\A k \in DOMAIN queue : \A h : queue[k].function = h =>
    /\ IsAlways(queue[k]) => LastOf(h) = EndOf("always", queue[k].constraints)
    /\ IsNever(queue[k]) => LastOf(h) = EndOf("never", <<>>))'
BY EndsSeen, PTL

LEMMA UnlimitedStep ==
  ASSUME Known, Known', NEW h \in Functions, NEW cs \in Declarable,
         NEW ttl \in {UNLIMITED_TIME_TO_LIVE, -UNLIMITED_TIME_TO_LIVE}, Declare(h, ttl, cs),
         NEW l, l = IF ttl = UNLIMITED_TIME_TO_LIVE THEN EndOf("always", cs) ELSE EndOf("never", <<>>)
  PROVE  /\ last[h] = Contract!Open /\ owed' = owed /\ last' = [last EXCEPT ![h] = l]
         /\ UNCHANGED <<mode, tallied, failed, response>> /\ InTest
<1> DEFINE e == [function |-> h, ttl |-> ttl, constraints |-> cs, called |-> 0, triggered |-> 0]
           N == -UNLIMITED_TIME_TO_LIVE
<1>1. ttl \in Int
  BY UnlimitedType
<1>2. /\ \A g : g # h => Kept(g)
      /\ e \in Expectation
      /\ IsLimited(e) <=> ttl \notin {UNLIMITED_TIME_TO_LIVE, -UNLIMITED_TIME_TO_LIVE}
      /\ ~IsLimited(e) => Owed(queue', h) = Owed(queue, h)
      /\ LastOf(h) = EndOf("none", <<>>)
      /\ UNCHANGED <<mode, tallied, failed, response>> /\ InTest
  BY <1>1, DeclareView
<1>3. ~IsLimited(e) /\ e.function = h /\ e.constraints = cs /\ e.ttl = ttl
  BY <1>2
<1>4. owed' = owed
  BY <1>2, <1>3, OwedStays DEF Kept
<1>5. queue' = Append(queue, e) /\ queue \in Seq(Expectation)
  BY DEF Declare, Known, TypeOK
<1>6. Len(queue') \in DOMAIN queue' /\ queue'[Len(queue')] = e
  BY <1>2, <1>5
<1> HIDE DEF e
<1>7. /\ IsAlways(e) => LastOf(h)' = EndOf("always", cs)
      /\ IsNever(e) => LastOf(h)' = EndOf("never", <<>>)
  <2>1. PICK k : k \in DOMAIN queue' /\ queue'[k] = e
    BY <1>6
  <2>2. /\ IsAlways(queue'[k]) => LastOf(h)' = EndOf("always", queue'[k].constraints)
        /\ IsNever(queue'[k]) => LastOf(h)' = EndOf("never", <<>>)
    BY <1>3, <2>1, EndsSeenNext DEF IsAlways, IsNever
  <2>3. QED
    BY <1>3, <2>1, <2>2
<1>8. LastOf(h)' = l
  BY <1>3, <1>7, UnlimitedType DEF IsAlways, IsNever
<1>9. last' = [last EXCEPT ![h] = l]
  BY <1>2, <1>8, LastBecomes DEF Kept
<1>10. last[h] = Contract!Open
  BY <1>2 DEF last, Contract!Open, EndOf
<1>11. QED
  BY <1>2, <1>4, <1>9, <1>10

LEMMA EndStep ==
  ASSUME Known, Known', NEW h \in Functions
  PROVE  /\ \A cs \in Declarable : AlwaysExpect(h, cs) => Contract!Next
         /\ NeverExpect(h) => Contract!Next
<1> DEFINE U == UNLIMITED_TIME_TO_LIVE
           N == -UNLIMITED_TIME_TO_LIVE
<1>0. U # N /\ <<>> \in Declarable
  BY UnlimitedType, MocksAssumption
<1>1. ASSUME NEW cs \in Declarable, AlwaysExpect(h, cs) PROVE Contract!Next
  <2>1. Declare(h, U, cs)
    BY <1>1 DEF AlwaysExpect
  <2>2. /\ last[h] = Contract!Open /\ owed' = owed /\ last' = [last EXCEPT ![h] = EndOf("always", cs)]
        /\ UNCHANGED <<mode, tallied, failed, response>> /\ InTest
    BY <2>1, UnlimitedStep
  <2>3. Contract!End(h, "always", cs)
    BY <2>2 DEF Contract!End, EndOf
  <2>4. QED
    BY <2>2, <2>3, StepIsNext
<1>2. ASSUME NeverExpect(h) PROVE Contract!Next
  <2>1. Declare(h, N, <<>>)
    BY <1>2 DEF NeverExpect
  <2>2. /\ last[h] = Contract!Open /\ owed' = owed /\ last' = [last EXCEPT ![h] = EndOf("never", <<>>)]
        /\ UNCHANGED <<mode, tallied, failed, response>> /\ InTest
    BY <1>0, <2>1, UnlimitedStep
  <2>3. Contract!End(h, "never", <<>>)
    BY <2>2 DEF Contract!End, EndOf
  <2>4. QED
    BY <2>2, <2>3, StepIsNext
<1>3. QED
  BY <1>1, <1>2

LEMMA RejectStep ==
  ASSUME Known, Known', NEW h \in Functions, Reject(h)
  PROVE  Contract!Next
<1>1. /\ TypeOK /\ queue \in Seq(Expectation) /\ queue' \in Seq(Expectation)
      /\ NoneIsSpent(queue) /\ NoneIsSpent(queue') /\ NothingBehindUnlimited
      /\ Report(0, 1) /\ InTest /\ UNCHANGED <<mode, tallied, response>>
      /\ DOMAIN queue = 1..Len(queue)
  BY DEF Known, TypeOK, Reject
<1>2. failed' = TRUE
  BY <1>1 DEF TypeOK, Report, failed
<1>3. CASE HasAlways(h)
  <2>1. queue' = queue
    BY <1>3 DEF Reject
  <2>2. owed' = owed /\ last' = last
    BY <2>1 DEF owed, last, LastOf, HasAlways, HasNever, For, IsAlways, IsNever
  <2>3. last[h].how = "always"
    BY <1>3 DEF last, LastOf
  <2>4. last[h] # Contract!Open /\ last[h].how # "never" /\ failed' = TRUE
    <3>1. Contract!Open.how = "none"
      BY DEF Contract!Open
    <3>2. QED
      BY <1>2, <2>3, <3>1
  <2>5. Contract!Refuse(h)
    BY <1>1, <2>2, <2>4 DEF Contract!Refuse
  <2>6. QED
    BY <1>1, <2>5, StepIsNext
<1>4. CASE ~HasAlways(h)
  <2>1. HasNever(h)
    BY <1>4 DEF Reject
  <2>2. PICK k \in For(h) : k = CHOOSE i \in For(h) : IsNever(queue[i])
    BY <2>1 DEF HasNever
  <2>3. /\ IsNever(queue[k]) /\ k \in DOMAIN queue /\ queue[k].function = h
        /\ queue' = Without(k)
    BY <1>4, <2>1, <2>2 DEF HasNever, For, Reject
  <2>4. Removed(queue, queue', k)
    BY <1>1, <2>3, WithoutRemoves
  <2>5. \A g : Expects(queue[k], g) = <<>>
    BY <2>3, NothingExpected DEF IsLimited
  <2>6. ASSUME NEW g PROVE Owed(queue', g) = Owed(queue, g)
    <3>1. Prefixed(Owed(queue, g), <<>>, Owed(queue', g)) /\ Owed(queue', g) \in Seq(Declarable)
      BY <1>1, <2>4, <2>5, OwedRemoved, Zenon
    <3>2. QED
      BY <3>1, Emptied DEF Prefixed
  <2>7. owed' = owed
    BY <2>6, OwedStays
  <2>8. ASSUME NEW g, g # h PROVE LastOf(g)' = LastOf(g)
    <3>1. queue[k].function # g
      BY <2>3, <2>8
    <3>2. Ends(queue', g) = Ends(queue, g)
      <4>1. queue \in Seq(Expectation) /\ queue' \in Seq(Expectation)
        BY <1>1
      <4>2. QED
        BY ONLY <2>4, <3>1, <4>1, RemovedView
    <3>3. SameFor(queue, queue', g)
      BY <2>6, <3>2 DEF SameFor
    <3>4. QED
      BY <3>3, SameIsKept DEF Kept
  <2>9. \A i \in 1..Len(queue') : queue'[i].function = h => IsLimited(queue'[i])
    <3>1. \A i \in DOMAIN queue : i # k /\ queue[i].function = h => IsLimited(queue[i])
      BY <1>1, <2>3 DEF NothingBehindUnlimited, IsLimited
    <3>2. ASSUME NEW i \in 1..Len(queue')
          PROVE  \E j \in DOMAIN queue : j # k /\ queue'[i] = queue[j]
      <4>0. /\ k \in 1..Len(queue) /\ Len(queue) \in Nat /\ i \in 1..(Len(queue) - 1)
            /\ queue'[i] = IF i < k THEN queue[i] ELSE queue[i + 1]
        BY <1>1, <2>4 DEF Removed
      <4>1. CASE i < k
        <5>1. i \in DOMAIN queue /\ i # k /\ queue'[i] = queue[i]
          BY <1>1, <4>0, <4>1
        <5>2. QED
          BY <5>1
      <4>2. CASE ~(i < k)
        <5>1. i + 1 \in DOMAIN queue /\ i + 1 # k /\ queue'[i] = queue[i + 1]
          BY <1>1, <4>0, <4>2
        <5>2. QED
          BY <5>1
      <4>3. QED
        BY <4>1, <4>2
    <3>3. QED
      BY <3>1, <3>2
  <2>10. LastOf(h)' = Contract!Open
    <3>1. ~HasAlways(h)' /\ ~HasNever(h)'
      BY <1>1, <2>9 DEF HasAlways, HasNever, For, IsLimited
    <3>2. QED
      BY <3>1 DEF LastOf, Contract!Open
  <2>11. last' = [last EXCEPT ![h] = Contract!Open]
    BY <2>8, <2>10, LastBecomes
  <2>12. last[h].how = "never"
    BY <1>4, <2>1 DEF last, LastOf
  <2>13. last[h] # Contract!Open /\ failed' = TRUE
    <3>1. Contract!Open.how = "none"
      BY DEF Contract!Open
    <3>2. QED
      BY <1>2, <2>12, <3>1
  <2>14. Contract!Refuse(h)
    BY <1>1, <2>7, <2>11, <2>12, <2>13 DEF Contract!Refuse
  <2>15. QED
    BY <1>1, <2>14, StepIsNext
<1>5. QED
  BY <1>3, <1>4

\* nothing is owed and nothing holds last when the queue is empty
LEMMA NothingQueued ==
  ASSUME queue \in Seq(Expectation), queue = <<>>
  PROVE  owed = [h \in Functions |-> <<>>] /\ last = Contract!None
<1>1. NoneIsSpent(queue) /\ \A i \in 1..Len(queue) : FALSE
  BY DEF NoneIsSpent
<1>2. \A h : Owed(queue, h) = <<>>
  BY <1>1, OwedNothing
<1>3. \A h : LastOf(h) = Contract!Open
  BY DEF LastOf, HasAlways, HasNever, For, Contract!Open
<1>4. QED
  BY <1>2, <1>3 DEF owed, last, Contract!None

LEMMA NothingQueuedNext ==
  (queue \in Seq(Expectation) /\ queue = <<>>)'
    => (owed = [h \in Functions |-> <<>>] /\ last = Contract!None)'
<1>1. queue \in Seq(Expectation) /\ queue = <<>> =>
        owed = [h \in Functions |-> <<>>] /\ last = Contract!None
  BY NothingQueued
<1>2. QED
  BY <1>1, PTL

LEMMA TallyStep ==
  ASSUME TimesAreCalls, mode # "loose", DebtInv, DebtInv', Known, Known', Tally
  PROVE  Contract!Next
<1>0. /\ queue \in Seq(Expectation) /\ NoneIsSpent(queue) /\ queue' \in Seq(Expectation)
      /\ DOMAIN queue = 1..Len(queue)
      /\ results \in [{"pass", "fail"} -> Nat] /\ results' \in [{"pass", "fail"} -> Nat]
      /\ ~tallied /\ tallied' = TRUE /\ queue' = <<>> /\ UNCHANGED <<mode, response>>
  BY DEF Known, TypeOK, Tally
<1>1. owed' = [h \in Functions |-> <<>>] /\ last' = Contract!None
  BY <1>0, NothingQueuedNext
<1>2. ASSUME results'["fail"] = 0 PROVE ~failed /\ \A h \in Functions : owed[h] = <<>>
  <2>1. results["fail"] = 0 /\ \A i \in 1..Len(queue) : ~IsLimited(queue[i])
    BY <1>2, TallyLimited
  <2>2. \A h : Owed(queue, h) = <<>>
    BY <1>0, <2>1, NothingExpected, OwedNothing
  <2>3. QED
    BY <2>1, <2>2 DEF failed, owed
<1>3. ASSUME ~failed, \A h \in Functions : owed[h] = <<>> PROVE results'["fail"] = 0
  <2>1. ASSUME NEW i \in 1..Len(queue) PROVE ~IsLimited(queue[i])
    <3> SUFFICES ASSUME IsLimited(queue[i]) PROVE FALSE
      OBVIOUS
    <3>1. queue[i] \in Expectation
      BY <1>0
    <3>2. PICK h \in Functions : queue[i].function = h
      BY <3>1 DEF Expectation
    <3>3. queue[i].ttl \in Nat \ {0}
      BY <1>0, UnlimitedType DEF NoneIsSpent
    <3>4. Expects(queue[i], h) # <<>>
      BY <3>1, <3>2, <3>3, SomeExpected
    <3>5. Owed(queue, h) # <<>>
      BY <1>0, <3>4, OwedNothing
    <3>6. QED
      BY <1>3, <3>2, <3>5 DEF owed
  <2>2. Counters \ Exact = {} /\ Unmet = {}
    BY <1>0, <2>1 DEF Counters, Unmet
  <2>3. Cardinality(Counters \ Exact) = 0 /\ Cardinality(Unmet) = 0
    BY <2>2, FS_EmptySet
  <2>4. results'["fail"] = results["fail"] + (Cardinality(Counters \ Exact) + Cardinality(Unmet))
    BY <1>0 DEF Tally, Report
  <2>5. results["fail"] = 0
    BY <1>0, <1>3 DEF failed
  <2>6. QED
    BY <2>3, <2>4, <2>5
<1>4. failed' = (failed \/ \E h \in Functions : owed[h] # <<>>)
  <2>1. results'["fail"] > 0 <=> ~(results'["fail"] = 0)
    BY <1>0
  <2>2. QED
    BY <1>2, <1>3, <2>1 DEF failed
<1>5. Contract!Tally
  BY <1>0, <1>1, <1>4 DEF Contract!Tally
<1>6. QED
  BY <1>5 DEF Contract!Next

LEMMA ContractStep ==
  ASSUME TimesAreCalls, mode # "loose", QueueInv, DebtInv, QueueInv', DebtInv', [Next]_vars
  PROVE  [Contract!Next]_(Contract!vars)
<1>1. Known
  BY LastView DEF Known, QueueInv, DebtInv
<1>2. Known'
  <2>1. TypeOK' /\ NothingBehindUnlimited' /\ NoneIsSpent(queue')
    BY DEF QueueInv, DebtInv
  <2>2. QED
    BY <2>1, LastViewNext DEF Known
<1>3. ASSUME NEW m \in Modes, SetMode(m) PROVE Contract!Next
  <2>1. owed' = owed /\ last' = last /\ failed' = failed
    BY <1>3 DEF SetMode, owed, last, failed, LastOf, HasAlways, HasNever, For, IsAlways, IsNever
  <2>2. QED
    BY <1>3, <2>1 DEF SetMode, Contract!SetMode, Contract!Next
<1>4. ASSUME NextTest PROVE Contract!Next
  <2>1. queue = <<>> /\ queue' = <<>> /\ queue \in Seq(Expectation) /\ (queue \in Seq(Expectation))'
    BY <1>2, <1>4 DEF NextTest, DebtInv, QueueInv, TypeOK, Known
  <2>2. owed' = owed /\ last' = last
    BY <2>1, NothingQueued, NothingQueuedNext
  <2>3. failed' = FALSE
    BY <1>4 DEF NextTest, failed
  <2>4. response' = Contract!Nothing
    BY <1>4 DEF NextTest, Contract!Nothing, Only
  <2>5. QED
    BY <1>4, <2>2, <2>3, <2>4 DEF NextTest, Contract!NextTest, Contract!Next
<1>5. CASE UNCHANGED vars
  <2>1. owed' = owed /\ last' = last /\ failed' = failed
    BY <1>5 DEF vars, owed, last, failed, LastOf, HasAlways, HasNever, For, IsAlways, IsNever
  <2>2. QED
    BY <1>5, <2>1 DEF vars, Contract!vars
<1>6. CASE Tally
  BY <1>1, <1>2, <1>6, TallyStep
<1>7. ASSUME NEW h \in Functions,
             Reject(h) \/ NeverExpect(h) \/ ForbiddenCall(h) \/ MisspeltCall(h)
      PROVE  Contract!Next
  BY <1>1, <1>2, <1>7, RejectStep, EndStep, ForbiddenStep, MisspeltStep
<1>8. ASSUME NEW h \in Functions, NEW cs \in Declarable, Expect(h, cs) \/ AlwaysExpect(h, cs)
      PROVE  Contract!Next
  BY <1>1, <1>2, <1>8, ExpectStep, EndStep
<1>9. ASSUME NEW h \in Functions, NEW actuals \in Actuals(h),
             UnexpectedCall(h, actuals) \/ AnsweredCall(h, actuals)
      PROVE  Contract!Next
  BY <1>1, <1>2, <1>9, UnexpectedStep, AnsweredStep
<1>10. QED
  BY <1>3, <1>4, <1>5, <1>6, <1>7, <1>8, <1>9 DEF Next

(* For any functions and constraint lists of which none asks for zero      *)
(* calls or has two times(), the one queue keeps the contract: each        *)
(* function has its own list of expected calls, taken in order, and calls  *)
(* of other functions in between make no difference                        *)
(* (cgreen-guide-en.asciidoc:1900, mocks.c:226, 442, 803). Where mocks may *)
(* be loose it does not: the run LooseMocks shows how.                     *)
THEOREM MocksKeepTheContract ==
  ASSUME TimesAreCalls, "loose" \notin Modes
  PROVE  Spec => ImplementsContract
<1> DEFINE NotLoose == mode # "loose"
<1>0. /\ Init => NotLoose
      /\ NotLoose /\ [Next]_vars => NotLoose'
  <2>1. Init => NotLoose
    BY DEF Init
  <2>2. ASSUME NotLoose, [Next]_vars PROVE NotLoose'
    BY <2>2 DEF Next, vars, SetMode, Reject, Expect, AlwaysExpect, NeverExpect, Declare,
                UnexpectedCall, ForbiddenCall, MisspeltCall, AnsweredCall, Answer, Tally, NextTest
  <2>3. QED
    BY <2>1, <2>2
<1>1. QueueInv /\ DebtInv /\ [Next]_vars => (QueueInv /\ DebtInv)'
  <2>1. TimesAreSmall
    BY UnlimitedType DEF TimesAreCalls, TimesAreSmall
  <2>2. QED
    BY <2>1, QueueStep, DebtStep
<1>2. QueueInv /\ DebtInv /\ NotLoose /\ (QueueInv /\ DebtInv)' /\ [Next]_vars
        => [Contract!Next]_(Contract!vars)
  BY ContractStep
<1>3. Init => QueueInv /\ DebtInv
  BY QueueInit, DebtInit
<1>4. Init => Contract!Init
  <2> SUFFICES ASSUME Init PROVE Contract!Init
    OBVIOUS
  <2>1. owed = [h \in Functions |-> <<>>] /\ last = Contract!None
    BY TypeInit, NothingQueued DEF Init, TypeOK
  <2>2. QED
    BY <2>1 DEF Init, Contract!Init, Contract!Nothing, Only, failed
<1> HIDE DEF NotLoose
<1>5. QED
  BY <1>0, <1>1, <1>2, <1>3, <1>4, PTL DEF Spec, ImplementsContract, Contract!Spec
=============================================================================
