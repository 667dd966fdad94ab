---------------------------- MODULE OutcomeProofs ----------------------------
(***************************************************************************)
(* Theorems about the order in which the tests of any suite tree are run,  *)
(* and so about the contract of a run; about how they are reported; and    *)
(* about what an exit status of success says, with and without fork. subs  *)
(* and own are what the two loops of run_every_test() visit (IsWalk); a    *)
(* finite tree has just one of each.                                       *)
(***************************************************************************)
EXTENDS TestRunProofs

\* what remains to be run of a frame that is past its next k entries
LeftOf(subs, own, frame, k) ==
  IF frame.loop = "subs"
  THEN subs[frame.suite][frame.i + k] \o own[frame.suite][1]
  ELSE own[frame.suite][frame.i + k]

\* rest[d]: what remains to be run of the d lowest frames of st, of which all
\* but the top one are at their current entry, and the top one past k
ToCome(subs, own, rest, st, k) ==
  /\ rest \in [0..Len(st) -> Seq(Tests)]
  /\ rest[0] = <<>>
  /\ \A d \in 1..Len(st) :
       rest[d] = LeftOf(subs, own, st[d], IF d < Len(st) THEN 1 ELSE k) \o rest[d - 1]

Past     == IF pc = "teardown" THEN 1 ELSE 0
reported == [j \in 1..Len(reports) |-> reports[j].test]

\* no loop runs past its last entry, and nothing but the current entry of an
\* outer loop is under way
InBounds(st) ==
  \A d \in 1..Len(st) :
    /\ st[d].i \in 1..(Len(Entries[st[d].suite]) + 1)
    /\ d < Len(st) => st[d].i <= Len(Entries[st[d].suite])

\* what was reported and what remains is the order of the tests
OrderOK(subs, own) ==
  /\ InBounds(stack)
  /\ pc \in {"setup", "teardown"} \/ InTest => HasEntry
  /\ pc = "setup" \/ InTest => Visits(Entry)
  /\ pc = "reading_suite" => ~HasEntry
  /\ pc # "stopped" <=> status = "running"
  /\ status \in {"success", "failure"} => reported = Order
  /\ pc # "stopped" =>
       \E rest : /\ ToCome(subs, own, rest, stack, Past)
                 /\ reported \o rest[Len(stack)] = Order

OrderInv(subs, own) == TypeInv /\ OrderOK(subs, own)

-----------------------------------------------------------------------------
(* What remains                                                            *)

LEMMA Regroup == \A a, b, c \in Seq(Tests) : (a \o b) \o c = a \o (b \o c)
<1> SUFFICES ASSUME NEW a \in Seq(Tests), NEW b \in Seq(Tests), NEW c \in Seq(Tests)
             PROVE  (a \o b) \o c = a \o (b \o c)
  OBVIOUS
<1> QED
  BY ONLY a \in Seq(Tests), b \in Seq(Tests), c \in Seq(Tests), ConcatAssociative

LEMMA LeftType ==
  ASSUME NEW subs, NEW own, IsWalk(subs, own),
         NEW frame \in FrameSet, NEW k \in {0, 1},
         frame.i + k \in 1..(Len(Entries[frame.suite]) + 1)
  PROVE  LeftOf(subs, own, frame, k) \in Seq(Tests)
<1> DEFINE s == frame.suite
           n == Len(Entries[s])
<1>1. s \in Suites /\ n \in Nat
  <2>1. s \in Suites
    BY DEF FrameSet
  <2>2. n \in Nat
    BY <2>1, TreeAssumption, LenProperties
  <2>3. QED
    BY <2>1, <2>2
<1>2. subs[s] \in [1..(n + 1) -> Seq(Tests)] /\ own[s] \in [1..(n + 1) -> Seq(Tests)]
  BY <1>1, Zenon DEF IsWalk
<1> HIDE DEF s, n
<1>3. frame.i + k \in 1..(n + 1) /\ 1 \in 1..(n + 1)
  BY <1>1 DEF s, n
<1>4. own[s][1] \in Seq(Tests) /\ own[s][frame.i + k] \in Seq(Tests)
      /\ subs[s][frame.i + k] \in Seq(Tests)
  BY <1>2, <1>3
<1>5. QED
  BY <1>4, ConcatProperties DEF LeftOf, s

\* the top frame gets on by the tests in x, or starts with them
MovesOn(subs, own, rest, st, k, new, l, x) ==
  /\ Len(st) \in Nat \ {0} /\ Len(new) = Len(st)
  /\ \A d \in 1..(Len(st) - 1) : new[d] = st[d]
  /\ ToCome(subs, own, rest, st, k)
  /\ LeftOf(subs, own, new[Len(st)], l) \in Seq(Tests) /\ x \in Seq(Tests)
  /\ LeftOf(subs, own, st[Len(st)], k) = x \o LeftOf(subs, own, new[Len(st)], l)

\* and then x is all that no longer remains
Leaves(subs, own, rest, st, new, l, x) ==
  \E r : /\ ToCome(subs, own, r, new, l)
         /\ r[Len(new)] \in Seq(Tests)
         /\ rest[Len(st)] = x \o r[Len(new)]

LEMMA GoesOn ==
  ASSUME NEW subs, NEW own, NEW rest, NEW st, NEW k, NEW new, NEW l, NEW x,
         MovesOn(subs, own, rest, st, k, new, l, x)
  PROVE  Leaves(subs, own, rest, st, new, l, x)
<1> DEFINE n == Len(st)
           left == LeftOf(subs, own, new[n], l)
           r == [d \in 0..n |-> IF d = n THEN left \o rest[n - 1] ELSE rest[d]]
<1>0. /\ Len(new) = n /\ \A d \in 1..(n - 1) : new[d] = st[d]
      /\ left \in Seq(Tests) /\ x \in Seq(Tests)
      /\ LeftOf(subs, own, st[n], k) = x \o left
  BY DEF MovesOn
<1>1. n \in Nat \ {0} /\ n \in 1..n /\ n - 1 \in 0..n /\ n \in 0..n /\ 0 \in 0..n /\ n # 0
      /\ ~(n < n)
  BY DEF MovesOn
<1>2. /\ rest \in [0..n -> Seq(Tests)] /\ rest[0] = <<>>
      /\ \A d \in 1..n : rest[d] = LeftOf(subs, own, st[d], IF d < n THEN 1 ELSE k) \o rest[d - 1]
  BY DEF ToCome, MovesOn
<1>3. rest[n - 1] \in Seq(Tests) /\ left \in Seq(Tests)
  BY <1>0, <1>1, <1>2
<1>4. left \o rest[n - 1] \in Seq(Tests)
  BY <1>3, ConcatProperties
<1>5. rest[n] = x \o (left \o rest[n - 1])
  <2>1. rest[n] = LeftOf(subs, own, st[n], k) \o rest[n - 1]
    BY <1>1, <1>2
  <2>2. rest[n] = (x \o left) \o rest[n - 1]
    BY <1>0, <2>1
  <2>3. QED
    BY <1>0, <1>3, <2>2, Regroup, Zenon
<1>6. /\ r \in [0..n -> Seq(Tests)] /\ r[0] = <<>> /\ r[n] = left \o rest[n - 1]
      /\ \A d \in 0..(n - 1) : r[d] = rest[d]
  BY <1>1, <1>2, <1>4
<1> HIDE DEF r
<1>7. ASSUME NEW d \in 1..n
      PROVE  r[d] = LeftOf(subs, own, new[d], IF d < n THEN 1 ELSE l) \o r[d - 1]
  <2>1. CASE d = n
    <3>1. r[d - 1] = rest[n - 1]
      BY <1>1, <1>6, <2>1
    <3>2. QED
      BY <1>1, <1>6, <2>1, <3>1
  <2>2. CASE d # n
    <3>1. d \in 1..(n - 1) /\ d \in 0..(n - 1) /\ d - 1 \in 0..(n - 1) /\ d < n
      BY <1>1, <2>2
    <3>2. new[d] = st[d] /\ rest[d] = LeftOf(subs, own, st[d], 1) \o rest[d - 1]
      BY <1>0, <1>2, <3>1
    <3>3. QED
      BY <1>6, <3>1, <3>2
  <2>3. QED
    BY <2>1, <2>2
<1>8. ToCome(subs, own, r, new, l)
  BY <1>0, <1>6, <1>7 DEF ToCome
<1>9. QED
  BY <1>0, <1>4, <1>5, <1>6, <1>8 DEF Leaves

\* a frame that has nothing left is taken off
ComesOff(subs, own, rest, st, k, new) ==
  /\ Len(st) \in Nat \ {0} /\ Len(new) = Len(st) - 1
  /\ \A d \in 1..(Len(st) - 1) : new[d] = st[d]
  /\ ToCome(subs, own, rest, st, k)
  /\ LeftOf(subs, own, st[Len(st)], k) = <<>>

LEMMA TakenOff ==
  ASSUME NEW subs, NEW own, NEW rest, NEW st, NEW k, NEW new,
         ComesOff(subs, own, rest, st, k, new)
  PROVE  Leaves(subs, own, rest, st, new, 1, <<>>)
<1> DEFINE n == Len(st)
           r == [d \in 0..(n - 1) |-> rest[d]]
<1>0. /\ n \in Nat \ {0} /\ Len(new) = n - 1 /\ \A d \in 1..(n - 1) : new[d] = st[d]
      /\ ToCome(subs, own, rest, st, k) /\ LeftOf(subs, own, st[n], k) = <<>>
  BY DEF ComesOff
<1>1. /\ n \in Nat \ {0} /\ n \in 1..n /\ n - 1 \in 0..(n - 1) /\ 0 \in 0..(n - 1) /\ n - 1 \in 0..n
      /\ ~(n < n)
  BY <1>0
<1>2. /\ rest \in [0..n -> Seq(Tests)] /\ rest[0] = <<>>
      /\ \A d \in 1..n : rest[d] = LeftOf(subs, own, st[d], IF d < n THEN 1 ELSE k) \o rest[d - 1]
  BY <1>0 DEF ToCome
<1>3. r \in [0..(n - 1) -> Seq(Tests)] /\ r[0] = <<>> /\ \A d \in 0..(n - 1) : r[d] = rest[d]
  BY <1>1, <1>2
<1>4. rest[n] = rest[n - 1]
  <2>1. rest[n] = LeftOf(subs, own, st[n], k) \o rest[n - 1]
    BY <1>1, <1>2
  <2>2. rest[n - 1] \in Seq(Tests)
    BY <1>1, <1>2
  <2>3. QED
    BY <1>0, <2>1, <2>2, ConcatEmptySeq
<1> HIDE DEF r
<1>5. ASSUME NEW d \in 1..(n - 1)
      PROVE  r[d] = LeftOf(subs, own, new[d], IF d < n - 1 THEN 1 ELSE 1) \o r[d - 1]
  <2>1. d \in 1..n /\ d < n /\ d \in 0..(n - 1) /\ d - 1 \in 0..(n - 1)
    BY <1>1
  <2>2. rest[d] = LeftOf(subs, own, st[d], 1) \o rest[d - 1]
    BY <1>2, <2>1
  <2>3. QED
    BY <1>0, <1>3, <2>1, <2>2
<1>6. ToCome(subs, own, r, new, 1)
  BY <1>0, <1>3, <1>5 DEF ToCome
<1>7. rest[n - 1] \in Seq(Tests) /\ r[n - 1] = rest[n - 1]
  BY <1>1, <1>2, <1>3
<1>8. QED
  BY <1>0, <1>4, <1>6, <1>7, ConcatEmptySeq DEF Leaves

\* a sub-suite is put on top of the loop that has come to it
ComesOn(subs, own, rest, st, frame, new) ==
  /\ Len(st) \in Nat \ {0} /\ Len(new) = Len(st) + 1 /\ new[Len(st) + 1] = frame
  /\ \A d \in 1..Len(st) : new[d] = st[d]
  /\ ToCome(subs, own, rest, st, 0)
  /\ LeftOf(subs, own, frame, 0) \in Seq(Tests)
  /\ LeftOf(subs, own, st[Len(st)], 1) \in Seq(Tests)
  /\ LeftOf(subs, own, st[Len(st)], 0)
       = LeftOf(subs, own, frame, 0) \o LeftOf(subs, own, st[Len(st)], 1)

LEMMA PutOn ==
  ASSUME NEW subs, NEW own, NEW rest, NEW st, NEW frame, NEW new,
         ComesOn(subs, own, rest, st, frame, new)
  PROVE  Leaves(subs, own, rest, st, new, 0, <<>>)
<1> DEFINE n == Len(st)
           left == LeftOf(subs, own, frame, 0)
<1>0. MovesOn(subs, own, rest, st, 0, st, 1, left)
  BY DEF MovesOn, ComesOn
<1>1. PICK mid : /\ ToCome(subs, own, mid, st, 1) /\ mid[n] \in Seq(Tests)
                 /\ rest[n] = left \o mid[n]
  <2>1. Leaves(subs, own, rest, st, st, 1, left)
    BY <1>0, GoesOn
  <2>2. QED
    BY <2>1 DEF Leaves
<1> DEFINE r == [d \in 0..(n + 1) |-> IF d = n + 1 THEN rest[n] ELSE mid[d]]
<1>2. /\ n \in Nat \ {0} /\ n \in 0..n /\ n + 1 \in 0..(n + 1) /\ 0 \in 0..n
      /\ Len(new) = n + 1 /\ new[n + 1] = frame /\ \A d \in 1..n : new[d] = st[d]
      /\ ToCome(subs, own, rest, st, 0)
  BY DEF ComesOn
<1>3. /\ mid \in [0..n -> Seq(Tests)] /\ mid[0] = <<>>
      /\ \A d \in 1..n : mid[d] = LeftOf(subs, own, st[d], IF d < n THEN 1 ELSE 1) \o mid[d - 1]
  BY <1>1 DEF ToCome
<1>4. rest[n] \in Seq(Tests)
  BY <1>2 DEF ToCome
<1>5. /\ r \in [0..(n + 1) -> Seq(Tests)] /\ r[0] = <<>> /\ r[n + 1] = rest[n]
      /\ \A d \in 0..n : r[d] = mid[d]
  BY <1>2, <1>3, <1>4
<1> HIDE DEF r
<1>6. ASSUME NEW d \in 1..(n + 1)
      PROVE  r[d] = LeftOf(subs, own, new[d], IF d < n + 1 THEN 1 ELSE 0) \o r[d - 1]
  <2>1. CASE d = n + 1
    <3>1. r[d - 1] = mid[n] /\ ~(d < n + 1) /\ new[d] = frame
      BY <1>2, <1>5, <2>1
    <3>2. QED
      BY <1>1, <1>5, <2>1, <3>1
  <2>2. CASE d # n + 1
    <3>1. d \in 1..n /\ d \in 0..n /\ d - 1 \in 0..n /\ d < n + 1
      BY <1>2, <2>2
    <3>2. mid[d] = LeftOf(subs, own, st[d], 1) \o mid[d - 1]
      BY <1>3, <3>1
    <3>3. QED
      BY <1>2, <1>5, <3>1, <3>2
  <2>3. QED
    BY <2>1, <2>2
<1>7. ToCome(subs, own, r, new, 0)
  BY <1>2, <1>5, <1>6 DEF ToCome
<1>8. QED
  BY <1>2, <1>4, <1>5, <1>7, ConcatEmptySeq DEF Leaves

-----------------------------------------------------------------------------
(* What the walk does to it                                                *)

LEMMA WalkOf ==
  ASSUME NEW subs, NEW own, IsWalk(subs, own), NEW s \in Suites
  PROVE  /\ Len(Entries[s]) \in Nat
         /\ subs[s] \in [1..(Len(Entries[s]) + 1) -> Seq(Tests)]
         /\ own[s] \in [1..(Len(Entries[s]) + 1) -> Seq(Tests)]
         /\ subs[s][Len(Entries[s]) + 1] = <<>>
         /\ own[s][Len(Entries[s]) + 1] = <<>>
         /\ subs[s][1] \in Seq(Tests) /\ own[s][1] \in Seq(Tests)
<1>1. Len(Entries[s]) \in Nat
  <2>1. Entries[s] \in Seq(Suites \cup Tests)
    BY TreeAssumption
  <2>2. QED
    BY ONLY <2>1, LenProperties
<1>2. /\ subs[s] \in [1..(Len(Entries[s]) + 1) -> Seq(Tests)]
      /\ own[s] \in [1..(Len(Entries[s]) + 1) -> Seq(Tests)]
      /\ subs[s][Len(Entries[s]) + 1] = <<>>
      /\ own[s][Len(Entries[s]) + 1] = <<>>
  BY Zenon DEF IsWalk
<1>3. 1 \in 1..(Len(Entries[s]) + 1)
  BY <1>1
<1>4. subs[s][1] \in Seq(Tests) /\ own[s][1] \in Seq(Tests)
  BY ONLY <1>2, <1>3, Zenon
<1>5. QED
  BY <1>1, <1>2, <1>4, Zenon

\* the current entry takes its part of what remains of its loop
LEMMA AtEntry ==
  ASSUME NEW subs, NEW own, IsWalk(subs, own), MainOK, stack # <<>>, HasEntry
  PROVE  /\ LeftOf(subs, own, Top, 0) \in Seq(Tests)
         /\ LeftOf(subs, own, Top, 1) \in Seq(Tests)
         /\ LeftOf(subs, own, Top, 0) =
              (IF Visits(Entry)
               THEN IF Entry \in Suites THEN subs[Entry][1] \o own[Entry][1] ELSE <<Entry>>
               ELSE <<>>) \o LeftOf(subs, own, Top, 1)
<1> DEFINE s == Top.suite
           i == Top.i
           n == Len(Entries[s])
<1>1. s \in Suites /\ i \in Nat \ {0} /\ Top.loop \in {"subs", "tests"} /\ Top \in FrameSet
  BY TopType DEF FrameSet
<1> HIDE DEF s, i
<1>2. n \in Nat /\ i \in 1..n /\ i + 1 \in 1..(n + 1) /\ i + 0 = i /\ i \in 1..(n + 1)
  <2>1. n \in Nat
    BY <1>1, WalkOf, Zenon
  <2>2. i <= n
    BY DEF HasEntry, s, i
  <2>3. QED
    BY ONLY <1>1, <2>1, <2>2
<1> HIDE DEF n
<1>3. Entry = Entries[s][i] /\ Entry \in Suites \cup Tests
  BY TopType DEF Entry, s, i
<1>4. /\ subs[s][i] = (IF Entry \in Suites /\ (Single => HasTest[Entry])
                       THEN subs[Entry][1] \o own[Entry][1] ELSE <<>>) \o subs[s][i + 1]
      /\ own[s][i] = (IF Entry \in Tests /\ (Single => Entry \in Selected)
                      THEN <<Entry>> ELSE <<>>) \o own[s][i + 1]
  BY <1>1, <1>2, <1>3, Zenon DEF IsWalk, n
<1>5. Entry \in Suites => Entry \notin Tests
  BY TreeAssumption
<1>6. /\ subs[s][i + 1] \in Seq(Tests) /\ own[s][i + 1] \in Seq(Tests) /\ own[s][1] \in Seq(Tests)
      /\ subs[s][i] \in Seq(Tests) /\ own[s][i] \in Seq(Tests)
  <2>1. /\ subs[s] \in [1..(n + 1) -> Seq(Tests)] /\ own[s] \in [1..(n + 1) -> Seq(Tests)]
        /\ own[s][1] \in Seq(Tests)
    BY <1>1, WalkOf, ZenonT(30) DEF n
  <2>2. QED
    BY ONLY <1>2, <2>1, Zenon
<1>7. CASE Top.loop = "subs"
  <2>1. /\ LeftOf(subs, own, Top, 0) = subs[s][i] \o own[s][1]
        /\ LeftOf(subs, own, Top, 1) = subs[s][i + 1] \o own[s][1]
    BY <1>2, <1>7 DEF LeftOf, s, i
  <2> DEFINE x == IF Visits(Entry)
                  THEN IF Entry \in Suites THEN subs[Entry][1] \o own[Entry][1] ELSE <<Entry>>
                  ELSE <<>>
  <2>2. x = IF Entry \in Suites /\ (Single => HasTest[Entry])
            THEN subs[Entry][1] \o own[Entry][1] ELSE <<>>
    BY <1>7 DEF Visits
  <2>3. x \in Seq(Tests)
    <3> DEFINE visited == subs[Entry][1] \o own[Entry][1]
    <3>1. CASE Entry \in Suites
      <4>1. subs[Entry][1] \in Seq(Tests) /\ own[Entry][1] \in Seq(Tests)
        BY <3>1, WalkOf, Zenon
      <4>2. visited \in Seq(Tests) /\ <<>> \in Seq(Tests)
        BY ONLY <4>1, ConcatProperties
      <4> HIDE DEF visited, x
      <4>3. x = visited \/ x = <<>>
        BY <2>2, Zenon DEF visited
      <4>4. QED
        BY ONLY <4>2, <4>3
    <3>2. CASE Entry \notin Suites
      <4> HIDE DEF x
      <4>1. x = <<>>
        BY <2>2, <3>2, Zenon
      <4>2. QED
        BY ONLY <4>1
    <3>3. QED
      BY <3>1, <3>2
  <2> HIDE DEF x
  <2>4. subs[s][i] \o own[s][1] = x \o (subs[s][i + 1] \o own[s][1])
    <3>1. subs[s][i] = x \o subs[s][i + 1]
      BY <1>4, <2>2, Zenon
    <3>2. \A a, b \in Seq(Tests) : (x \o a) \o b = x \o (a \o b)
      BY ONLY <2>3, Regroup, Zenon
    <3>3. (x \o subs[s][i + 1]) \o own[s][1] = x \o (subs[s][i + 1] \o own[s][1])
      BY ONLY <1>6, <3>2, Zenon
    <3>4. QED
      BY ONLY <3>1, <3>3, Zenon
  <2>5. subs[s][i] \o own[s][1] \in Seq(Tests) /\ subs[s][i + 1] \o own[s][1] \in Seq(Tests)
    <3>1. \A a, b \in Seq(Tests) : a \o b \in Seq(Tests)
      BY ONLY ConcatProperties
    <3>2. QED
      BY ONLY <1>6, <3>1, Zenon
  <2>6. QED
    BY <2>1, <2>4, <2>5, Zenon DEF x
<1>8. CASE Top.loop = "tests"
  <2>1. /\ LeftOf(subs, own, Top, 0) = own[s][i]
        /\ LeftOf(subs, own, Top, 1) = own[s][i + 1]
    BY <1>2, <1>8 DEF LeftOf, s, i
  <2>2. QED
    BY <1>3, <1>4, <1>5, <1>6, <1>8, <2>1, Zenon DEF Visits
<1>9. QED
  BY <1>1, <1>7, <1>8

\* a loop that is at its end leaves what the next one has to do
LEMMA AtEnd ==
  ASSUME NEW subs, NEW own, IsWalk(subs, own), MainOK, stack # <<>>, InBounds(stack), ~HasEntry
  PROVE  /\ LeftOf(subs, own, Top, 0) \in Seq(Tests)
         /\ LeftOf(subs, own, Top, 0) = IF Top.loop = "subs" THEN own[Top.suite][1] ELSE <<>>
<1> DEFINE s == Top.suite
           n == Len(Entries[s])
<1>1. s \in Suites /\ Len(stack) \in 1..Len(stack)
  BY TopType DEF FrameSet
<1>2. n \in Nat /\ own[s][1] \in Seq(Tests) /\ subs[s][n + 1] = <<>> /\ own[s][n + 1] = <<>>
  BY <1>1, WalkOf
<1>3. Top.i + 0 = n + 1
  <2>1. Top.i \in 1..(n + 1)
    BY <1>1 DEF InBounds, Top
  <2>2. ~(Top.i <= n)
    BY DEF HasEntry
  <2> HIDE DEF n
  <2>3. QED
    BY <1>2, <2>1, <2>2
<1>4. <<>> \o own[s][1] = own[s][1] /\ <<>> \in Seq(Tests)
  BY <1>2, ConcatEmptySeq
<1>5. QED
  BY <1>2, <1>3, <1>4 DEF LeftOf

LEMMA NextTop ==
  ASSUME NEW subs, NEW own, MainOK, stack # <<>>
  PROVE  /\ LeftOf(subs, own, NextEntry[Len(stack)], 0) = LeftOf(subs, own, Top, 1)
         /\ NextEntry[Len(stack)].suite = Top.suite
         /\ NextEntry[Len(stack)].i = Top.i + 1
         /\ InBounds(stack) /\ HasEntry => InBounds(NextEntry)
<1>1. Len(stack) \in 1..Len(stack) /\ Top \in FrameSet /\ stack \in Seq(FrameSet)
  BY TopType DEF MainOK
<1>2. NextEntry[Len(stack)] = [Top EXCEPT !.i = Top.i + 1]
  BY <1>1 DEF NextEntry, Top
<1>3. /\ NextEntry[Len(stack)].suite = Top.suite
      /\ NextEntry[Len(stack)].i = Top.i + 1
      /\ NextEntry[Len(stack)].loop = Top.loop
  BY <1>1, <1>2 DEF FrameSet
<1>4. LeftOf(subs, own, NextEntry[Len(stack)], 0) = LeftOf(subs, own, Top, 1)
  <2>1. Top.i \in Nat
    BY <1>1 DEF FrameSet
  <2>2. Top.i + 1 + 0 = Top.i + 1
    BY <2>1
  <2>3. QED
    BY <1>3, <2>2 DEF LeftOf
<1>5. ASSUME InBounds(stack), HasEntry PROVE InBounds(NextEntry)
  <2>1. Len(NextEntry) = Len(stack) /\ \A d \in 1..(Len(stack) - 1) : NextEntry[d] = stack[d]
    BY NextEntryType
  <2>2. Len(stack) \in Nat \ {0} /\ Top.suite \in Suites /\ Top.i \in Nat \ {0}
    BY TopType DEF FrameSet
  <2>3. Len(Entries[Top.suite]) \in Nat
    BY <2>2, TreeAssumption, LenProperties
  <2>4. Top.i + 1 \in 1..(Len(Entries[Top.suite]) + 1)
    BY <1>5, <2>2, <2>3 DEF HasEntry
  <2>5. ASSUME NEW d \in 1..Len(stack)
        PROVE  /\ NextEntry[d].i \in 1..(Len(Entries[NextEntry[d].suite]) + 1)
               /\ d < Len(stack) => NextEntry[d].i <= Len(Entries[NextEntry[d].suite])
    <3>1. CASE d = Len(stack)
      BY <1>3, <2>2, <2>4, <3>1
    <3>2. CASE d # Len(stack)
      <4>1. NextEntry[d] = stack[d] /\ d < Len(stack)
        BY <2>1, <2>2, <3>2
      <4>2. QED
        BY <1>5, <4>1 DEF InBounds
    <3>3. QED
      BY <3>1, <3>2
  <2>6. QED
    BY <2>1, <2>5 DEF InBounds
<1>6. QED
  BY <1>3, <1>4, <1>5

-----------------------------------------------------------------------------
(* What was reported and what remains stay the order of the tests          *)

LEMMA ReportedType ==
  ASSUME BookOK
  PROVE  reported \in Seq(Tests) /\ Len(reported) = Len(reports)
<1>1. reports \in Seq(Report) /\ Len(reports) \in Nat
  BY DEF BookOK
<1>2. \A j \in 1..Len(reports) : reports[j].test \in Tests
  <2> TAKE j \in 1..Len(reports)
  <2>1. reports[j] \in Report
    BY <1>1, ElementOfSeq
  <2>2. QED
    BY <2>1 DEF Report
<1>3. QED
  BY <1>1, <1>2 DEF reported

LEMMA ReportedGrows ==
  ASSUME BookOK, NEW r \in Report, reports' = Append(reports, r)
  PROVE  reported' = Append(reported, r.test) /\ reported' = reported \o <<r.test>>
<1>1. reports \in Seq(Report) /\ Len(reports) \in Nat /\ r.test \in Tests
  BY DEF BookOK, Report
<1>2. /\ Len(reports') = Len(reports) + 1
      /\ \A j \in 1..Len(reports) : reports'[j] = reports[j]
      /\ reports'[Len(reports) + 1] = r
  BY <1>1
<1>3. reported \in Seq(Tests) /\ Len(reported) = Len(reports)
  BY ReportedType
<1> DEFINE new == Append(reported, r.test)
<1>4. /\ new \in Seq(Tests) /\ Len(new) = Len(reports) + 1
      /\ \A j \in 1..Len(reports) : new[j] = reported[j]
      /\ new[Len(reports) + 1] = r.test
  BY <1>1, <1>3
<1> HIDE DEF new
<1>5. reported' = [j \in 1..(Len(reports) + 1) |-> reports'[j].test]
  BY <1>2 DEF reported
<1>6. \A j \in 1..(Len(reports) + 1) : reports'[j].test = new[j]
  <2> TAKE j \in 1..(Len(reports) + 1)
  <2>1. CASE j \in 1..Len(reports)
    BY <1>2, <1>4, <2>1 DEF reported
  <2>2. CASE j = Len(reports) + 1
    BY <1>2, <1>4, <2>2
  <2>3. QED
    BY <1>1, <2>1, <2>2
<1>7. new = [j \in 1..(Len(reports) + 1) |-> new[j]]
  BY <1>4
<1>8. reported' = new
  BY <1>5, <1>6, <1>7
<1>9. QED
  BY <1>1, <1>3, <1>8, AppendIsConcat DEF new

LEMMA TopLeft ==
  ASSUME NEW subs, NEW own, IsWalk(subs, own), OrderInv(subs, own), pc # "stopped"
  PROVE  LeftOf(subs, own, Top, Past) \in Seq(Tests)
<1>1. MainOK /\ stack # <<>> /\ InBounds(stack) /\ (pc = "teardown" => HasEntry)
  BY DEF OrderInv, TypeInv, MainOK, OrderOK
<1>2. CASE HasEntry
  BY <1>1, <1>2, AtEntry DEF Past
<1>3. CASE ~HasEntry
  BY <1>1, <1>3, AtEnd DEF Past
<1>4. QED
  BY <1>2, <1>3

\* a step of the loop on top, which reports the tests in x
LEMMA OrderMoves ==
  ASSUME NEW subs, NEW own, IsWalk(subs, own), OrderInv(subs, own), pc # "stopped",
         NEW x \in Seq(Tests), reported' = reported \o x,
         Len(stack') = Len(stack), \A d \in 1..(Len(stack) - 1) : stack'[d] = stack[d],
         LeftOf(subs, own, stack'[Len(stack)], Past') \in Seq(Tests),
         LeftOf(subs, own, Top, Past) = x \o LeftOf(subs, own, stack'[Len(stack)], Past')
  PROVE  \E rest : /\ ToCome(subs, own, rest, stack', Past')
                   /\ reported' \o rest[Len(stack')] = Order
<1>1. Len(stack) \in Nat \ {0} /\ reported \in Seq(Tests)
  BY TopType, ReportedType DEF OrderInv, TypeInv, MainOK
<1>2. PICK rest : /\ ToCome(subs, own, rest, stack, Past)
                  /\ reported \o rest[Len(stack)] = Order
  BY DEF OrderInv, OrderOK
<1> DEFINE new == stack'
           k == Past
           l == Past'
<1>3. MovesOn(subs, own, rest, stack, k, new, l, x)
  BY <1>1, <1>2 DEF MovesOn, Top
<1> HIDE DEF new, k, l
<1>4. PICK r : /\ ToCome(subs, own, r, new, l)
               /\ r[Len(new)] \in Seq(Tests)
               /\ rest[Len(stack)] = x \o r[Len(new)]
  <2>1. Leaves(subs, own, rest, stack, new, l, x)
    BY <1>3, GoesOn
  <2>2. QED
    BY <2>1 DEF Leaves
<1>5. (reported \o x) \o r[Len(new)] = reported \o (x \o r[Len(new)])
  BY <1>1, <1>4, Regroup
<1>6. QED
  BY <1>2, <1>4, <1>5 DEF new, l

\* a step that leaves the walk where it is
LEMMA OrderSame ==
  ASSUME NEW subs, NEW own, IsWalk(subs, own), OrderInv(subs, own),
         pc # "stopped", pc' # "stopped", UNCHANGED <<stack, status, reports>>, Past' = Past,
         pc' \in {"setup", "teardown"} \/ InTest' => HasEntry,
         pc' = "setup" \/ InTest' => Visits(Entry),
         pc' = "reading_suite" => ~HasEntry
  PROVE  OrderOK(subs, own)'
<1>1. MainOK /\ stack # <<>> /\ BookOK
  BY DEF OrderInv, TypeInv, MainOK
<1>2. reported' = reported /\ reported \in Seq(Tests)
  BY <1>1, ReportedType DEF reported
<1>3. reported = reported \o <<>> /\ <<>> \in Seq(Tests)
  BY <1>2, ConcatEmptySeq
<1>4. LeftOf(subs, own, Top, Past) \in Seq(Tests)
  BY TopLeft
<1>5. LeftOf(subs, own, Top, Past) = <<>> \o LeftOf(subs, own, Top, Past)
  BY <1>4, ConcatEmptySeq
<1>6. \E rest : /\ ToCome(subs, own, rest, stack', Past')
                /\ reported' \o rest[Len(stack')] = Order
  <2>1. reported' = reported \o <<>>
    BY <1>2, <1>3
  <2>2. stack'[Len(stack)] = Top
    BY DEF Top
  <2>3. QED
    BY <1>3, <1>4, <1>5, <2>1, <2>2, OrderMoves
<1>7. /\ Top' = Top /\ Entry' = Entry /\ (HasEntry' <=> HasEntry)
      /\ (Visits(Entry)' <=> Visits(Entry))
  BY DEF Top, Entry, HasEntry, Visits
<1>8. QED
  BY <1>2, <1>6, <1>7 DEF OrderInv, OrderOK

\* a step to the next entry of the loop, which reports the tests in x
LEMMA OrderNext ==
  ASSUME NEW subs, NEW own, IsWalk(subs, own), OrderInv(subs, own),
         pc # "stopped", pc' = "loop", status' = status, stack' = NextEntry, HasEntry,
         NEW x \in Seq(Tests), reported' = reported \o x,
         LeftOf(subs, own, Top, Past) = x \o LeftOf(subs, own, Top, 1)
  PROVE  OrderOK(subs, own)'
<1>1. MainOK /\ stack # <<>> /\ InBounds(stack) /\ status = "running"
  BY DEF OrderInv, TypeInv, MainOK, OrderOK
<1>2. /\ Len(stack') = Len(stack) /\ \A d \in 1..(Len(stack) - 1) : stack'[d] = stack[d]
      /\ InBounds(stack')
  BY <1>1, NextEntryType, NextTop
<1>3. LeftOf(subs, own, stack'[Len(stack)], Past') = LeftOf(subs, own, Top, 1)
  BY <1>1, NextTop DEF Past
<1>4. LeftOf(subs, own, Top, 1) \in Seq(Tests)
  BY <1>1, AtEntry
<1>5. \E rest : /\ ToCome(subs, own, rest, stack', Past')
                /\ reported' \o rest[Len(stack')] = Order
  BY <1>2, <1>3, <1>4, OrderMoves
<1>6. QED
  BY <1>1, <1>2, <1>5 DEF OrderOK, InTest

\* the runner ends without an exit status of its own
LEMMA OrderStops ==
  ASSUME NEW subs, NEW own, OrderInv(subs, own), pc' = "stopped",
         status' \in {"signalled", "died"}, UNCHANGED stack
  PROVE  OrderOK(subs, own)'
BY DEF OrderInv, OrderOK, InTest, InBounds

LEMMA OrderKept ==
  ASSUME NEW subs, NEW own, OrderInv(subs, own), UNCHANGED <<stack, pc, status, reports>>
  PROVE  OrderOK(subs, own)'
<1>1. /\ Top' = Top /\ Entry' = Entry /\ (HasEntry' <=> HasEntry) /\ reported' = reported
      /\ (Visits(Entry)' <=> Visits(Entry)) /\ (InTest' <=> InTest) /\ Past' = Past
  BY DEF Top, Entry, HasEntry, Visits, InTest, reported, Past
<1>2. QED
  BY <1>1 DEF OrderInv, OrderOK

LEMMA OrderOfSubSuite ==
  ASSUME NEW subs, NEW own, IsWalk(subs, own), OrderInv(subs, own), StartSubSuite
  PROVE  OrderOK(subs, own)'
<1>1. /\ MainOK /\ BookOK /\ stack # <<>> /\ InBounds(stack) /\ HasEntry /\ Visits(Entry)
      /\ Entry \in Suites /\ Top.loop = "subs" /\ status = "running" /\ stack \in Seq(FrameSet)
  BY DEF OrderInv, TypeInv, MainOK, OrderOK, StartSubSuite
<1>2. /\ pc = "setup" /\ pc' = "loop" /\ status' = status /\ reports' = reports
      /\ stack' = Append(stack, Frame(Entry))
  BY DEF StartSubSuite
<1>3. Len(stack) \in Nat \ {0} /\ Top \in FrameSet /\ Frame(Entry) \in FrameSet
  BY <1>1, TopType DEF Frame, FrameSet
<1>4. /\ Len(stack') = Len(stack) + 1 /\ stack'[Len(stack) + 1] = Frame(Entry)
      /\ \A d \in 1..Len(stack) : stack'[d] = stack[d]
  BY <1>1, <1>2, <1>3
<1>5. /\ LeftOf(subs, own, Top, 1) \in Seq(Tests)
      /\ LeftOf(subs, own, Top, 0)
           = (subs[Entry][1] \o own[Entry][1]) \o LeftOf(subs, own, Top, 1)
  BY <1>1, AtEntry
<1>6. /\ LeftOf(subs, own, Frame(Entry), 0) = subs[Entry][1] \o own[Entry][1]
      /\ LeftOf(subs, own, Frame(Entry), 0) \in Seq(Tests)
  <2>1. subs[Entry][1] \o own[Entry][1] \in Seq(Tests)
    BY <1>1, WalkOf, ConcatProperties
  <2>2. Frame(Entry).loop = "subs" /\ Frame(Entry).suite = Entry /\ Frame(Entry).i + 0 = 1
    BY DEF Frame
  <2>3. QED
    BY <2>1, <2>2 DEF LeftOf
<1>7. PICK rest : /\ ToCome(subs, own, rest, stack, 0)
                  /\ reported \o rest[Len(stack)] = Order
  BY <1>2 DEF OrderInv, OrderOK, Past
<1> DEFINE new == stack'
           frame == Frame(Entry)
<1>8. ComesOn(subs, own, rest, stack, frame, new)
  BY <1>3, <1>4, <1>5, <1>6, <1>7 DEF ComesOn, Top
<1>9. InBounds(new)
  <2>1. Len(Entries[Entry]) \in Nat /\ Frame(Entry).i = 1 /\ Frame(Entry).suite = Entry
    BY <1>1, TreeAssumption, LenProperties DEF Frame
  <2>2. ASSUME NEW d \in 1..(Len(stack) + 1)
        PROVE  /\ new[d].i \in 1..(Len(Entries[new[d].suite]) + 1)
               /\ d < Len(stack) + 1 => new[d].i <= Len(Entries[new[d].suite])
    <3>1. CASE d = Len(stack) + 1
      BY <1>3, <1>4, <2>1, <3>1
    <3>2. CASE d = Len(stack)
      <4>1. new[d] = Top /\ d \in 1..Len(stack)
        BY <1>3, <1>4, <3>2 DEF Top
      <4>2. Top.i \in 1..(Len(Entries[Top.suite]) + 1) /\ Top.i <= Len(Entries[Top.suite])
        BY <1>1, <4>1, <3>2 DEF InBounds, HasEntry, Top
      <4>3. QED
        BY <4>1, <4>2
    <3>3. CASE d \in 1..(Len(stack) - 1)
      <4>1. d \in 1..Len(stack) /\ d < Len(stack)
        BY <1>3, <3>3
      <4>2. QED
        BY <1>1, <1>4, <4>1 DEF InBounds
    <3>4. QED
      BY <1>3, <3>1, <3>2, <3>3
  <2>3. QED
    BY <1>4, <2>2 DEF InBounds
<1> HIDE DEF new, frame
<1>10. Leaves(subs, own, rest, stack, new, 0, <<>>)
  BY <1>8, PutOn
<1>11. PICK r : /\ ToCome(subs, own, r, new, 0) /\ r[Len(new)] \in Seq(Tests)
                /\ rest[Len(stack)] = <<>> \o r[Len(new)]
  BY <1>10 DEF Leaves
<1>12. rest[Len(stack)] = r[Len(new)] /\ reported' = reported
  BY <1>2, <1>11, ConcatEmptySeq DEF reported
<1>13. \E q : /\ ToCome(subs, own, q, stack', Past')
              /\ reported' \o q[Len(stack')] = Order
  BY <1>2, <1>7, <1>11, <1>12 DEF Past, new
<1>14. QED
  BY <1>1, <1>2, <1>9, <1>13 DEF OrderOK, InTest, new

LEMMA OrderOfOwnTests ==
  ASSUME NEW subs, NEW own, IsWalk(subs, own), OrderInv(subs, own), StartOwnTests
  PROVE  OrderOK(subs, own)'
<1> DEFINE frame == [suite |-> Top.suite, loop |-> "tests", i |-> 1]
<1>1. /\ MainOK /\ BookOK /\ stack # <<>> /\ InBounds(stack) /\ pc = "loop"
      /\ stack \in Seq(FrameSet) /\ ~HasEntry /\ Top.loop = "subs" /\ status = "running"
  BY DEF OrderInv, TypeInv, MainOK, OrderOK, StartOwnTests, InLoop
<1>2. /\ stack' = [stack EXCEPT ![Len(stack)] = frame]
      /\ pc' = pc /\ status' = status /\ reports' = reports
  BY DEF StartOwnTests, Top
<1>3. Len(stack) \in Nat \ {0} /\ Top \in FrameSet /\ Top.suite \in Suites
  BY <1>1, TopType DEF FrameSet
<1>4. /\ Len(stack') = Len(stack) /\ stack'[Len(stack)] = frame
      /\ \A d \in 1..(Len(stack) - 1) : stack'[d] = stack[d]
  BY <1>1, <1>2, <1>3
<1>5. /\ own[Top.suite][1] \in Seq(Tests)
      /\ LeftOf(subs, own, Top, Past) = own[Top.suite][1]
      /\ LeftOf(subs, own, stack'[Len(stack)], Past') = own[Top.suite][1]
  <2>1. own[Top.suite][1] \in Seq(Tests)
    BY <1>3, WalkOf
  <2>2. LeftOf(subs, own, Top, 0) = own[Top.suite][1]
    BY <1>1, AtEnd
  <2>3. LeftOf(subs, own, frame, 0) = own[Top.suite][1]
    BY DEF LeftOf
  <2>4. Past = 0 /\ Past' = 0
    BY <1>1, <1>2 DEF Past
  <2> HIDE DEF frame
  <2>5. QED
    BY <1>4, <2>1, <2>2, <2>3, <2>4
<1>6. /\ <<>> \in Seq(Tests) /\ reported' = reported \o <<>>
      /\ own[Top.suite][1] = <<>> \o own[Top.suite][1]
  <2>1. reported' = reported /\ reported \in Seq(Tests)
    BY <1>1, <1>2, ReportedType DEF reported
  <2>2. QED
    BY <1>5, <2>1, ConcatEmptySeq
<1>7. \E rest : /\ ToCome(subs, own, rest, stack', Past')
                /\ reported' \o rest[Len(stack')] = Order
  <2> DEFINE x == <<>>
  <2>1. /\ x \in Seq(Tests) /\ reported' = reported \o x
        /\ LeftOf(subs, own, Top, Past) = x \o LeftOf(subs, own, stack'[Len(stack)], Past')
        /\ LeftOf(subs, own, stack'[Len(stack)], Past') \in Seq(Tests)
    BY <1>5, <1>6
  <2> HIDE DEF x
  <2>2. QED
    BY <1>1, <1>4, <2>1, OrderMoves
<1>8. InBounds(stack')
  <2>1. Len(Entries[Top.suite]) \in Nat
    BY <1>3, TreeAssumption, LenProperties
  <2>2. ASSUME NEW d \in 1..Len(stack)
        PROVE  /\ stack'[d].i \in 1..(Len(Entries[stack'[d].suite]) + 1)
               /\ d < Len(stack) => stack'[d].i <= Len(Entries[stack'[d].suite])
    <3>1. CASE d = Len(stack)
      BY <1>3, <1>4, <2>1, <3>1
    <3>2. CASE d # Len(stack)
      <4>1. stack'[d] = stack[d] /\ d < Len(stack)
        BY <1>3, <1>4, <3>2
      <4>2. QED
        BY <1>1, <4>1 DEF InBounds
    <3>3. QED
      BY <3>1, <3>2
  <2>3. QED
    BY <1>4, <2>2 DEF InBounds
<1>9. QED
  BY <1>1, <1>2, <1>7, <1>8 DEF OrderOK, InTest

LEMMA OrderOfFinish ==
  ASSUME NEW subs, NEW own, IsWalk(subs, own), OrderInv(subs, own), FinishSuite
  PROVE  OrderOK(subs, own)'
<1>1. /\ MainOK /\ BookOK /\ stack # <<>> /\ InBounds(stack) /\ pc = "reading_suite"
      /\ stack \in Seq(FrameSet) /\ ~HasEntry /\ Top.loop = "tests" /\ status = "running"
  BY DEF OrderInv, TypeInv, MainOK, OrderOK, FinishSuite
<1>2. Len(stack) \in Nat \ {0}
  BY <1>1, TopType
<1>3. /\ stack' = DropLast(stack) /\ Len(stack') = Len(stack) - 1
      /\ \A d \in 1..(Len(stack) - 1) : stack'[d] = stack[d]
  BY <1>1, DropLastType DEF FinishSuite
<1>4. PICK rest : /\ ToCome(subs, own, rest, stack, 0)
                  /\ reported \o rest[Len(stack)] = Order
  BY <1>1 DEF OrderInv, OrderOK, Past
<1>5. LeftOf(subs, own, Top, 0) = <<>>
  BY <1>1, AtEnd
<1> DEFINE new == stack'
           k == 0
<1>6. ComesOff(subs, own, rest, stack, k, new)
  BY <1>2, <1>3, <1>4, <1>5 DEF ComesOff, Top
<1> HIDE DEF new, k
<1>7. Leaves(subs, own, rest, stack, new, 1, <<>>)
  BY <1>6, TakenOff
<1>8. PICK r : /\ ToCome(subs, own, r, new, 1) /\ r[Len(new)] \in Seq(Tests)
               /\ rest[Len(stack)] = <<>> \o r[Len(new)]
  BY <1>7 DEF Leaves
<1>9. rest[Len(stack)] = r[Len(new)] /\ reported' = reported
  <2>1. reports' = reports
    BY DEF FinishSuite
  <2>2. QED
    BY <1>8, <2>1, ConcatEmptySeq DEF reported
<1>10. reported' \o r[Len(new)] = Order
  BY <1>4, <1>9
<1>11. InBounds(stack')
  <2>1. ASSUME NEW d \in 1..(Len(stack) - 1)
        PROVE  /\ stack'[d].i \in 1..(Len(Entries[stack'[d].suite]) + 1)
               /\ stack'[d].i <= Len(Entries[stack'[d].suite])
    <3>1. d \in 1..Len(stack) /\ d < Len(stack) /\ stack'[d] = stack[d]
      BY <1>2, <1>3
    <3>2. QED
      BY <1>1, <3>1 DEF InBounds
  <2>2. QED
    BY <1>3, <2>1 DEF InBounds
<1>12. CASE Len(stack) = 1
  <2>1. r[Len(new)] = <<>>
    BY <1>3, <1>8, <1>12 DEF ToCome, new
  <2>2. reported' = Order
    <3>1. reported' \in Seq(Tests)
      BY <1>1, <1>9, ReportedType
    <3>2. QED
      BY <1>10, <2>1, <3>1, ConcatEmptySeq
  <2>3. pc' = "stopped" /\ status' \in {"success", "failure"}
    BY <1>12 DEF FinishSuite, Verdict
  <2>4. QED
    BY <1>11, <2>2, <2>3 DEF OrderOK, InTest
<1>13. CASE Len(stack) # 1
  <2>1. pc' = "teardown" /\ status' = status
    BY <1>13 DEF FinishSuite
  <2>2. HasEntry'
    <3>1. Len(stack) - 1 \in 1..Len(stack) /\ Len(stack) - 1 < Len(stack)
          /\ Len(stack) - 1 \in 1..(Len(stack) - 1)
      BY <1>2, <1>13
    <3>2. stack'[Len(stack')] = stack[Len(stack) - 1]
      BY <1>3, <3>1
    <3>3. QED
      BY <1>1, <3>1, <3>2 DEF InBounds, HasEntry, Top
  <2>3. QED
    BY <1>1, <1>8, <1>10, <1>11, <2>1, <2>2 DEF OrderOK, InTest, Past, new
<1>14. QED
  BY <1>12, <1>13

LEMMA OrderOfTest ==
  ASSUME NEW subs, NEW own, IsWalk(subs, own), OrderInv(subs, own), FinishTest
  PROVE  OrderOK(subs, own)'
<1>1. /\ MainOK /\ BookOK /\ stack # <<>> /\ pc = "reading" /\ HasEntry /\ Visits(Entry)
      /\ Entry \in Tests
  BY DEF OrderInv, TypeInv, MainOK, OrderOK, FinishTest, InTest
<1>2. /\ pc' = "loop" /\ status' = status /\ stack' = NextEntry
      /\ reports' = Append(reports, [test |-> Entry, how |-> Reported])
  BY DEF FinishTest
<1>3. [test |-> Entry, how |-> Reported] \in Report /\ [test |-> Entry, how |-> Reported].test = Entry
  BY <1>1 DEF Report, Reported
<1>4. reported' = reported \o <<Entry>>
  <2> DEFINE new == [test |-> Entry, how |-> Reported]
  <2>1. new \in Report /\ reports' = Append(reports, new) /\ new.test = Entry
    BY <1>2, <1>3
  <2> HIDE DEF new
  <2>2. QED
    BY <1>1, <2>1, ReportedGrows
<1>5. LeftOf(subs, own, Top, Past) = <<Entry>> \o LeftOf(subs, own, Top, 1)
  <2>1. Past = 0 /\ Entry \notin Suites
    BY <1>1, TreeAssumption DEF Past
  <2>2. QED
    BY <1>1, <2>1, AtEntry
<1> DEFINE x == <<Entry>>
<1>6. x \in Seq(Tests) /\ reported' = reported \o x
      /\ LeftOf(subs, own, Top, Past) = x \o LeftOf(subs, own, Top, 1)
  BY <1>1, <1>4, <1>5
<1> HIDE DEF x
<1>7. QED
  BY <1>1, <1>2, <1>6, OrderNext

LEMMA OrderMain ==
  ASSUME NEW subs, NEW own, IsWalk(subs, own), OrderInv(subs, own), MainStep
  PROVE  OrderOK(subs, own)'
<1>1. /\ MainOK /\ BookOK
      /\ pc # "stopped" => stack # <<>>
      /\ pc \in {"setup", "teardown"} \/ InTest => HasEntry
      /\ pc = "setup" \/ InTest => Visits(Entry)
      /\ pc = "reading_suite" => ~HasEntry
  BY DEF OrderInv, TypeInv, MainOK, OrderOK
<1>2. CASE EnterSubSuite
  <2>1. pc = "loop" /\ pc' = "setup" /\ UNCHANGED <<stack, status, reports>>
        /\ HasEntry /\ Visits(Entry)
    BY <1>2 DEF EnterSubSuite, Goto, book
  <2>2. Past' = Past /\ ~InTest'
    BY <2>1 DEF Past, InTest
  <2>3. QED
    BY <2>1, <2>2, OrderSame
<1>3. CASE StartSubSuite
  BY <1>3, OrderOfSubSuite
<1>4. ASSUME stack # <<>>, HasEntry, pc' = "loop", stack' = NextEntry, pc # "stopped",
             UNCHANGED <<status, reports>>,
             LeftOf(subs, own, Top, Past) = LeftOf(subs, own, Top, 1)
      PROVE  OrderOK(subs, own)'
  <2>1. reported \in Seq(Tests) /\ reported' = reported /\ LeftOf(subs, own, Top, 1) \in Seq(Tests)
    BY <1>1, <1>4, ReportedType, AtEntry DEF reported
  <2> DEFINE x == <<>>
  <2>2. /\ x \in Seq(Tests) /\ reported' = reported \o x
        /\ LeftOf(subs, own, Top, Past) = x \o LeftOf(subs, own, Top, 1)
    BY <1>4, <2>1, ConcatEmptySeq
  <2> HIDE DEF x
  <2>3. QED
    BY <1>4, <2>2, OrderNext
<1>5. CASE TeardownReturns
  <2>1. /\ pc = "teardown" /\ pc' = "loop" /\ stack' = NextEntry /\ UNCHANGED <<status, reports>>
        /\ Past = 1
    BY <1>5 DEF TeardownReturns, book, Past
  <2>2. QED
    BY <1>1, <1>4, <2>1
<1>6. CASE PassEntry
  <2>1. /\ pc = "loop" /\ pc' = "loop" /\ stack' = NextEntry /\ UNCHANGED <<status, reports>>
        /\ Past = 0 /\ HasEntry /\ ~Visits(Entry)
    BY <1>6 DEF PassEntry, book, Past
  <2>2. LeftOf(subs, own, Top, Past) = LeftOf(subs, own, Top, 1)
    <3>1. /\ LeftOf(subs, own, Top, 1) \in Seq(Tests)
          /\ LeftOf(subs, own, Top, 0) = <<>> \o LeftOf(subs, own, Top, 1)
      BY <1>1, <2>1, AtEntry
    <3>2. QED
      BY <2>1, <3>1, ConcatEmptySeq
  <2>3. QED
    BY <1>1, <1>4, <2>1, <2>2
<1>7. CASE StartOwnTests
  BY <1>7, OrderOfOwnTests
<1>8. CASE SkipTest \/ RunTest
  <2>1. /\ pc = "loop" /\ pc' \in {"reading", "forked", "test"}
        /\ UNCHANGED <<stack, status, reports>> /\ HasEntry /\ Visits(Entry)
    BY <1>8 DEF SkipTest, RunTest, AtTest, StartTest, book
  <2>2. Past' = Past /\ pc' # "setup" /\ pc' # "reading_suite" /\ pc' # "stopped"
    BY <2>1 DEF Past
  <2>3. QED
    BY <2>1, <2>2, OrderSame
<1>9. CASE IgnoreCtrlC \/ \E z \in (Tests \cup {Main}) \X Dead : WaitForChild(z)
  <2>1. /\ pc \in {"forked", "waiting"} /\ pc' \in {"waiting", "reading"}
        /\ UNCHANGED <<stack, status, reports>>
    BY <1>9 DEF IgnoreCtrlC, WaitForChild, Goto, book
  <2>2. Past' = Past /\ pc' \notin {"setup", "teardown", "reading_suite", "stopped"} /\ InTest
        /\ pc # "stopped"
    BY <2>1 DEF Past, InTest
  <2>3. QED
    BY <1>1, <2>1, <2>2, OrderSame
<1>10. CASE ReadResult
  <2>1. UNCHANGED <<stack, pc, status, reports>>
    BY <1>10 DEF ReadResult, main
  <2>2. QED
    BY <2>1, OrderKept
<1>11. CASE FinishTest
  BY <1>11, OrderOfTest
<1>12. CASE EndSuite
  <2>1. /\ pc = "loop" /\ pc' = "reading_suite" /\ UNCHANGED <<stack, status, reports>> /\ ~HasEntry
    BY <1>12 DEF EndSuite, InLoop, Goto, book
  <2>2. Past' = Past /\ ~InTest'
    BY <2>1 DEF Past, InTest
  <2>3. QED
    BY <2>1, <2>2, OrderSame
<1>13. CASE FinishSuite
  BY <1>13, OrderOfFinish
<1>14. CASE MainPanics
  BY <1>14, OrderStops DEF MainPanics, Stop
<1>15. QED
  BY <1>2, <1>3, <1>5, <1>6, <1>7, <1>8, <1>9, <1>10, <1>11, <1>12, <1>13, <1>14 DEF MainStep

LEMMA OrderStep ==
  ASSUME NEW subs, NEW own, IsWalk(subs, own), OnlyRunnerExits,
         OrderInv(subs, own), [Next]_vars
  PROVE  OrderInv(subs, own)'
<1>0. TypeInv' /\ (pc # "stopped" => stack # <<>>)
  BY TypeStep DEF OrderInv, TypeInv, MainOK
<1> SUFFICES OrderOK(subs, own)'
  BY <1>0 DEF OrderInv
<1>1. ASSUME UNCHANGED main, UNCHANGED reports PROVE OrderOK(subs, own)'
  BY <1>1, OrderKept DEF main
<1>2. ASSUME NEW t \in Tests, NEW how \in Dead, Dies(t, how),
             how = "exited" => Forking \/ "exited" \in Endings
      PROVE  OrderOK(subs, own)'
  <2>1. CASE Forking
    BY <1>1, <1>2, <2>1 DEF Dies, book
  <2>2. CASE ~Forking
    <3>1. how # "exited"
      BY <1>2, <2>2 DEF OnlyRunnerExits
    <3>2. Stop("signalled")
      BY <1>2, <2>2, <3>1 DEF Dies
    <3>3. QED
      BY <3>2, OrderStops DEF Stop
  <2>3. QED
    BY <2>1, <2>2
<1>3. ASSUME NEW t \in Tests, CodePanics(t) \/ Alarm(t) \/ \E how \in Dead : CodeDies(t, how)
      PROVE  OrderOK(subs, own)'
  <2>1. CASE CodePanics(t)
    BY <1>2, <2>1 DEF CodePanics, Dead
  <2>2. CASE Alarm(t)
    BY <1>2, <2>2 DEF Alarm, Dead, OnlyRunnerExits
  <2>3. ASSUME NEW how \in Dead, CodeDies(t, how) PROVE OrderOK(subs, own)'
    BY <1>2, <2>3 DEF CodeDies
  <2>4. QED
    BY <1>3, <2>1, <2>2, <2>3
<1>4. ASSUME NEW t \in Tests, CodeCompletes(t) PROVE OrderOK(subs, own)'
  <2>1. CASE Forking
    BY <1>1, <1>4, <2>1 DEF CodeCompletes, book
  <2>2. CASE ~Forking
    <3>1. pc = "test"
      BY <1>4, <2>2 DEF CodeCompletes, OrderInv, TypeInv, InProcessOK, Running
    <3>2. pc' = "reading" /\ UNCHANGED <<stack, status, reports>>
      BY <1>4, <2>2 DEF CodeCompletes, Goto, book
    <3>3. InTest /\ Past' = Past
      BY <3>1, <3>2 DEF InTest, Past
    <3>4. HasEntry /\ Visits(Entry)
      BY <3>3 DEF OrderInv, OrderOK
    <3>5. QED
      BY <3>1, <3>2, <3>3, <3>4, OrderSame
  <2>3. QED
    BY <2>1, <2>2
<1>5. ASSUME NEW t \in Tests,
             \/ CodeAdvances(t) \/ CodeThrows(t)
             \/ \E r \in {"pass", "fail", "skipped"} : CodeSends(t, r)
             \/ \E how \in {"exited", "signalled"} : ChildEnds(t, how)
      PROVE  OrderOK(subs, own)'
  BY <1>1, <1>5 DEF CodeAdvances, CodeThrows, CodeSends, ChildEnds, book
<1>6. ASSUME ForkFails PROVE OrderOK(subs, own)'
  BY <1>6, OrderStops DEF ForkFails
<1>7. ASSUME Interrupt PROVE OrderOK(subs, own)'
  <2>1. CASE UNCHANGED main
    BY <1>1, <1>7, <2>1 DEF Interrupt, book
  <2>2. CASE Stop("signalled")
    BY <2>2, OrderStops DEF Stop
  <2>3. QED
    BY <1>7, <2>1, <2>2 DEF Interrupt
<1>8. ASSUME HelperEnds \/ (\E r \in {"pass", "fail"} : FixtureAsserts(r)) \/ UNCHANGED vars
      PROVE  OrderOK(subs, own)'
  BY <1>1, <1>8 DEF HelperEnds, FixtureAsserts, vars, book
<1>9. QED
  BY <1>3, <1>4, <1>5, <1>6, <1>7, <1>8, OrderMain DEF Next, CodeStep

LEMMA OrderInit ==
  ASSUME NEW subs, NEW own, IsWalk(subs, own), Init
  PROVE  OrderInv(subs, own)
<1>1. TypeInv
  BY TypeInit
<1>2. /\ stack = <<Frame(Root)>> /\ pc = "loop" /\ status = "running" /\ reports = <<>>
  BY DEF Init
<1>3. Len(stack) = 1 /\ stack[1] = Frame(Root) /\ Root \in Suites
  BY <1>2, TreeAssumption
<1>4. InBounds(stack)
  <2>1. Len(Entries[Root]) \in Nat
    <3>1. IsWalk(subs, own)
      OBVIOUS
    <3>2. QED
      BY ONLY <1>3, <3>1, WalkOf, Zenon
  <2>2. QED
    BY <1>3, <2>1 DEF InBounds, Frame
<1> DEFINE r == [d \in 0..1 |-> IF d = 0 THEN <<>> ELSE Order]
<1>5. Order = LeftOf(subs, own, Frame(Root), 0) /\ Order \in Seq(Tests)
  <2>1. subs[Root][1] \o own[Root][1] \in Seq(Tests)
    BY <1>3, WalkOf, ConcatProperties
  <2>2. Frame(Root).loop = "subs" /\ Frame(Root).suite = Root /\ Frame(Root).i + 0 = 1
    BY DEF Frame
  <2>3. QED
    BY <2>1, <2>2, Zenon DEF LeftOf, IsWalk
<1>6. Order \o <<>> = Order /\ <<>> \o Order = Order /\ <<>> \in Seq(Tests)
  BY <1>5, ConcatEmptySeq
<1>7. ToCome(subs, own, r, stack, 0)
  <2>1. r \in [0..1 -> Seq(Tests)] /\ r[0] = <<>> /\ r[1] = Order
    BY <1>5, <1>6
  <2> HIDE DEF r
  <2>2. \A d \in 1..1 : d = 1 /\ ~(d < 1) /\ d - 1 = 0
    OBVIOUS
  <2>3. LeftOf(subs, own, stack[1], 0) \o r[0] = Order
    BY <1>3, <1>5, <1>6, <2>1
  <2>4. QED
    BY <1>3, <2>1, <2>2, <2>3 DEF ToCome
<1>8. reported \o r[Len(stack)] = Order
  <2>1. reported = <<>>
    <3>1. reported \in Seq(Tests) /\ Len(reported) = 0
      BY <1>1, <1>2, ReportedType DEF TypeInv
    <3>2. QED
      BY <3>1, EmptySeq
  <2>2. r[1] = Order
    OBVIOUS
  <2>3. QED
    BY <1>3, <1>6, <2>1, <2>2
<1> HIDE DEF r
<1>9. QED
  BY <1>1, <1>2, <1>4, <1>7, <1>8 DEF OrderInv, OrderOK, InTest, Past

-----------------------------------------------------------------------------
(* The contract of a run                                                   *)

\* what went wrong is neither forgotten nor made up by a step that reads nothing
SameBad == \A k \in Kinds : Weight(k)' = Weight(k)

LEMMA SameBadIsSame == ASSUME SameBad PROVE Bad' = Bad
<1>1. Weight("fail")' = Weight("fail") /\ Weight("exception")' = Weight("exception")
  BY DEF SameBad, Kinds, Results
<1>2. QED
  BY <1>1 DEF Bad

LEMMA WeightKept ==
  ASSUME stack # <<>>, stack' # <<>>, Top'.loop = Top.loop, UNCHANGED <<total, counters>>
  PROVE  SameBad
BY DEF SameBad, Weight, Unbooked

LEMMA WeightStill == ASSUME UNCHANGED <<stack, total, counters>> PROVE SameBad
<1>1. Top' = Top
  BY DEF Top
<1>2. QED
  BY <1>1 DEF SameBad, Weight, Unbooked

\* the resets of the counters come when they are empty or in the totals
LEMMA WeightReset ==
  ASSUME TypeInv, StartSubSuite \/ StartOwnTests
  PROVE  SameBad
<1>1. total' = total /\ counters' = NoCounts /\ stack # <<>> /\ Top.loop = "subs"
  BY DEF StartSubSuite, StartOwnTests, InLoop, TypeInv, MainOK
<1>2. \A k \in Kinds : Unbooked(k) = 0 /\ Unbooked(k)' = 0
  <2> TAKE k \in Kinds
  <2>1. Unbooked(k) = 0
    BY <1>1 DEF Unbooked
  <2>2. Unbooked(k)' \in {0, counters'[k]}
    BY DEF Unbooked
  <2>3. counters'[k] = 0
    BY <1>1 DEF NoCounts
  <2>4. QED
    BY <2>1, <2>2, <2>3
<1>3. QED
  BY <1>1, <1>2 DEF SameBad, Weight

LEMMA WeightBooked ==
  ASSUME TypeInv, FinishSuite
  PROVE  /\ Bad' = Bad
         /\ Len(stack) = 1 => status' = IF Bad THEN "failure" ELSE "success"
<1>1. /\ stack # <<>> /\ Top.loop = "tests" /\ stack \in Seq(FrameSet)
      /\ \A d \in 1..(Len(stack) - 1) : stack[d].loop = "subs"
      /\ counters \in [Kinds -> Nat] /\ total \in [Kinds -> Nat]
  BY DEF TypeInv, MainOK, BookOK, FinishSuite
<1>2. Len(stack) \in Nat \ {0} /\ Len(stack') = Len(stack) - 1
      /\ \A d \in 1..(Len(stack) - 1) : stack'[d] = stack[d]
  BY <1>1, TopType, DropLastType DEF FinishSuite, TypeInv
<1>3. \A k \in Kinds : Unbooked(k) = counters[k] /\ Unbooked(k)' = 0
  <2>1. CASE Len(stack) = 1
    <3>1. stack' = <<>>
      BY <1>1, <1>2, <2>1, DropLastType, EmptySeq DEF FinishSuite
    <3>2. QED
      BY <1>1, <3>1 DEF Unbooked
  <2>2. CASE Len(stack) # 1
    <3>1. Len(stack') \in 1..(Len(stack) - 1)
      BY <1>2, <2>2
    <3>2. Top'.loop = "subs"
      BY <1>1, <1>2, <3>1 DEF Top
    <3>3. QED
      BY <1>1, <3>2 DEF Unbooked
  <2>3. QED
    BY <2>1, <2>2
<1>4. /\ total'["fail"] = total["fail"] + counters["fail"]
      /\ total'["exception"] = total["exception"] + counters["exception"]
  <2>1. counters'["fail"] = counters["fail"] /\ counters'["exception"] = counters["exception"]
    BY <1>1 DEF FinishSuite, Kinds, Results
  <2>2. QED
    BY <2>1 DEF FinishSuite, Booked, Kinds, Results
<1>5. "fail" \in Kinds /\ "exception" \in Kinds
  BY DEF Kinds, Results
<1>6. /\ Weight("fail") = total'["fail"] /\ Weight("fail")' = total'["fail"]
      /\ Weight("exception") = total'["exception"] /\ Weight("exception")' = total'["exception"]
      /\ total'["fail"] \in Nat /\ total'["exception"] \in Nat
  BY <1>1, <1>3, <1>4, <1>5 DEF Weight
<1>7. Bad' = Bad
  BY <1>6 DEF Bad
<1>8. ASSUME Len(stack) = 1 PROVE status' = IF Bad THEN "failure" ELSE "success"
  <2>1. status' = Verdict(total')
    BY <1>8 DEF FinishSuite
  <2>2. QED
    BY <1>6, <2>1 DEF Verdict, Bad
<1>9. QED
  BY <1>7, <1>8

\* reading only adds to what is counted
LEMMA WeightGrows ==
  ASSUME TypeInv, ReadResult \/ FinishTest
  PROVE  Bad' = Bad \/ Bad' = TRUE
<1>1. /\ stack # <<>> /\ counters \in [Kinds -> Nat] /\ total \in [Kinds -> Nat] /\ total' = total
  BY DEF TypeInv, MainOK, BookOK, ReadResult, FinishTest
<1>2. stack' # <<>> /\ Top'.loop = Top.loop
  <2>1. CASE ReadResult
    BY <1>1, <2>1 DEF ReadResult, main, Top
  <2>2. CASE FinishTest
    <3>1. stack' = NextEntry
      BY <2>2 DEF FinishTest
    <3>2. QED
      BY <1>1, <3>1, NextEntryType DEF TypeInv, Top
  <2>3. QED
    BY <2>1, <2>2
<1>3. \A k \in Kinds : counters'[k] \in Nat /\ counters'[k] >= counters[k]
  <2>1. ASSUME NEW j, counters' = [counters EXCEPT ![j] = @ + 1]
        PROVE  \A k \in Kinds : counters'[k] \in Nat /\ counters'[k] >= counters[k]
    BY <1>1, <2>1
  <2>2. CASE ReadResult
    BY <2>1, <2>2 DEF ReadResult
  <2>3. CASE FinishTest
    <3>1. \/ counters' = [counters EXCEPT !["skipped"] = @ + 1]
          \/ counters' = [counters EXCEPT !["exception"] = @ + 1]
          \/ counters' = counters
      BY <2>3 DEF FinishTest
    <3>2. QED
      BY <1>1, <2>1, <3>1
  <2>4. QED
    BY <2>2, <2>3
<1>4. \A k \in Kinds : Weight(k) \in Nat /\ Weight(k)' \in Nat /\ Weight(k)' >= Weight(k)
  BY <1>1, <1>2, <1>3 DEF Weight, Unbooked
<1>5. /\ Weight("fail") \in Nat /\ Weight("fail")' \in Nat /\ Weight("fail")' >= Weight("fail")
      /\ Weight("exception") \in Nat /\ Weight("exception")' \in Nat
      /\ Weight("exception")' >= Weight("exception")
  BY <1>4 DEF Kinds, Results
<1>6. QED
  BY <1>5 DEF Bad

\* every step is a step of the contract, or none
LEMMA ContractStep ==
  ASSUME NEW subs, NEW own, IsWalk(subs, own), OnlyRunnerExits,
         OrderInv(subs, own), [Next]_vars
  PROVE  [Contract!Next]_(Contract!vars)
<1> USE DEF Contract!Next, Contract!vars
<1>0. /\ OrderInv(subs, own)' /\ TypeInv
      /\ pc # "stopped" <=> status = "running"
      /\ reported \in Seq(Tests) /\ Len(reported) = Len(reports)
  BY OrderStep, ReportedType DEF OrderInv, OrderOK, TypeInv
<1>1. ASSUME UNCHANGED <<reports, status>>, Bad' = Bad PROVE UNCHANGED Contract!vars
  BY <1>1
<1>2. ASSUME UNCHANGED <<stack, total, counters, reports, status>> PROVE UNCHANGED Contract!vars
  BY <1>1, <1>2, WeightStill, SameBadIsSame
<1>3. ASSUME pc # "stopped", UNCHANGED <<stack, total, counters, reports>>,
             status' \in {"signalled", "died"}
      PROVE  Contract!Killed
  <2>1. Bad' = Bad
    BY <1>3, WeightStill, SameBadIsSame
  <2>2. QED
    BY <1>0, <1>3, <2>1 DEF Contract!Killed
<1>4. ASSUME NEW t \in Tests, NEW how \in Dead, Dies(t, how), pc # "stopped",
             how = "exited" => Forking \/ "exited" \in Endings
      PROVE  [Contract!Next]_(Contract!vars)
  <2>1. CASE Forking
    BY <1>2, <1>4, <2>1 DEF Dies, main, book
  <2>2. CASE ~Forking
    <3>1. Stop("signalled") /\ UNCHANGED book
      BY <1>4, <2>2 DEF Dies, OnlyRunnerExits
    <3>2. QED
      BY <1>3, <1>4, <3>1 DEF Stop, book
  <2>3. QED
    BY <2>1, <2>2
<1>5. ASSUME NEW t \in Tests, CodePanics(t) \/ Alarm(t) \/ \E how \in Dead : CodeDies(t, how)
      PROVE  [Contract!Next]_(Contract!vars)
  <2>1. CASE CodePanics(t)
    BY <1>4, <2>1 DEF CodePanics, Dead
  <2>2. CASE Alarm(t)
    BY <1>4, <2>2 DEF Alarm, Dead, OnlyRunnerExits
  <2>3. ASSUME NEW how \in Dead, CodeDies(t, how) PROVE [Contract!Next]_(Contract!vars)
    BY <1>4, <2>3 DEF CodeDies
  <2>4. QED
    BY <1>5, <2>1, <2>2, <2>3
<1>6. ASSUME NEW t \in Tests,
             \/ CodeAdvances(t) \/ CodeThrows(t) \/ CodeCompletes(t)
             \/ \E r \in {"pass", "fail", "skipped"} : CodeSends(t, r)
             \/ \E how \in {"exited", "signalled"} : ChildEnds(t, how)
      PROVE  UNCHANGED Contract!vars
  <2>1. UNCHANGED <<stack, total, counters, reports, status>>
    BY <1>6 DEF CodeAdvances, CodeThrows, CodeCompletes, CodeSends, ChildEnds, Goto, book, main
  <2>2. QED
    BY <1>2, <2>1
<1>7. CASE ForkFails
  <2>1. pc # "stopped" /\ status' = "died" /\ UNCHANGED <<stack, total, counters, reports>>
    BY <1>7 DEF ForkFails, AtTest, book
  <2>2. QED
    BY <1>3, <2>1
<1>8. CASE Interrupt
  <2>1. pc # "stopped" /\ UNCHANGED book
    BY <1>8 DEF Interrupt
  <2>2. CASE UNCHANGED main
    BY <1>2, <2>1, <2>2 DEF main, book
  <2>3. CASE Stop("signalled")
    BY <1>3, <2>1, <2>3 DEF Stop, book
  <2>4. QED
    BY <1>8, <2>2, <2>3 DEF Interrupt
<1>9. CASE HelperEnds \/ (\E r \in {"pass", "fail"} : FixtureAsserts(r)) \/ UNCHANGED vars
  BY <1>2, <1>9 DEF HelperEnds, FixtureAsserts, vars, main, book
<1>10. CASE MainPanics
  <2>1. pc # "stopped" /\ status' = "signalled" /\ UNCHANGED <<stack, total, counters, reports>>
    BY <1>10 DEF MainPanics, AtTest, InLoop, Stop, book
  <2>2. QED
    BY <1>3, <2>1
<1>11. CASE EnterSubSuite \/ SkipTest \/ RunTest \/ IgnoreCtrlC \/ EndSuite
              \/ \E z \in (Tests \cup {Main}) \X Dead : WaitForChild(z)
  BY <1>2, <1>11 DEF EnterSubSuite, SkipTest, RunTest, StartTest, IgnoreCtrlC, EndSuite,
     WaitForChild, Goto, book
<1>12. CASE StartSubSuite \/ StartOwnTests
  <2>1. UNCHANGED <<reports, status>>
    BY <1>12 DEF StartSubSuite, StartOwnTests
  <2>2. QED
    BY <1>0, <1>1, <1>12, <2>1, WeightReset, SameBadIsSame
<1>13. CASE TeardownReturns \/ PassEntry
  <2>1. /\ UNCHANGED <<reports, status, total, counters>> /\ stack' = NextEntry /\ stack # <<>>
    BY <1>0, <1>13 DEF TeardownReturns, PassEntry, book, TypeInv, MainOK
  <2>2. stack' # <<>> /\ Top'.loop = Top.loop
    BY <1>0, <2>1, NextEntryType DEF TypeInv, Top
  <2>3. QED
    BY <1>1, <2>1, <2>2, WeightKept, SameBadIsSame
<1>14. CASE ReadResult
  <2>1. pc # "stopped" /\ UNCHANGED <<reports, status>>
    BY <1>14 DEF ReadResult, main
  <2>2. Bad' = Bad \/ Bad' = TRUE
    BY <1>0, <1>14, WeightGrows
  <2>3. QED
    BY <1>0, <1>1, <2>1, <2>2 DEF Contract!Record
<1>15. CASE FinishTest
  <2>1. pc = "reading" /\ status = "running" /\ status' = "running" /\ pc' = "loop"
    BY <1>0, <1>15 DEF FinishTest
  <2>2. reported' = Append(reported, Entry) /\ Entry \in Tests
    <3>1. Entry \in Tests /\ reports' = Append(reports, [test |-> Entry, how |-> Reported])
      BY <1>0, <1>15, <2>1 DEF FinishTest, TypeInv, MainOK, InTest
    <3> DEFINE new == [test |-> Entry, how |-> Reported]
    <3>2. new \in Report /\ new.test = Entry
      BY <3>1 DEF Report, Reported
    <3> HIDE DEF new
    <3>3. reports' = Append(reports, new)
      BY <3>1 DEF new
    <3>4. QED
      BY <1>0, <3>1, <3>2, <3>3, ReportedGrows DEF TypeInv
  <2>3. PICK rest : rest \in Seq(Tests) /\ reported' \o rest = Order
    <3>1. PICK r : /\ ToCome(subs, own, r, stack', Past')
                   /\ reported' \o r[Len(stack')] = Order
      BY <1>0, <2>1 DEF OrderInv, OrderOK
    <3>2. r[Len(stack')] \in Seq(Tests)
      <4>1. stack' \in Seq(FrameSet) /\ Len(stack') \in Nat
        BY <1>0 DEF OrderInv, TypeInv, MainOK
      <4>2. r \in [0..Len(stack') -> Seq(Tests)] /\ Len(stack') \in 0..Len(stack')
        BY <3>1, <4>1 DEF ToCome
      <4>3. QED
        BY <4>2
    <3>3. QED
      BY <3>1, <3>2
  <2>4. Len(reported) < Len(Order) /\ Order[Len(reported) + 1] = Entry
    <3> DEFINE new == reported'
               n == Len(reported)
    <3>1. n \in Nat /\ new \in Seq(Tests) /\ Len(new) = n + 1 /\ new[n + 1] = Entry
      BY <1>0, <2>2
    <3> HIDE DEF new, n
    <3>2. new \o rest = Order
      BY <2>3 DEF new
    <3>3. Len(rest) \in Nat /\ Len(new \o rest) = n + 1 + Len(rest)
          /\ (new \o rest)[n + 1] = Entry
      <4>1. rest \in Seq(Tests) /\ Len(rest) \in Nat
        BY <2>3
      <4>2. n + 1 \in 1..(Len(new) + Len(rest)) /\ n + 1 <= Len(new)
        BY <3>1, <4>1
      <4>3. QED
        BY <3>1, <4>1, <4>2, ConcatProperties
    <3>4. QED
      BY <3>1, <3>2, <3>3 DEF n
  <2>5. Bad' = Bad \/ Bad' = TRUE
    BY <1>0, <1>15, WeightGrows
  <2>6. Contract!Report
    BY <2>1, <2>2, <2>4, <2>5 DEF Contract!Report, reported
  <2>7. QED
    BY <2>6
<1>16. CASE FinishSuite
  <2>1. /\ Bad' = Bad /\ reports' = reports /\ pc = "reading_suite"
        /\ Len(stack) = 1 => status' = IF Bad THEN "failure" ELSE "success"
    BY <1>0, <1>16, WeightBooked DEF FinishSuite
  <2>2. CASE Len(stack) = 1
    <3>1. reported' = Order /\ reported' = reported
      BY <1>0, <2>1, <2>2 DEF OrderInv, OrderOK, reported
    <3>2. status = "running"
      BY <1>0, <2>1
    <3>3. Contract!Finish
      BY <2>1, <2>2, <3>1, <3>2 DEF Contract!Finish, reported
    <3>4. QED
      BY <3>3
  <2>3. CASE Len(stack) # 1
    BY <1>1, <1>16, <2>1, <2>3 DEF FinishSuite
  <2>4. QED
    BY <2>2, <2>3
<1>17. QED
  BY <1>5, <1>6, <1>7, <1>8, <1>9, <1>10, <1>11, <1>12, <1>13, <1>14, <1>15, <1>16
     DEF Next, MainStep, CodeStep

LEMMA ContractInit == Init => Contract!Init
<1> SUFFICES ASSUME Init PROVE Contract!Init
  OBVIOUS
<1>1. reported = <<>>
  <2>1. TypeInv /\ reports = <<>>
    BY TypeInit DEF Init
  <2>2. reported \in Seq(Tests) /\ Len(reported) = 0
    BY <2>1, ReportedType DEF TypeInv
  <2>3. QED
    BY <2>2, EmptySeq
<1>2. status = "running"
  BY DEF Init
<1>3. Weight("fail") = 0 /\ Weight("exception") = 0
  BY DEF Init, Weight, Unbooked, NoCounts, Kinds, Results, Top, Frame
<1>4. QED
  BY <1>1, <1>2, <1>3 DEF Contract!Init, Bad, reported

(* For any finite suite tree, in every mode in which only the runner ends  *)
(* itself with an exit status, run_test_suite() and run_single_test() keep *)
(* their contract: the tests are reported once each and in the order of    *)
(* the tree, whatever was counted stays counted over all resets of the     *)
(* counters, and the exit status says whether any of it was a failure.     *)
THEOREM RunKeepsItsContract ==
  ASSUME NEW subs, NEW own, IsWalk(subs, own), OnlyRunnerExits
  PROVE  Spec => ImplementsContract
<1>1. Init => OrderInv(subs, own)
  BY OrderInit
<1>2. OrderInv(subs, own) /\ [Next]_vars => OrderInv(subs, own)'
  BY OrderStep
<1>3. OrderInv(subs, own) /\ [Next]_vars => [Contract!Next]_(Contract!vars)
  BY ContractStep
<1>4. QED
  BY <1>1, <1>2, <1>3, ContractInit, PTL DEF Spec, ImplementsContract, Contract!Spec

-----------------------------------------------------------------------------
(* How tests are reported                                                  *)

\* no test is in two places of the tree
OnceEach == \A i, j \in 1..Len(Order) : Order[i] = Order[j] => i = j

\* a message of a fixture is not dropped without a trace
NoLostFixture == SigpipeHandled => Fixtures = {}

Troubled(t) == <<t, "died">> \in trouble \/ <<t, "lost">> \in trouble
IsReported(t)     == \E j \in 1..Len(reports) : reports[j].test = t
HasClosing  == \E j \in 1..Len(pipe) : pipe[j].result \in Closing

\* the report of a test that ended is true, and stays true
IsTrue(r) ==
  /\ Troubled(r.test) <=> r.how \in {"incomplete", "terminated"}
  /\ r.how = "terminated" => code[r.test] = "signalled"
  /\ code[r.test] \in Dead \cup {"none", "returned"}

\* until wait() takes another child: a test is in trouble, once it can send no
\* more, if and only if the pipe does not hold the message that closes it
OutcomeOK ==
  ~Misled =>
    /\ <<Main, "lost">> \notin trouble
    /\ Fixtures = {} /\ pc \in {"loop", "setup", "teardown"} => pipe = <<>>
    /\ \A j \in 1..Len(reports) : IsTrue(reports[j])
    /\ pc # "stopped" => \A t \in Tests : Troubled(t) => IsReported(t) \/ (InTest /\ t = Entry)
    /\ AtCode /\ code[Entry] \in Running =>
         <<Entry, "died">> \notin trouble /\ (<<Entry, "lost">> \in trouble => Full)
    /\ (AtCode /\ code[Entry] \notin Running) \/ pc = "reading" =>
         (Troubled(Entry) <=> ~HasClosing)
    /\ pc = "test" => wstatus # "signalled"
    /\ pc = "reading" => /\ code[Entry] \in Dead \cup {"none", "returned"}
                         /\ wstatus = "signalled" => code[Entry] = "signalled"

OutcomeInv(subs, own) == OrderInv(subs, own) /\ PipeInv /\ OutcomeOK

\* where the theorems below hold
Premises(subs, own) ==
  IsWalk(subs, own) /\ Undisturbed /\ OnlyRunnerExits /\ NoLostFixture /\ OnceEach

-----------------------------------------------------------------------------
(* A test under way was not reported before                                *)

LEMMA NotYet ==
  ASSUME NEW subs, NEW own, IsWalk(subs, own), OnceEach, OrderInv(subs, own),
         pc \notin {"stopped", "teardown"}, HasEntry, Visits(Entry), Entry \in Tests
  PROVE  ~IsReported(Entry)
<1>1. /\ MainOK /\ BookOK /\ stack # <<>> /\ IsWalk(subs, own) /\ Past = 0
      /\ Len(stack) \in Nat \ {0} /\ reported \in Seq(Tests) /\ Len(reported) = Len(reports)
  BY TopType, ReportedType DEF OrderInv, TypeInv, MainOK, Past
<1>2. PICK rest : ToCome(subs, own, rest, stack, 0) /\ reported \o rest[Len(stack)] = Order
  BY <1>1 DEF OrderInv, OrderOK
<1> DEFINE left  == LeftOf(subs, own, Top, 1)
           lower == rest[Len(stack) - 1]
<1>3. left \in Seq(Tests) /\ LeftOf(subs, own, Top, 0) = <<Entry>> \o left
  <2>1. Entry \notin Suites
    BY TreeAssumption
  <2>2. QED
    BY <1>1, <2>1, AtEntry
<1>4. rest[Len(stack)] = (<<Entry>> \o left) \o lower /\ lower \in Seq(Tests)
  <2>1. /\ Len(stack) \in 1..Len(stack) /\ ~(Len(stack) < Len(stack))
        /\ Len(stack) - 1 \in 0..Len(stack)
    BY <1>1
  <2>2. rest[Len(stack)] = LeftOf(subs, own, Top, 0) \o lower
    BY <1>2, <2>1 DEF ToCome, Top
  <2>3. lower \in Seq(Tests)
    BY <1>2, <2>1 DEF ToCome
  <2>4. QED
    BY <1>3, <2>2, <2>3
<1> HIDE DEF left, lower
<1> DEFINE tail == (<<Entry>> \o left) \o lower
           n    == Len(reported)
<1>5. tail \in Seq(Tests) /\ Len(tail) > 0 /\ tail[1] = Entry
  <2>1. <<Entry>> \in Seq(Tests) /\ Len(<<Entry>>) = 1 /\ <<Entry>>[1] = Entry
    OBVIOUS
  <2>2. <<Entry>> \o left \in Seq(Tests) /\ Len(<<Entry>> \o left) = 1 + Len(left)
        /\ (<<Entry>> \o left)[1] = Entry
    BY <1>3, <2>1, ConcatProperties
  <2>3. Len(left) \in Nat /\ Len(lower) \in Nat
    BY <1>3, <1>4
  <2>4. 1 \in 1..(1 + Len(left) + Len(lower)) /\ 1 <= 1 + Len(left)
    BY <2>3
  <2>5. QED
    BY <1>4, <2>2, <2>3, <2>4, ConcatProperties
<1> HIDE DEF tail
<1>6. reported \o tail = Order
  BY <1>2, <1>4 DEF tail
<1>7. /\ n \in Nat /\ Len(Order) = n + Len(tail) /\ Len(tail) \in Nat
      /\ \A j \in 1..(n + Len(tail)) :
           Order[j] = IF j <= n THEN reported[j] ELSE tail[j - n]
  <2>1. n \in Nat /\ Len(tail) \in Nat
    BY <1>1, <1>5
  <2>2. /\ Len(reported \o tail) = n + Len(tail)
        /\ \A j \in 1..(n + Len(tail)) :
             (reported \o tail)[j] = IF j <= n THEN reported[j] ELSE tail[j - n]
    BY <1>1, <1>5, ConcatProperties
  <2>3. QED
    BY <1>6, <2>1, <2>2
<1>8. n + 1 \in 1..Len(Order) /\ Order[n + 1] = Entry
  <2>1. n + 1 \in 1..(n + Len(tail)) /\ ~(n + 1 <= n) /\ n + 1 - n = 1
    BY <1>5, <1>7
  <2>2. QED
    BY <1>5, <1>7, <2>1
<1>9. ASSUME NEW j \in 1..Len(reports), reports[j].test = Entry PROVE FALSE
  <2>1. j \in 1..(n + Len(tail)) /\ j <= n /\ j # n + 1
    BY <1>1, <1>7
  <2>2. Order[j] = Entry
    BY <1>1, <1>7, <1>9, <2>1 DEF reported
  <2>3. QED
    BY <1>7, <1>8, <2>1, <2>2 DEF OnceEach
<1>10. QED
  BY <1>9 DEF IsReported

-----------------------------------------------------------------------------
(* The steps                                                               *)

\* what was reported stays true while nobody reported is touched
LEMMA StillTrue ==
  ASSUME TypeInv, \A j \in 1..Len(reports) : IsTrue(reports[j]), reports' = reports,
         \A t \in Tests : IsReported(t) => code'[t] = code[t] /\ (Troubled(t)' <=> Troubled(t))
  PROVE  (\A j \in 1..Len(reports) : IsTrue(reports[j]))'
<1> SUFFICES ASSUME NEW j \in 1..Len(reports') PROVE IsTrue(reports[j])'
  OBVIOUS
<1>1. j \in 1..Len(reports) /\ reports'[j] = reports[j] /\ reports[j] \in Report
  <2>1. reports \in Seq(Report)
    BY DEF TypeInv, BookOK
  <2>2. QED
    BY <2>1, ElementOfSeq
<1>2. PICK r \in Report : r = reports[j]
  BY <1>1
<1>3. PICK t \in Tests : t = r.test
  BY DEF Report
<1>4. IsReported(t) /\ IsTrue(r)
  BY <1>1, <1>2, <1>3 DEF IsReported
<1>5. code'[t] = code[t] /\ (Troubled(t)' <=> Troubled(t))
  BY <1>4 DEF Troubled, IsReported
<1>6. IsTrue(r)'
  BY <1>3, <1>4, <1>5 DEF IsTrue, Troubled
<1>7. QED
  BY <1>1, <1>2, <1>6 DEF IsTrue, Troubled

LEMMA OutcomeStops ==
  ASSUME OutcomeOK, TypeInv, ~Misled, pc' = "stopped", reports' = reports,
         <<Main, "lost">> \notin trouble',
         \A t \in Tests : IsReported(t) => code'[t] = code[t] /\ (Troubled(t)' <=> Troubled(t))
  PROVE  OutcomeOK'
<1>1. (\A j \in 1..Len(reports) : IsTrue(reports[j]))'
  BY StillTrue DEF OutcomeOK
<1>2. QED
  BY <1>1 DEF OutcomeOK, InTest, AtFork, AtCode, IsTrue, Troubled

\* the test under way gets on
LEMMA OutcomeCode ==
  ASSUME NEW subs, NEW own, Premises(subs, own), OutcomeInv(subs, own), ~Misled,
         pc # "stopped", NEW t \in Tests, code[t] \in Running \cup {"exiting"},
         UNCHANGED <<stack, pc, reports, wstatus>>,
         \E c : code' = [code EXCEPT ![t] = c],
         \A u \in (Tests \cup {Main}) \ {t} :
           /\ <<u, "died">> \in trouble' <=> <<u, "died">> \in trouble
           /\ <<u, "lost">> \in trouble' <=> <<u, "lost">> \in trouble,
         code'[t] \in Running =>
           <<t, "died">> \notin trouble' /\ (<<t, "lost">> \in trouble' => Full'),
         code'[t] \notin Running => (Troubled(t)' <=> ~HasClosing')
  PROVE  OutcomeOK'
<1>1. AtCode /\ t = Entry /\ InTest
  BY RunningIsUnderWay DEF OutcomeInv, Premises
<1>2. AtCode' /\ InTest' /\ Entry' = t /\ pc' # "reading" /\ pc' \notin {"loop", "setup", "teardown"}
      /\ (pc' = "test" => wstatus' # "signalled")
  BY <1>1 DEF AtCode, AtFork, InTest, Entry, Top, OutcomeInv, OutcomeOK
<1>3. ~IsReported(t)
  <2>1. HasEntry /\ Visits(Entry)
    BY <1>1 DEF OutcomeInv, OrderInv, OrderOK
  <2>2. pc \notin {"stopped", "teardown"}
    BY <1>1 DEF InTest
  <2>3. QED
    BY <1>1, <2>1, <2>2, NotYet DEF OutcomeInv, Premises
<1>4. \A u \in Tests \ {t} : code'[u] = code[u] /\ (Troubled(u)' <=> Troubled(u))
  <2>1. code \in [Tests -> Phases]
    BY DEF OutcomeInv, OrderInv, TypeInv, ProcsOK
  <2>2. QED
    BY <2>1 DEF Troubled
<1>5. (\A j \in 1..Len(reports) : IsTrue(reports[j]))'
  BY <1>3, <1>4, StillTrue DEF OutcomeInv, OutcomeOK, OrderInv
<1>6. \A u \in Tests : IsReported(u)' <=> IsReported(u)
  BY DEF IsReported
<1>7. \A u \in Tests : Troubled(u)' => IsReported(u)' \/ (InTest' /\ u = Entry')
  <2>1. \A u \in Tests : Troubled(u) => IsReported(u) \/ u = t
    BY <1>1 DEF OutcomeInv, OutcomeOK
  <2>2. QED
    BY <1>2, <1>4, <1>6, <2>1
<1>8. <<Main, "lost">> \notin trouble'
  <2>1. Main # t
    BY TreeAssumption
  <2>2. QED
    BY <2>1 DEF OutcomeInv, OutcomeOK
<1>9. QED
  BY <1>2, <1>5, <1>7, <1>8 DEF OutcomeOK, Troubled, IsReported, HasClosing

\* without fork a test returns to the walk
LEMMA OutcomeReturns ==
  ASSUME NEW subs, NEW own, Premises(subs, own), OutcomeInv(subs, own), ~Misled,
         pc # "stopped", NEW t \in Tests, code[t] \in Running, ~Forking,
         UNCHANGED <<stack, reports, wstatus>>, pc' = "reading",
         code' = [code EXCEPT ![t] = "returned"],
         \A u \in (Tests \cup {Main}) \ {t} :
           /\ <<u, "died">> \in trouble' <=> <<u, "died">> \in trouble
           /\ <<u, "lost">> \in trouble' <=> <<u, "lost">> \in trouble,
         Troubled(t)' <=> ~HasClosing'
  PROVE  OutcomeOK'
<1>1. pc = "test" /\ t = Entry /\ InTest
  BY DEF OutcomeInv, OrderInv, TypeInv, InProcessOK, InTest
<1>2. /\ ~AtCode' /\ InTest' /\ Entry' = t /\ pc' \notin {"loop", "setup", "teardown", "test"}
      /\ wstatus' # "signalled"
  BY <1>1 DEF AtCode, AtFork, InTest, Entry, Top, OutcomeInv, OutcomeOK
<1>3. ~IsReported(t)
  <2>1. HasEntry /\ Visits(Entry) /\ pc \notin {"stopped", "teardown"}
    BY <1>1 DEF OutcomeInv, OrderInv, OrderOK
  <2>2. QED
    BY <1>1, <2>1, NotYet DEF OutcomeInv, Premises
<1>4. /\ code'[t] = "returned"
      /\ \A u \in Tests \ {t} : code'[u] = code[u] /\ (Troubled(u)' <=> Troubled(u))
  <2>1. code \in [Tests -> Phases]
    BY DEF OutcomeInv, OrderInv, TypeInv, ProcsOK
  <2>2. QED
    BY <2>1 DEF Troubled
<1>5. (\A j \in 1..Len(reports) : IsTrue(reports[j]))'
  BY <1>3, <1>4, StillTrue DEF OutcomeInv, OutcomeOK, OrderInv
<1>6. \A u \in Tests : IsReported(u)' <=> IsReported(u)
  BY DEF IsReported
<1>7. \A u \in Tests : Troubled(u)' => IsReported(u)' \/ (InTest' /\ u = Entry')
  <2>1. \A u \in Tests : Troubled(u) => IsReported(u) \/ u = t
    BY <1>1 DEF OutcomeInv, OutcomeOK
  <2>2. QED
    BY <1>2, <1>4, <1>6, <2>1
<1>8. <<Main, "lost">> \notin trouble'
  <2>1. Main # t
    BY TreeAssumption
  <2>2. QED
    BY <2>1 DEF OutcomeInv, OutcomeOK
<1>9. QED
  BY <1>2, <1>4, <1>5, <1>7, <1>8 DEF OutcomeOK, Troubled, IsReported, HasClosing

LEMMA NoneClosing ==
  ASSUME PipeInv, Undisturbed, ~Misled, pc # "stopped", MoreToCome PROVE ~HasClosing
BY DEF PipeInv, PipeOK, HasClosing

\* the steps of the test under way
LEMMA OutcomeOfTest ==
  ASSUME NEW subs, NEW own, Premises(subs, own), OutcomeInv(subs, own), ~Misled,
         pc # "stopped", NEW t \in Tests,
         \/ CodeStep(t) \/ CodeThrows(t) \/ Alarm(t)
         \/ \E r \in {"pass", "fail", "skipped"} : CodeSends(t, r)
         \/ \E how \in Dead : CodeDies(t, how)
         \/ \E how \in {"exited", "signalled"} : ChildEnds(t, how)
  PROVE  OutcomeOK'
<1>0. /\ ExitHandlers = {} /\ code \in [Tests -> Phases] /\ Main # t
      /\ Undisturbed /\ PipeInv
  BY TreeAssumption DEF Premises, Undisturbed, OutcomeInv, OrderInv, TypeInv, ProcsOK
<1>1. ASSUME code[t] \in Running
      PROVE  /\ ~HasClosing /\ <<t, "died">> \notin trouble /\ (<<t, "lost">> \in trouble => Full)
  <2>1. AtCode /\ t = Entry /\ MoreToCome
    BY <1>0, <1>1, RunningIsUnderWay
  <2>2. QED
    BY <1>0, <1>1, <2>1, NoneClosing DEF OutcomeInv, OutcomeOK
<1>2. ASSUME NEW how \in Dead, code[t] \in Running, Dies(t, how) PROVE OutcomeOK'
  <2>0. /\ UNCHANGED <<reports, pipe, wstatus>> /\ trouble' = trouble \cup {<<t, "died">>}
    BY <1>2 DEF Dies, book
  <2>1. CASE Forking
    <3>1. UNCHANGED <<stack, pc>> /\ code' = [code EXCEPT ![t] = how]
      BY <1>2, <2>1 DEF Dies, main
    <3>2. code'[t] \notin Running
      BY <1>0, <3>1 DEF Dead, Running
    <3>3. Troubled(t)' /\ ~HasClosing'
      BY <1>1, <1>2, <2>0 DEF Troubled, HasClosing
    <3>4. \A u \in (Tests \cup {Main}) \ {t} :
            /\ <<u, "died">> \in trouble' <=> <<u, "died">> \in trouble
            /\ <<u, "lost">> \in trouble' <=> <<u, "lost">> \in trouble
      BY <2>0
    <3>5. QED
      BY <1>2, <2>0, <3>1, <3>2, <3>3, <3>4, OutcomeCode
  <2>2. CASE ~Forking
    <3>1. pc' = "stopped" /\ code' = code
      BY <1>2, <2>2 DEF Dies, Stop
    <3>2. t = Entry /\ HasEntry /\ Visits(Entry) /\ pc \notin {"stopped", "teardown"}
      BY <1>0, <1>2, RunningIsUnderWay DEF InTest, OutcomeInv, OrderInv, OrderOK
    <3>3. ~IsReported(t)
      BY <3>2, NotYet DEF OutcomeInv, Premises
    <3>4. \A u \in Tests : IsReported(u) => code'[u] = code[u] /\ (Troubled(u)' <=> Troubled(u))
      BY <2>0, <3>1, <3>3 DEF Troubled, IsReported
    <3>5. <<Main, "lost">> \notin trouble' /\ OutcomeOK /\ TypeInv
      BY <2>0 DEF OutcomeInv, OutcomeOK, OrderInv
    <3>6. QED
      BY <2>0, <3>1, <3>4, <3>5, OutcomeStops
  <2>3. QED
    BY <2>1, <2>2
<1>3. ASSUME code[t] \in Running, NEW r \in Results \ Closing, Send(t, r),
             UNCHANGED <<stack, pc, reports, wstatus>>,
             NEW c \in Running, code' = [code EXCEPT ![t] = c]
      PROVE  OutcomeOK'
  <2>1. <<t, "died">> \notin trouble' /\ (<<t, "lost">> \in trouble' => Full')
    <3>1. CASE Full
      <4>1. Full'
        BY <1>3, <3>1 DEF Send, Full
      <4>2. <<t, "died">> \notin trouble'
        BY <1>1, <1>3 DEF Send
      <4>3. QED
        BY <4>1, <4>2
    <3>2. CASE ~Full
      BY <1>1, <1>3, <3>2 DEF Send
    <3>3. QED
      BY <3>1, <3>2
  <2>2. code'[t] \in Running
    BY <1>0, <1>3
  <2>3. \A u \in (Tests \cup {Main}) \ {t} :
          /\ <<u, "died">> \in trouble' <=> <<u, "died">> \in trouble
          /\ <<u, "lost">> \in trouble' <=> <<u, "lost">> \in trouble
    BY <1>3 DEF Send
  <2>4. QED
    BY <1>3, <2>1, <2>2, <2>3, OutcomeCode
<1>4. CASE CodeAdvances(t)
  <2>1. /\ code[t] \in Running /\ UNCHANGED <<stack, pc, reports, wstatus, pipe, trouble>>
        /\ \E c : code' = [code EXCEPT ![t] = c]
    BY <1>4 DEF CodeAdvances, main, book, channel
  <2>2. code'[t] \in Running
    BY <1>0, <1>4 DEF CodeAdvances, NextPhase, Running
  <2>3. Full' <=> Full
    BY <2>1 DEF Full
  <2>4. QED
    BY <1>1, <2>1, <2>2, <2>3, OutcomeCode
<1>5. CASE CodeThrows(t)
  <2>1. /\ code[t] \in Running /\ UNCHANGED <<stack, pc, reports, wstatus>> /\ Send(t, "exception")
        /\ code' = [code EXCEPT ![t] = NextPhase(t)] /\ NextPhase(t) \in Running
    BY <1>5 DEF CodeThrows, main, book, NextPhase, Running
  <2>2. "exception" \in Results \ Closing
    BY DEF Results, Closing
  <2>3. QED
    BY <1>3, <2>1, <2>2
<1>6. ASSUME NEW r \in {"pass", "fail", "skipped"}, CodeSends(t, r) PROVE OutcomeOK'
  <2>1. /\ code[t] \in Running /\ UNCHANGED <<stack, pc, reports, wstatus, code>> /\ Send(t, r)
        /\ r # "skipped"
    BY <1>0, <1>6 DEF CodeSends, Undisturbed, main, book, procs
  <2>2. r \in Results \ Closing /\ code' = [code EXCEPT ![t] = code[t]]
    BY <1>0, <2>1 DEF Results, Closing
  <2>3. QED
    BY <1>3, <2>1, <2>2
<1>7. CASE CodeCompletes(t)
  <2>1. /\ code[t] \in Running /\ UNCHANGED <<stack, reports, wstatus>> /\ Send(t, "completion")
        /\ code' = [code EXCEPT ![t] = IF Forking THEN "exiting" ELSE "returned"]
        /\ IF Forking THEN pc' = pc ELSE pc' = "reading"
    BY <1>7 DEF CodeCompletes, main, Goto, book, Running
  <2>2. code'[t] \notin Running
    BY <1>0, <2>1 DEF Running
  <2>3. Troubled(t)' <=> ~HasClosing'
    <3>1. CASE Full
      <4>1. Troubled(t)'
        BY <2>1, <3>1 DEF Send, Troubled
      <4>2. pipe' = pipe
        BY <2>1, <3>1 DEF Send
      <4>3. QED
        BY <1>1, <2>1, <4>1, <4>2 DEF HasClosing
    <3>2. CASE ~Full
      <4> DEFINE m == [result |-> "completion", from |-> t]
      <4>1. trouble' = trouble /\ pipe' = Append(pipe, m)
        BY <2>1, <3>2 DEF Send
      <4>2. ~Troubled(t)'
        BY <1>1, <2>1, <3>2, <4>1 DEF Troubled
      <4>3. pipe \in Seq(Message) /\ m \in Message /\ m.result \in Closing
        BY <1>0 DEF PipeInv, WaitInv, TypeInv, ChannelOK, Message, Results, Closing
      <4> HIDE DEF m
      <4>4. Len(pipe') \in 1..Len(pipe') /\ pipe'[Len(pipe')] = m
        BY <4>1, <4>3
      <4>5. HasClosing'
        BY <4>3, <4>4 DEF HasClosing
      <4>6. QED
        BY <4>2, <4>5
    <3>3. QED
      BY <3>1, <3>2
  <2>4. \A u \in (Tests \cup {Main}) \ {t} :
          /\ <<u, "died">> \in trouble' <=> <<u, "died">> \in trouble
          /\ <<u, "lost">> \in trouble' <=> <<u, "lost">> \in trouble
    BY <2>1 DEF Send
  <2>5. CASE Forking
    BY <2>1, <2>2, <2>3, <2>4, <2>5, OutcomeCode
  <2>6. CASE ~Forking
    <3>1. /\ code' = [code EXCEPT ![t] = "returned"] /\ code'[t] = "returned" /\ pc' = "reading"
      BY <1>0, <2>1, <2>6
    <3>2. QED
      BY <2>1, <2>3, <2>4, <2>6, <3>1, OutcomeReturns
  <2>7. QED
    BY <2>5, <2>6
<1>8. ASSUME NEW how \in {"exited", "signalled"}, ChildEnds(t, how) PROVE OutcomeOK'
  <2>1. /\ code[t] = "exiting" /\ UNCHANGED <<stack, pc, reports, wstatus, pipe, trouble>>
        /\ code' = [code EXCEPT ![t] = how]
    BY <1>8 DEF ChildEnds, main, book, channel
  <2>2. code'[t] \notin Running
    BY <1>0, <2>1 DEF Running
  <2>3. Troubled(t)' <=> ~HasClosing'
    <3>1. AtCode /\ t = Entry
      BY <1>0, <2>1, RunningIsUnderWay
    <3>2. code[t] \notin Running
      BY <2>1 DEF Running
    <3>3. Troubled(t) <=> ~HasClosing
      BY <3>1, <3>2 DEF OutcomeInv, OutcomeOK
    <3>4. QED
      BY <2>1, <3>3 DEF Troubled, HasClosing
  <2>4. QED
    BY <2>1, <2>2, <2>3, OutcomeCode
<1>9. CASE CodePanics(t)
  BY <1>0, <1>2, <1>9 DEF CodePanics, Dead
<1>10. CASE Alarm(t)
  <2>1. Forking
    BY <1>10 DEF Alarm, Premises, OnlyRunnerExits
  <2>2. QED
    BY <1>2, <1>10, <2>1 DEF Alarm, Dead
<1>11. ASSUME NEW how \in Dead, CodeDies(t, how) PROVE OutcomeOK'
  BY <1>2, <1>11 DEF CodeDies
<1>12. QED
  BY <1>4, <1>5, <1>6, <1>7, <1>8, <1>9, <1>10, <1>11 DEF CodeStep

\* what the user and the other child do
LEMMA OutcomeOfInterrupt ==
  ASSUME NEW subs, NEW own, Premises(subs, own), OutcomeInv(subs, own), ~Misled, Interrupt
  PROVE  OutcomeOK'
<1> DEFINE hit == {t \in Tests : Forking /\ code[t] \in Running \cup {"exiting"}}
<1>1. /\ pc # "stopped" /\ reports' = reports /\ pipe' = pipe /\ wstatus' = wstatus
      /\ code' = [t \in Tests |-> IF t \in hit THEN "signalled" ELSE code[t]]
      /\ trouble' = trouble \cup {<<t, "died">> : t \in {u \in hit : code[u] # "exiting"}}
      /\ Undisturbed /\ PipeInv /\ TypeInv /\ Main \notin Tests
      /\ code \in [Tests -> Phases]
  <2>1. /\ pc # "stopped" /\ reports' = reports /\ pipe' = pipe /\ wstatus' = wstatus
        /\ code' = [t \in Tests |-> IF t \in hit THEN "signalled" ELSE code[t]]
        /\ trouble' = trouble \cup {<<t, "died">> : t \in {u \in hit : code[u] # "exiting"}}
    BY DEF Interrupt, book
  <2>2. Undisturbed /\ PipeInv /\ TypeInv /\ Main \notin Tests
    BY TreeAssumption DEF Premises, Undisturbed, OutcomeInv, OrderInv
  <2>3. code \in [Tests -> Phases]
    BY <2>2 DEF TypeInv, ProcsOK
  <2>4. QED
    BY <2>1, <2>2, <2>3
<1>2. \A t \in hit : AtCode /\ t = Entry /\ InTest
  BY <1>1, RunningIsUnderWay
<1>3. \A t \in Tests : IsReported(t) => t \notin hit
  <2> SUFFICES ASSUME NEW t \in hit PROVE ~IsReported(t)
    OBVIOUS
  <2>1. InTest /\ t = Entry
    BY <1>2
  <2>2. HasEntry /\ Visits(Entry) /\ pc \notin {"stopped", "teardown"}
    BY <2>1 DEF OutcomeInv, OrderInv, OrderOK, InTest
  <2>3. QED
    BY <2>1, <2>2, NotYet DEF OutcomeInv, Premises
<1>4. /\ <<Main, "lost">> \notin trouble'
      /\ \A t \in Tests \ hit : code'[t] = code[t] /\ (Troubled(t)' <=> Troubled(t))
  BY <1>1 DEF OutcomeInv, OutcomeOK, Troubled
<1> HIDE DEF hit
<1>5. \A t \in Tests : IsReported(t) => code'[t] = code[t] /\ (Troubled(t)' <=> Troubled(t))
  BY <1>3, <1>4 DEF Troubled, IsReported
<1>6. CASE pc' = "stopped"
  BY <1>1, <1>4, <1>5, <1>6, OutcomeStops DEF OutcomeInv
<1>7. CASE UNCHANGED main /\ pc = "waiting"
  <2>1. /\ Entry' = Entry /\ pc' = pc /\ AtCode /\ AtCode' /\ InTest' /\ InTest /\ Forking
    BY <1>1, <1>7 DEF main, Entry, Top, AtFork, AtCode, InTest, PipeInv, NoProcess
  <2>2. Entry \in Tests
    BY <1>1, <2>1 DEF TypeInv, MainOK
  <2>3. (\A j \in 1..Len(reports) : IsTrue(reports[j]))'
    BY <1>1, <1>5, StillTrue DEF OutcomeInv, OutcomeOK
  <2>4. code'[Entry] \notin Running
    <3>1. Entry \in hit \/ code[Entry] \notin Running
      BY <1>1, <2>1, <2>2 DEF hit
    <3>2. QED
      BY <1>1, <2>2, <3>1 DEF Running
  <2>5. Troubled(Entry)' <=> ~HasClosing'
    <3>1. CASE code[Entry] \in Running
      <4>1. ~HasClosing
        BY <1>1, <2>1, <3>1, NoneClosing DEF MoreToCome
      <4>2. Entry \in hit /\ code[Entry] # "exiting"
        BY <1>1, <2>1, <2>2, <3>1 DEF hit, Running
      <4>3. <<Entry, "died">> \in trouble'
        BY <1>1, <4>2
      <4>4. QED
        BY <1>1, <2>1, <4>1, <4>3 DEF Troubled, HasClosing
    <3>2. CASE code[Entry] \notin Running
      <4>1. Troubled(Entry) <=> ~HasClosing
        BY <2>1, <3>2 DEF OutcomeInv, OutcomeOK
      <4>2. Entry \in hit => code[Entry] = "exiting"
        BY <3>2 DEF hit
      <4>3. \A t \in hit : t = Entry
        BY <1>2
      <4>4. trouble' = trouble
        BY <1>1, <4>2, <4>3
      <4>5. QED
        BY <1>1, <2>1, <4>1, <4>4 DEF Troubled, HasClosing
    <3>3. QED
      BY <3>1, <3>2
  <2>6. \A t \in Tests : Troubled(t)' => IsReported(t)' \/ (InTest' /\ t = Entry')
    <3> TAKE t \in Tests
    <3>1. CASE t \in hit
      BY <1>2, <2>1, <3>1
    <3>2. CASE t \notin hit
      <4>1. Troubled(t) => IsReported(t) \/ t = Entry
        BY <2>1, <1>1 DEF OutcomeInv, OutcomeOK
      <4>2. QED
        BY <1>1, <1>4, <2>1, <3>2, <4>1 DEF Troubled, IsReported
    <3>3. QED
      BY <3>1, <3>2
  <2>7. pc' \notin {"reading", "loop", "setup", "teardown", "test"}
    BY <1>7, <2>1
  <2>8. QED
    BY <1>4, <2>1, <2>3, <2>4, <2>5, <2>6, <2>7 DEF OutcomeOK, Troubled, IsReported, HasClosing
<1>8. QED
  BY <1>6, <1>7 DEF Interrupt, Stop

\* the walk goes on between two tests
LEMMA OutcomeQuiet ==
  ASSUME OutcomeOK, TypeInv, ~Misled, ~InTest, pc # "stopped", ~InTest', pc' # "stopped",
         UNCHANGED <<reports, code>>, <<Main, "lost">> \notin trouble',
         \A t \in Tests : Troubled(t)' <=> Troubled(t),
         Fixtures = {} /\ pc' \in {"loop", "setup", "teardown"} => pipe' = <<>>
  PROVE  OutcomeOK'
<1>1. (\A j \in 1..Len(reports) : IsTrue(reports[j]))'
  BY StillTrue DEF OutcomeOK
<1>2. \A t \in Tests : Troubled(t)' => IsReported(t)'
  BY DEF OutcomeOK, IsReported, Troubled
<1>3. ~AtCode' /\ pc' \notin {"reading", "test"}
  BY DEF AtFork, AtCode, InTest
<1>4. QED
  BY <1>1, <1>2, <1>3 DEF OutcomeOK, Troubled, IsReported

\* the main process loses no message of its own
LEMMA NotFull ==
  ASSUME OutcomeOK, ~Misled, NoLostFixture, pc \in {"loop", "setup", "teardown"}, Survives
  PROVE  ~Full
<1> SUFFICES ASSUME Full PROVE FALSE
  OBVIOUS
<1>1. pipe = <<>>
  BY DEF Survives, NoLostFixture, OutcomeOK
<1>2. Len(pipe) = 0 /\ Capacity \in Nat \ {0}
  BY <1>1, BoundAssumption
<1>3. QED
  BY <1>2 DEF Full

LEMMA OutcomeOfStart ==
  ASSUME NEW subs, NEW own, Premises(subs, own), OutcomeInv(subs, own), ~Misled,
         SkipTest \/ RunTest
  PROVE  OutcomeOK'
<1>1. /\ pc = "loop" /\ HasEntry /\ Visits(Entry) /\ Entry \in Tests
      /\ UNCHANGED <<stack, reports>> /\ wstatus' = "exited"
      /\ Undisturbed /\ PipeInv /\ TypeInv /\ OutcomeOK /\ NoLostFixture
  BY DEF SkipTest, RunTest, AtTest, StartTest, book, Premises, OutcomeInv, OrderInv
<1>2. ~IsReported(Entry)
  BY <1>1, NotYet DEF OutcomeInv, Premises
<1>3. /\ Entry' = Entry /\ ~InTest /\ ~AtCode /\ pc # "stopped"
  BY <1>1 DEF Entry, Top, InTest, AtFork, AtCode
<1>4. ~Troubled(Entry)
  BY <1>1, <1>2, <1>3 DEF OutcomeOK
<1>5. ~HasClosing
  BY <1>1, <1>3, NoneClosing DEF MoreToCome
<1>6. CASE SkipTest
  <2>1. /\ pc' = "reading" /\ code' = code /\ Send(Main, "skipped") /\ Survives
    BY <1>6 DEF SkipTest, StartTest
  <2>2. ~Full
    BY <1>1, <1>3, <2>1, NotFull
  <2> DEFINE m == [result |-> "skipped", from |-> Main]
  <2>3. trouble' = trouble /\ pipe' = Append(pipe, m)
    BY <2>1, <2>2 DEF Send
  <2>4. HasClosing'
    <3>1. pipe \in Seq(Message) /\ m \in Message /\ m.result \in Closing
      BY <1>1 DEF TypeInv, ChannelOK, Message, Results, Closing
    <3> HIDE DEF m
    <3>2. Len(pipe') \in 1..Len(pipe') /\ pipe'[Len(pipe')] = m
      BY <2>3, <3>1
    <3>3. QED
      BY <3>1, <3>2 DEF HasClosing
  <2>5. (\A j \in 1..Len(reports) : IsTrue(reports[j]))'
    BY <1>1, <2>1, <2>3, StillTrue DEF OutcomeOK, Troubled
  <2>6. code[Entry] \in Dead \cup {"none", "returned"}
    <3>1. WaitInv /\ NoProcess
      BY <1>1 DEF PipeInv
    <3>2. CASE Forking
      BY <1>1, <1>3, <3>1, <3>2 DEF WaitInv, WaitOK, Alive, AtCode
    <3>3. CASE ~Forking
      <4>1. code[Entry] \notin Running \cup Dead \cup {"exiting"} /\ code[Entry] \in Phases
        BY <1>1, <3>1, <3>3 DEF TypeInv, InProcessOK, ProcsOK, NoProcess
      <4>2. QED
        BY <4>1 DEF Phases
    <3>4. QED
      BY <3>2, <3>3
  <2>7. \A t \in Tests : Troubled(t)' => IsReported(t)'
    BY <1>1, <1>3, <2>3 DEF OutcomeOK, Troubled, IsReported
  <2>8. ~Troubled(Entry)'
    BY <1>3, <1>4, <2>3 DEF Troubled
  <2>9. ~AtCode' /\ <<Main, "lost">> \notin trouble'
    BY <1>1, <2>1, <2>3 DEF AtFork, AtCode, OutcomeOK
  <2>10. QED
    BY <1>1, <1>3, <2>1, <2>4, <2>5, <2>6, <2>7, <2>8, <2>9 DEF OutcomeOK, Troubled, IsReported
<1>7. CASE RunTest
  <2>1. /\ pc' \in {"forked", "test"} /\ code' = [code EXCEPT ![Entry] = "setup"]
        /\ UNCHANGED <<pipe, trouble>>
    BY <1>1, <1>7 DEF RunTest, StartTest, channel
  <2>2. code'[Entry] = "setup" /\ \A t \in Tests \ {Entry} : code'[t] = code[t]
    BY <1>1, <2>1 DEF TypeInv, ProcsOK
  <2>3. (\A j \in 1..Len(reports) : IsTrue(reports[j]))'
    <3>1. \A t \in Tests : IsReported(t) => code'[t] = code[t] /\ (Troubled(t)' <=> Troubled(t))
      BY <1>2, <2>1, <2>2 DEF Troubled, IsReported
    <3>2. QED
      BY <1>1, <3>1, StillTrue DEF OutcomeOK, Troubled
  <2>4. \A t \in Tests : Troubled(t)' => IsReported(t)'
    BY <1>1, <1>3, <2>1 DEF OutcomeOK, Troubled, IsReported
  <2>5. <<Entry, "died">> \notin trouble /\ <<Entry, "lost">> \notin trouble
    BY <1>4 DEF Troubled
  <2>6. code'[Entry] \in Running /\ <<Main, "lost">> \notin trouble'
    BY <1>1, <2>1, <2>2 DEF OutcomeOK, Running
  <2>7. QED
    BY <1>1, <1>3, <2>1, <2>3, <2>4, <2>5, <2>6 DEF OutcomeOK, Troubled, IsReported
<1>8. QED
  BY <1>6, <1>7

LEMMA OutcomeOfWait ==
  ASSUME NEW subs, NEW own, Premises(subs, own), OutcomeInv(subs, own), ~Misled, ~Misled',
         IgnoreCtrlC \/ \E z \in (Tests \cup {Main}) \X Dead : WaitForChild(z)
  PROVE  OutcomeOK'
<1>1. /\ AtFork /\ AtCode /\ InTest /\ pc' \in {"waiting", "reading"}
      /\ UNCHANGED <<stack, reports, code, pipe, trouble>>
      /\ Undisturbed /\ Forking /\ PipeInv /\ TypeInv /\ OutcomeOK
  BY DEF IgnoreCtrlC, WaitForChild, Goto, book, procs, channel, AtFork, AtCode, InTest, Premises,
     OutcomeInv, OrderInv, PipeInv, NoProcess
<1>2. /\ Entry' = Entry /\ InTest' /\ pc # "stopped"
  BY <1>1 DEF Entry, Top, InTest
<1>3. (\A j \in 1..Len(reports) : IsTrue(reports[j]))'
  BY <1>1, StillTrue DEF OutcomeOK, Troubled
<1>4. \A t \in Tests : Troubled(t)' => IsReported(t)' \/ t = Entry'
  BY <1>1, <1>2 DEF OutcomeOK, Troubled, IsReported
<1>5. CASE IgnoreCtrlC
  <2>1. pc' = "waiting" /\ AtCode' /\ (Full' <=> Full)
    BY <1>1, <1>5 DEF IgnoreCtrlC, Goto, AtFork, AtCode, Full
  <2>2. QED
    BY <1>1, <1>2, <1>3, <1>4, <2>1 DEF OutcomeOK, Troubled, IsReported, HasClosing
<1>6. ASSUME NEW z \in (Tests \cup {Main}) \X Dead, WaitForChild(z) PROVE OutcomeOK'
  <2>1. /\ z \in zombies /\ zombies' = zombies \ {z} /\ wstatus' = z[2] /\ helper' = helper
        /\ pc' = "reading"
    BY <1>6 DEF WaitForChild, Goto
  <2>2. WaitOK
    BY <1>1 DEF PipeInv, WaitInv
  <2>3. z[1] \in Tests
    <3>1. z # <<Main, "exited">>
      <4> SUFFICES ASSUME z = <<Main, "exited">> PROVE FALSE
        OBVIOUS
      <4>1. helper' = "ended" /\ <<Main, "exited">> \notin zombies'
        BY <1>1, <2>1, <2>2 DEF WaitOK
      <4>2. QED
        BY <4>1 DEF Misled
    <3>2. z \in Tests \X Dead
      BY <1>1, <2>1, <2>2, <3>1 DEF WaitOK
    <3>3. QED
      BY <3>2
  <2>4. z[1] = Entry /\ code[Entry] = z[2] /\ z[2] \in Dead
    BY <1>1, <1>2, <2>1, <2>2, <2>3 DEF WaitOK
  <2>5. code[Entry] \notin Running
    BY <2>4 DEF Dead, Running
  <2>6. Troubled(Entry) <=> ~HasClosing
    BY <1>1, <2>5 DEF OutcomeOK
  <2>7. /\ code'[Entry'] \in Dead /\ code'[Entry'] = wstatus' /\ ~AtCode'
        /\ (Troubled(Entry)' <=> ~HasClosing')
    BY <1>1, <1>2, <2>1, <2>4, <2>6 DEF AtFork, AtCode, Troubled, HasClosing
  <2>8. <<Main, "lost">> \notin trouble'
    BY <1>1 DEF OutcomeOK
  <2>9. QED
    BY <1>2, <1>3, <1>4, <2>1, <2>7, <2>8 DEF OutcomeOK, Troubled, IsReported, HasClosing
<1>7. QED
  BY <1>5, <1>6

LEMMA OutcomeOfRead ==
  ASSUME NEW subs, NEW own, Premises(subs, own), OutcomeInv(subs, own), ~Misled, ReadResult
  PROVE  OutcomeOK'
<1>1. /\ pc \in {"reading", "reading_suite"} /\ pipe # <<>> /\ pipe' = Tail(pipe)
      /\ NextResult = Head(pipe).result /\ NextResult \notin Closing
      /\ UNCHANGED <<stack, pc, reports, code, wstatus, trouble>>
      /\ PipeInv /\ TypeInv /\ OutcomeOK
  BY DEF ReadResult, NextResult, Unread, Closing, main, procs, OutcomeInv, OrderInv
<1>2. /\ Entry' = Entry /\ (InTest' <=> InTest) /\ ~AtCode' /\ pc # "stopped"
  BY <1>1 DEF Entry, Top, InTest, AtFork, AtCode
<1>3. HasClosing' <=> HasClosing
  <2>1. pipe \in Seq(Message)
    BY <1>1 DEF TypeInv, ChannelOK
  <2>2. /\ Len(pipe) \in Nat /\ Len(pipe) > 0 /\ Len(pipe') = Len(pipe) - 1
        /\ Head(pipe) = pipe[1]
        /\ \A j \in 1..(Len(pipe) - 1) : pipe'[j] = pipe[j + 1]
    BY <1>1, <2>1
  <2>3. ASSUME HasClosing' PROVE HasClosing
    <3>1. PICK j \in 1..Len(pipe') : pipe'[j].result \in Closing
      BY <2>3 DEF HasClosing
    <3>2. j + 1 \in 1..Len(pipe) /\ pipe'[j] = pipe[j + 1]
      BY <2>2, <3>1
    <3>3. QED
      BY <3>1, <3>2 DEF HasClosing
  <2>4. ASSUME HasClosing PROVE HasClosing'
    <3>1. PICK j \in 1..Len(pipe) : pipe[j].result \in Closing
      BY <2>4 DEF HasClosing
    <3>2. j # 1
      BY <1>1, <2>2, <3>1
    <3>3. PICK i \in 1..(Len(pipe) - 1) : j = i + 1
      <4>1. j - 1 \in 1..(Len(pipe) - 1) /\ j = (j - 1) + 1
        BY <2>2, <3>1, <3>2
      <4>2. QED
        BY <4>1
    <3>4. i \in 1..Len(pipe') /\ pipe'[i] = pipe[j]
      BY <2>2, <3>3
    <3>5. QED
      BY <3>1, <3>4 DEF HasClosing
  <2>5. QED
    BY <2>3, <2>4
<1>4. (\A j \in 1..Len(reports) : IsTrue(reports[j]))'
  BY <1>1, StillTrue DEF OutcomeOK, Troubled
<1>5. \A t \in Tests : Troubled(t)' => IsReported(t)' \/ (InTest' /\ t = Entry')
  BY <1>1, <1>2 DEF OutcomeOK, Troubled, IsReported
<1>6. pc' = "reading" => (Troubled(Entry)' <=> ~HasClosing')
  BY <1>1, <1>2, <1>3 DEF OutcomeOK, Troubled
<1>7. pc' \notin {"loop", "setup", "teardown", "test"} /\ <<Main, "lost">> \notin trouble'
  BY <1>1 DEF OutcomeOK
<1>8. QED
  BY <1>1, <1>2, <1>4, <1>5, <1>6, <1>7 DEF OutcomeOK, Troubled, IsReported

LEMMA OutcomeOfReport ==
  ASSUME NEW subs, NEW own, Premises(subs, own), OutcomeInv(subs, own), ~Misled, FinishTest
  PROVE  OutcomeOK'
<1>1. /\ pc = "reading" /\ LastRead /\ pc' = "loop" /\ UNCHANGED <<code, trouble>>
      /\ reports' = Append(reports, [test |-> Entry, how |-> Reported])
      /\ pipe' = Unread
      /\ Undisturbed /\ PipeInv /\ TypeInv /\ OutcomeOK
  BY DEF FinishTest, procs, Premises, OutcomeInv, OrderInv
<1>2. Entry \in Tests /\ InTest
  BY <1>1 DEF InTest, TypeInv, MainOK
<1>3. pipe' = <<>>
  BY <1>1, NothingLeft
<1>4. PICK r \in Report : r.test = Entry /\ r.how = Reported /\ reports' = Append(reports, r)
  <2>1. [test |-> Entry, how |-> Reported] \in Report
    BY <1>2 DEF Report, Reported
  <2>2. QED
    BY <1>1, <2>1
<1>5. PICK t \in Tests : t = Entry
  BY <1>2
<1>6. IsTrue(r)
  <2>1. /\ Troubled(t) <=> ~HasClosing
        /\ code[t] \in Dead \cup {"none", "returned"}
        /\ wstatus = "signalled" => code[t] = "signalled"
    BY <1>1, <1>5 DEF OutcomeOK
  <2>2. pipe \in Seq(Message)
    BY <1>1 DEF TypeInv, ChannelOK
  <2>3. CASE NextResult \in {"skipped", "completion"}
    <3>1. pipe # <<>> /\ Head(pipe).result \in Closing
      BY <2>3 DEF NextResult, Closing
    <3>2. Head(pipe) = pipe[1] /\ 1 \in 1..Len(pipe)
      BY <2>2, <3>1
    <3>3. HasClosing
      BY <3>1, <3>2 DEF HasClosing
    <3>4. Reported \in {"skipped", "completed"}
      BY <2>3 DEF Reported
    <3>5. QED
      BY <1>4, <1>5, <2>1, <3>3, <3>4 DEF IsTrue
  <2>4. CASE NextResult = "nothing"
    <3>1. pipe = <<>>
      <4> SUFFICES ASSUME pipe # <<>> PROVE FALSE
        OBVIOUS
      <4>1. Head(pipe) \in Message /\ Head(pipe).result = "nothing"
        BY <2>2, <2>4 DEF NextResult
      <4>2. QED
        BY <4>1 DEF Message, Results
    <3>2. ~HasClosing
      BY <3>1 DEF HasClosing
    <3>3. Reported = IF wstatus = "signalled" THEN "terminated" ELSE "incomplete"
      BY <2>4 DEF Reported
    <3>4. QED
      BY <1>4, <1>5, <2>1, <3>2, <3>3 DEF IsTrue
  <2>5. QED
    BY <1>1, <2>3, <2>4 DEF LastRead
<1>7. /\ reports \in Seq(Report) /\ Len(reports) \in Nat /\ Len(reports') = Len(reports) + 1
      /\ \A j \in 1..Len(reports) : reports'[j] = reports[j]
      /\ reports'[Len(reports) + 1] = r
  <2>1. reports \in Seq(Report)
    BY <1>1 DEF TypeInv, BookOK
  <2>2. QED
    BY <1>4, <2>1
<1>8. \A j \in 1..Len(reports') : IsTrue(reports'[j])
  <2> TAKE j \in 1..Len(reports')
  <2>1. CASE j \in 1..Len(reports)
    BY <1>1, <1>7, <2>1 DEF OutcomeOK
  <2>2. CASE j = Len(reports) + 1
    BY <1>6, <1>7, <2>2
  <2>3. QED
    BY <1>7, <2>1, <2>2
<1>9. (\A j \in 1..Len(reports) : IsTrue(reports[j]))'
  BY <1>1, <1>8 DEF IsTrue, Troubled
<1>10. \A u \in Tests : Troubled(u) => \E j \in 1..Len(reports') : reports'[j].test = u
  <2> SUFFICES ASSUME NEW u \in Tests, Troubled(u)
               PROVE  \E j \in 1..Len(reports') : reports'[j].test = u
    OBVIOUS
  <2>1. IsReported(u) \/ u = t
    BY <1>1, <1>5 DEF OutcomeOK
  <2>2. CASE IsReported(u)
    <3>1. PICK j \in 1..Len(reports) : reports[j].test = u
      BY <2>2 DEF IsReported
    <3>2. j \in 1..Len(reports') /\ reports'[j].test = u
      BY <1>7, <3>1
    <3>3. QED
      BY <3>2
  <2>3. CASE u = t
    BY <1>4, <1>5, <1>7, <2>3
  <2>4. QED
    BY <2>1, <2>2, <2>3
<1>11. ~AtCode' /\ <<Main, "lost">> \notin trouble'
  BY <1>1 DEF AtFork, AtCode, OutcomeOK
<1>12. QED
  BY <1>1, <1>3, <1>9, <1>10, <1>11 DEF OutcomeOK, Troubled, IsReported

LEMMA OutcomeMain ==
  ASSUME NEW subs, NEW own, Premises(subs, own), OutcomeInv(subs, own),
         ~Misled, ~Misled', MainStep
  PROVE  OutcomeOK'
<1>0. /\ Undisturbed /\ NoLostFixture /\ PipeInv /\ TypeInv /\ OutcomeOK /\ <<Main, "lost">> \notin trouble
  BY DEF Premises, OutcomeInv, OrderInv, OutcomeOK
<1>1. CASE EnterSubSuite \/ StartSubSuite \/ TeardownReturns \/ PassEntry \/ StartOwnTests
  <2>1. /\ pc \in {"loop", "setup", "teardown"} /\ pc' \in {"loop", "setup", "teardown"}
        /\ UNCHANGED <<reports, code, trouble, pipe>>
    BY <1>1 DEF EnterSubSuite, StartSubSuite, TeardownReturns, PassEntry, StartOwnTests, InLoop,
       Goto, book, procs, channel
  <2>2. ~InTest /\ ~InTest' /\ pc # "stopped" /\ pc' # "stopped"
    BY <2>1 DEF InTest
  <2>3. /\ \A t \in Tests : Troubled(t)' <=> Troubled(t)
        /\ Fixtures = {} => pipe' = <<>>
    BY <1>0, <2>1 DEF OutcomeOK, Troubled
  <2>4. QED
    BY <1>0, <2>1, <2>2, <2>3, OutcomeQuiet DEF Troubled
<1>2. CASE EndSuite
  <2>1. /\ pc = "loop" /\ pc' = "reading_suite" /\ UNCHANGED <<reports, code>> /\ Survives
        /\ Send(Main, "completion")
    BY <1>2 DEF EndSuite, InLoop, Goto, book, procs
  <2>2. ~InTest /\ ~InTest' /\ pc # "stopped" /\ pc' # "stopped"
    BY <2>1 DEF InTest
  <2>3. trouble' = trouble
    BY <1>0, <2>1, NotFull DEF Send
  <2>4. QED
    BY <1>0, <2>1, <2>2, <2>3, OutcomeQuiet DEF Troubled
<1>3. CASE FinishSuite
  <2>1. /\ pc = "reading_suite" /\ pc' \in {"stopped", "teardown"}
        /\ UNCHANGED <<reports, code, trouble>> /\ pipe' = Unread /\ LastRead
    BY <1>3 DEF FinishSuite, procs
  <2>2. pipe' = <<>> /\ ~InTest /\ ~InTest' /\ pc # "stopped"
    BY <1>0, <2>1, NothingLeft DEF InTest
  <2>3. CASE pc' = "stopped"
    BY <1>0, <2>1, <2>3, OutcomeStops DEF Troubled
  <2>4. CASE pc' # "stopped"
    BY <1>0, <2>1, <2>2, <2>4, OutcomeQuiet DEF Troubled
  <2>5. QED
    BY <2>3, <2>4
<1>4. CASE MainPanics
  <2>1. /\ pc' = "stopped" /\ UNCHANGED <<reports, code>>
        /\ trouble' = trouble \cup {<<Main, "died">>}
    BY <1>4 DEF MainPanics, Stop, book, procs
  <2>2. /\ \A t \in Tests : Troubled(t)' <=> Troubled(t)
        /\ <<Main, "lost">> \notin trouble'
    BY <1>0, <2>1, TreeAssumption DEF Troubled
  <2>3. QED
    BY <1>0, <2>1, <2>2, OutcomeStops DEF Troubled
<1>5. QED
  BY <1>1, <1>2, <1>3, <1>4, OutcomeOfStart, OutcomeOfWait, OutcomeOfRead, OutcomeOfReport
     DEF MainStep

LEMMA OutcomeStep ==
  ASSUME NEW subs, NEW own, Premises(subs, own), OutcomeInv(subs, own), [Next]_vars
  PROVE  OutcomeInv(subs, own)'
<1>0. /\ OrderInv(subs, own)' /\ PipeInv' /\ TypeInv /\ WaitInv
      /\ Undisturbed /\ PipeInv /\ NoLostFixture
  <2>1. OnlyRunnerExits /\ IsWalk(subs, own) /\ Undisturbed /\ NoLostFixture
    BY DEF Premises
  <2>2. QED
    BY <2>1, OrderStep, PipeStep DEF OutcomeInv, OrderInv, PipeInv
<1> SUFFICES ASSUME ~Misled' PROVE OutcomeOK'
  BY <1>0 DEF OutcomeInv, OutcomeOK
<1>1. ~Misled /\ OutcomeOK /\ <<Main, "lost">> \notin trouble
  <2>1. ~Misled
    BY <1>0, MisledForEver
  <2>2. QED
    BY <2>1 DEF OutcomeInv, OutcomeOK
\* when nothing but the processes that are left changes
<1>2. ASSUME UNCHANGED <<stack, pc, reports, trouble, pipe, wstatus>>,
             \A t \in Tests : code'[t] = code[t] \/ (code[t] = "exiting" /\ pc = "stopped")
      PROVE  OutcomeOK'
  <2>1. \A t \in Tests : IsReported(t) => code'[t] = code[t] /\ (Troubled(t)' <=> Troubled(t))
    <3> SUFFICES ASSUME NEW t \in Tests, IsReported(t) PROVE code[t] # "exiting"
      BY <1>2 DEF Troubled, IsReported
    <3>1. PICK j \in 1..Len(reports) : reports[j].test = t
      BY DEF IsReported
    <3>2. code[t] \in Dead \cup {"none", "returned"}
      BY <1>1, <3>1 DEF OutcomeOK, IsTrue
    <3>3. QED
      BY <3>2 DEF Dead
  <2>2. (\A j \in 1..Len(reports) : IsTrue(reports[j]))'
    BY <1>0, <1>1, <1>2, <2>1, StillTrue DEF OutcomeOK, Troubled, IsReported
  <2>3. CASE pc = "stopped"
    BY <1>0, <1>1, <1>2, <2>1, <2>3, OutcomeStops DEF Troubled, IsReported
  <2>4. CASE pc # "stopped"
    <3>1. /\ Entry' = Entry /\ (InTest' <=> InTest) /\ (AtCode' <=> AtCode) /\ (Full' <=> Full)
      BY <1>2 DEF Entry, Top, InTest, AtFork, AtCode, Full
    <3>2. AtCode \/ pc = "reading" => Entry \in Tests
      BY <1>0 DEF AtFork, AtCode, InTest, TypeInv, MainOK
    <3>3. AtCode \/ pc = "reading" => code'[Entry] = code[Entry]
      BY <1>2, <2>4, <3>2
    <3>4. <<Main, "lost">> \notin trouble' /\ (Fixtures = {} /\ pc' \in {"loop", "setup", "teardown"} => pipe' = <<>>)
      BY <1>1, <1>2 DEF OutcomeOK
    <3>5. \A t \in Tests : Troubled(t)' => IsReported(t)' \/ (InTest' /\ t = Entry')
      BY <1>1, <1>2, <2>4, <3>1 DEF OutcomeOK, Troubled, IsReported
    <3>6. AtCode' /\ code'[Entry'] \in Running =>
            <<Entry', "died">> \notin trouble' /\ (<<Entry', "lost">> \in trouble' => Full')
      BY <1>1, <1>2, <3>1, <3>3 DEF OutcomeOK
    <3>7. (AtCode' /\ code'[Entry'] \notin Running) \/ pc' = "reading" =>
            (Troubled(Entry)' <=> ~HasClosing')
      BY <1>1, <1>2, <3>1, <3>3 DEF OutcomeOK, Troubled, HasClosing
    <3>10. pc' = "test" => wstatus' # "signalled"
      BY <1>1, <1>2 DEF OutcomeOK
    <3>8. pc' = "reading" => /\ code'[Entry'] \in Dead \cup {"none", "returned"}
                             /\ wstatus' = "signalled" => code'[Entry'] = "signalled"
      BY <1>1, <1>2, <3>1, <3>3 DEF OutcomeOK
    <3>9. QED
      BY <2>2, <3>4, <3>5, <3>6, <3>7, <3>8, <3>10 DEF OutcomeOK, Troubled, IsReported, HasClosing
  <2>5. QED
    BY <2>3, <2>4
<1>3. CASE MainStep
  BY <1>1, <1>3, OutcomeMain
<1>4. ASSUME NEW r \in {"pass", "fail"}, FixtureAsserts(r) PROVE OutcomeOK'
  <2>1. /\ pc \in {"setup", "teardown"} /\ Survives /\ Send(Main, r) /\ Fixtures # {}
        /\ UNCHANGED <<pc, reports, code>>
    BY <1>4 DEF FixtureAsserts, main, book, procs
  <2>2. ~InTest /\ ~InTest' /\ pc # "stopped" /\ pc' # "stopped"
    BY <2>1 DEF InTest
  <2>3. ~Full
    BY <1>0, <1>1, <2>1, NotFull
  <2>4. /\ \A t \in Tests : Troubled(t)' <=> Troubled(t)
        /\ <<Main, "lost">> \notin trouble'
    BY <1>1, <2>1, <2>3 DEF Send, Troubled
  <2>5. QED
    BY <1>0, <1>1, <2>1, <2>2, <2>4, OutcomeQuiet DEF Troubled
<1>5. ASSUME NEW t \in Tests,
             \/ CodeStep(t) \/ CodeThrows(t) \/ Alarm(t)
             \/ \E r \in {"pass", "fail", "skipped"} : CodeSends(t, r)
             \/ \E how \in Dead : CodeDies(t, how)
             \/ \E how \in {"exited", "signalled"} : ChildEnds(t, how)
      PROVE  OutcomeOK'
  <2>1. CASE pc # "stopped"
    BY <1>1, <1>5, <2>1, OutcomeOfTest
  <2>2. CASE pc = "stopped"
    <3>1. PICK how \in {"exited", "signalled"} : ChildEnds(t, how)
      BY <1>5, <2>2 DEF CodeStep, CodeAdvances, CodeCompletes, CodePanics, CodeThrows, Alarm,
         CodeSends, CodeDies
    <3>2. /\ UNCHANGED <<stack, pc, reports, trouble, pipe, wstatus>>
          /\ code[t] = "exiting" /\ code' = [code EXCEPT ![t] = how]
      BY <3>1 DEF ChildEnds, main, book, channel
    <3>3. \A u \in Tests : code'[u] = code[u] \/ (code[u] = "exiting" /\ pc = "stopped")
      BY <1>0, <2>2, <3>2 DEF TypeInv, ProcsOK
    <3>4. QED
      BY <1>2, <3>2, <3>3
  <2>3. QED
    BY <2>1, <2>2
<1>6. CASE ForkFails
  <2>1. pc' = "stopped" /\ UNCHANGED <<reports, code, trouble>>
    BY <1>6 DEF ForkFails, book, procs, channel
  <2>2. QED
    BY <1>0, <1>1, <2>1, OutcomeStops DEF Troubled
<1>7. CASE HelperEnds
  BY <1>2, <1>7 DEF HelperEnds, main, book, channel
<1>8. CASE Interrupt
  BY <1>1, <1>8, OutcomeOfInterrupt
<1>9. CASE UNCHANGED vars
  BY <1>2, <1>9 DEF vars, main, book, procs, channel
<1>10. QED
  BY <1>3, <1>4, <1>5, <1>6, <1>7, <1>8, <1>9 DEF Next

LEMMA OutcomeInit ==
  ASSUME NEW subs, NEW own, Premises(subs, own), Init
  PROVE  OutcomeInv(subs, own)
<1>1. OrderInv(subs, own) /\ PipeInv
  BY OrderInit, PipeInit DEF Premises
<1>2. OutcomeOK
  <2>1. Len(reports) = 0 /\ pipe = <<>> /\ trouble = {} /\ pc = "loop"
    BY DEF Init
  <2>2. QED
    BY <2>1 DEF OutcomeOK, Troubled, AtFork, AtCode
<1>3. QED
  BY <1>1, <1>2 DEF OutcomeInv

LEMMA OutcomeTells ==
  ASSUME NEW subs, NEW own, OutcomeInv(subs, own)
  PROVE  OutcomeIsTrue
<1> SUFFICES ASSUME ~Misled, NEW j \in DOMAIN reports
             PROVE  LET t   == reports[j].test
                        bad == {<<t, "died">>, <<t, "lost">>} \cap trouble # {}
                    IN  /\ bad <=> reports[j].how \in {"incomplete", "terminated"}
                        /\ reports[j].how = "terminated" => code[t] = "signalled"
  BY DEF OutcomeIsTrue
<1>1. j \in 1..Len(reports)
  BY DEF OutcomeInv, OrderInv, TypeInv, BookOK
<1>2. IsTrue(reports[j])
  BY <1>1 DEF OutcomeInv, OutcomeOK
<1>3. QED
  BY <1>2 DEF IsTrue, Troubled

(* For any finite tree with each test in it once, with and without fork, if *)
(* no exit handler asserts, no test calls skip_test() and no message of a  *)
(* fixture is dropped without a trace: a test is reported as not completed *)
(* exactly when it died early or lost a message, and as killed by a signal *)
(* only if one killed it, until wait() takes another child for a test      *)
(* (reporter.c:118, posix_runner_platform.c:48).                           *)
THEOREM ReportsAreTrue ==
  ASSUME NEW subs, NEW own, Premises(subs, own)
  PROVE  Spec => []OutcomeIsTrue
<1>1. Init => OutcomeInv(subs, own)
  BY OutcomeInit
<1>2. OutcomeInv(subs, own) /\ [Next]_vars => OutcomeInv(subs, own)'
  BY OutcomeStep
<1>3. OutcomeInv(subs, own) => OutcomeIsTrue
  BY OutcomeTells
<1>4. QED
  BY <1>1, <1>2, <1>3, PTL DEF Spec
-----------------------------------------------------------------------------
(* What success says                                                       *)

\* a result that says "failed" was sent, or lost; who lost one, or died early,
\* has been reported when the run has its exit status
FailedOK ==
  \A p \in Tests \cup {Main} :
    <<p, "failed">> \in trouble =>
      sent["fail"] + sent["exception"] > 0 \/ <<p, "lost">> \in trouble

EarnedOK ==
  /\ FailedOK
  /\ <<Main, "died">> \in trouble => status = "signalled"
  /\ status \in {"success", "failure"} => \A t \in Tests : Troubled(t) => IsReported(t)

\* run_single_test() looks at no exceptions, and so at no test that did not complete
NoneIgnored == Single => ~CatchExceptions /\ ~SigpipeHandled

\* then a single test that throws or dies takes the run with it
QuietOK ==
  Single => /\ sent["exception"] = 0
            /\ \A p \in Tests \cup {Main} : <<p, "lost">> \notin trouble
            /\ \A t \in Tests : <<t, "died">> \in trouble => status = "signalled"

EarnedInv(subs, own) == OutcomeInv(subs, own) /\ SumInv /\ EarnedOK /\ QuietOK

LEMMA CountNone ==
  ASSUME NEW S, NEW R, NEW s \in Seq(S), Count(s, R) = 0, NEW j \in 1..Len(s)
  PROVE  s[j] \notin R
<1> DEFINE hits == {i \in 1..Len(s) : s[i] \in R}
<1>1. IsFiniteSet(hits)
  <2>1. IsFiniteSet(1..Len(s)) /\ hits \subseteq 1..Len(s)
    BY FS_Interval
  <2>2. QED
    BY <2>1, FS_Subset
<1>2. Cardinality(hits) = 0
  BY DEF Count
<1>3. hits = {}
  BY <1>1, <1>2, FS_EmptySet
<1>4. QED
  BY <1>3

\* the run is over: only processes that are left end
LEMMA StaysStopped ==
  ASSUME pc = "stopped", [Next]_vars
  PROVE  UNCHANGED <<main, book, channel>>
<1>1. CASE \E t \in Tests : \E how \in {"exited", "signalled"} : ChildEnds(t, how)
  BY <1>1 DEF ChildEnds
<1>2. CASE UNCHANGED vars
  BY <1>2 DEF vars
<1>3. QED
  BY <1>1, <1>2 DEF Next, MainStep, CodeStep, EnterSubSuite, StartSubSuite, TeardownReturns,
     PassEntry, InLoop, AtTest, StartOwnTests, SkipTest, RunTest, IgnoreCtrlC, WaitForChild,
     ReadResult, FinishTest, EndSuite, FinishSuite, MainPanics, FixtureAsserts, CodeAdvances,
     CodeCompletes, CodePanics, CodeThrows, CodeSends, CodeDies, Alarm, ForkFails, HelperEnds,
     Interrupt

LEMMA FailedSends ==
  ASSUME TypeInv, FailedOK, NEW from, NEW r \in Results, Send(from, r)
  PROVE  FailedOK'
<1>1. sent \in [Results -> Nat] /\ "fail" \in Results /\ "exception" \in Results
  BY DEF TypeInv, ChannelOK, Results
<1>2. CASE Full
  <2>1. sent' = sent /\ trouble \subseteq trouble' /\ <<from, "lost">> \in trouble'
        /\ \A p : <<p, "failed">> \in trouble' => <<p, "failed">> \in trouble \/ p = from
    BY <1>2 DEF Send
  <2>2. QED
    BY <2>1 DEF FailedOK
<1>3. CASE ~Full
  <2>1. sent' = [sent EXCEPT ![r] = @ + 1] /\ trouble \subseteq trouble'
    BY <1>3 DEF Send
  <2>2. /\ sent["fail"] \in Nat /\ sent["exception"] \in Nat
        /\ sent'["fail"] \in Nat /\ sent'["exception"] \in Nat
        /\ sent["fail"] <= sent'["fail"] /\ sent["exception"] <= sent'["exception"]
        /\ r \in {"fail", "exception"} => sent'["fail"] + sent'["exception"] > 0
    BY <1>1, <2>1
  <2>3. CASE r \in {"fail", "exception"}
    BY <2>2, <2>3 DEF FailedOK
  <2>4. CASE r \notin {"fail", "exception"}
    <3>1. \A p : <<p, "failed">> \in trouble' => <<p, "failed">> \in trouble
      BY <1>3, <2>4 DEF Send
    <3>2. QED
      BY <2>1, <2>2, <3>1 DEF FailedOK
  <2>5. QED
    BY <2>3, <2>4
<1>4. QED
  BY <1>2, <1>3

LEMMA FailedKept ==
  ASSUME FailedOK, sent' = sent, trouble \subseteq trouble',
         \A p \in Tests \cup {Main} : <<p, "failed">> \in trouble' => <<p, "failed">> \in trouble
  PROVE  FailedOK'
BY DEF FailedOK

\* only the last suite gives the run an exit status, and only a message of the
\* main process that finds the pipe full makes it panic
LEMMA HowItEnds ==
  ASSUME OnlyRunnerExits, [Next]_vars
  PROVE  /\ status' \in {"success", "failure"} => status' = status \/ FinishSuite
         /\ <<Main, "died">> \in trouble' => <<Main, "died">> \in trouble \/ status' = "signalled"
<1>0. Main \notin Tests
  BY TreeAssumption
<1> DEFINE Goal == /\ status' \in {"success", "failure"} => status' = status \/ FinishSuite
                   /\ <<Main, "died">> \in trouble' => <<Main, "died">> \in trouble \/ status' = "signalled"
<1>1. ASSUME NEW t \in Tests, NEW how \in Dead, Dies(t, how), how = "exited" => Forking PROVE Goal
  <2>1. (status' = status \/ status' = "signalled") /\ trouble' = trouble \cup {<<t, "died">>}
    BY <1>1 DEF Dies, Stop, main
  <2>2. QED
    BY <1>0, <2>1
<1>2. ASSUME NEW from, NEW r, Send(from, r), status' = status PROVE Goal
  BY <1>2 DEF Send
<1>3. ASSUME UNCHANGED trouble, UNCHANGED status \/ status' = "died" \/ FinishSuite PROVE Goal
  BY <1>3
<1>4. CASE MainStep
  <2>1. CASE SkipTest \/ EndSuite
    BY <1>2, <2>1 DEF SkipTest, EndSuite, StartTest, Goto
  <2>2. CASE MainPanics
    BY <2>2 DEF MainPanics, Stop
  <2>3. CASE FinishSuite
    BY <1>3, <2>3 DEF FinishSuite
  <2>4. QED
    BY <1>3, <1>4, <2>1, <2>2, <2>3 DEF MainStep, EnterSubSuite, StartSubSuite, TeardownReturns,
       PassEntry, StartOwnTests, RunTest, StartTest, IgnoreCtrlC, WaitForChild, ReadResult,
       FinishTest, Goto, main, channel
<1>5. ASSUME NEW r \in {"pass", "fail"}, FixtureAsserts(r) PROVE Goal
  BY <1>2, <1>5 DEF FixtureAsserts, main
<1>6. ASSUME NEW t \in Tests, CodePanics(t) \/ Alarm(t) \/ \E how \in Dead : CodeDies(t, how)
      PROVE  Goal
  <2>1. PICK how \in Dead : Dies(t, how) /\ (how = "exited" => Forking)
    BY <1>6 DEF CodePanics, Alarm, CodeDies, Dead, OnlyRunnerExits
  <2>2. QED
    BY <1>1, <2>1
<1>7. ASSUME NEW t \in Tests,
             CodeThrows(t) \/ CodeCompletes(t) \/ \E r \in {"pass", "fail", "skipped"} : CodeSends(t, r)
      PROVE  Goal
  BY <1>2, <1>7 DEF CodeThrows, CodeCompletes, CodeSends, Goto, main
<1>8. ASSUME NEW t \in Tests,
             CodeAdvances(t) \/ \E how \in {"exited", "signalled"} : ChildEnds(t, how)
      PROVE  Goal
  BY <1>3, <1>8 DEF CodeAdvances, ChildEnds, main, channel
<1>9. CASE ForkFails \/ HelperEnds \/ UNCHANGED vars
  BY <1>3, <1>9 DEF ForkFails, HelperEnds, main, channel, vars
<1>10. CASE Interrupt
  <2>1. status' = status \/ status' = "signalled"
    BY <1>10 DEF Interrupt, Stop, main
  <2>2. <<Main, "died">> \in trouble' => <<Main, "died">> \in trouble
    BY <1>0, <1>10 DEF Interrupt
  <2>3. QED
    BY <2>1, <2>2
<1>11. QED
  BY <1>4, <1>5, <1>6, <1>7, <1>8, <1>9, <1>10 DEF Next, CodeStep

LEMMA FailedStep == ASSUME TypeInv, FailedOK, [Next]_vars PROVE FailedOK'
<1>1. ASSUME NEW from, NEW r \in Results, Send(from, r) PROVE FailedOK'
  BY <1>1, FailedSends
<1>2. ASSUME UNCHANGED <<sent, trouble>> PROVE FailedOK'
  BY <1>2 DEF FailedOK
<1>3. ASSUME sent' = sent, NEW S \in SUBSET (Tests \cup {Main}),
             trouble' = trouble \cup {<<p, "died">> : p \in S}
      PROVE  FailedOK'
  BY <1>3, FailedKept
<1>4. ASSUME NEW t \in Tests, NEW how \in Dead, Dies(t, how) PROVE FailedOK'
  <2>1. sent' = sent /\ trouble' = trouble \cup {<<p, "died">> : p \in {t}}
    BY <1>4 DEF Dies
  <2>2. QED
    BY <1>3, <2>1
<1>5. CASE MainStep
  <2>1. CASE SkipTest \/ EndSuite
    BY <1>1, <2>1 DEF SkipTest, EndSuite, Results
  <2>2. CASE MainPanics
    <3>1. sent' = sent /\ trouble' = trouble \cup {<<p, "died">> : p \in {Main}}
      BY <2>2 DEF MainPanics
    <3>2. QED
      BY <1>3, <3>1
  <2>3. QED
    BY <1>2, <1>5, <2>1, <2>2 DEF MainStep, EnterSubSuite, StartSubSuite, TeardownReturns,
       PassEntry, StartOwnTests, RunTest, IgnoreCtrlC, WaitForChild, ReadResult, FinishTest,
       FinishSuite, channel
<1>6. ASSUME NEW r \in {"pass", "fail"}, FixtureAsserts(r) PROVE FailedOK'
  BY <1>1, <1>6 DEF FixtureAsserts, Results
<1>7. ASSUME NEW t \in Tests, CodePanics(t) \/ Alarm(t) \/ \E how \in Dead : CodeDies(t, how)
      PROVE  FailedOK'
  <2>1. (\E how \in Dead : Dies(t, how)) \/ UNCHANGED channel
    BY <1>7 DEF CodePanics, Alarm, CodeDies, Dead
  <2>2. QED
    BY <1>2, <1>4, <2>1 DEF channel
<1>8. ASSUME NEW t \in Tests,
             CodeThrows(t) \/ CodeCompletes(t) \/ \E r \in {"pass", "fail", "skipped"} : CodeSends(t, r)
      PROVE  FailedOK'
  BY <1>1, <1>8 DEF CodeThrows, CodeCompletes, CodeSends, Results
<1>9. ASSUME NEW t \in Tests,
             CodeAdvances(t) \/ \E how \in {"exited", "signalled"} : ChildEnds(t, how)
      PROVE  FailedOK'
  BY <1>2, <1>9 DEF CodeAdvances, ChildEnds, channel
<1>10. CASE ForkFails \/ HelperEnds \/ UNCHANGED vars
  BY <1>2, <1>10 DEF ForkFails, HelperEnds, channel, vars
<1>11. CASE Interrupt
  <2>1. /\ sent' = sent
        /\ \E S \in SUBSET Tests : trouble' = trouble \cup {<<p, "died">> : p \in S}
    BY <1>11 DEF Interrupt
  <2>2. QED
    BY <1>3, <2>1
<1>12. QED
  BY <1>5, <1>6, <1>7, <1>8, <1>9, <1>10, <1>11 DEF Next, CodeStep

LEMMA QuietStep ==
  ASSUME TypeInv, OnlyRunnerExits, NoneIgnored, pc # "stopped" => status = "running",
         QuietOK, [Next]_vars
  PROVE  QuietOK'
<1> SUFFICES ASSUME Single PROVE QuietOK'
  BY DEF QuietOK
<1>0. /\ ~Forking /\ ~CatchExceptions /\ ~SigpipeHandled /\ Main \notin Tests
      /\ sent \in [Results -> Nat] /\ "exception" \in Results
  BY TreeAssumption DEF Forking, NoneIgnored, TypeInv, ChannelOK, Results
<1>1. CASE pc = "stopped"
  BY <1>1, StaysStopped DEF QuietOK, main, channel
<1> SUFFICES ASSUME pc # "stopped" PROVE QuietOK'
  BY <1>1
<1>2. \A t \in Tests : <<t, "died">> \notin trouble
  BY DEF QuietOK
<1>3. ASSUME NEW from, NEW r \in Results \ {"exception"}, Survives, Send(from, r) PROVE QuietOK'
  <2>1. /\ sent' = [sent EXCEPT ![r] = @ + 1]
        /\ \A p : /\ <<p, "died">> \in trouble' => <<p, "died">> \in trouble
                  /\ <<p, "lost">> \in trouble' => <<p, "lost">> \in trouble
    BY <1>0, <1>3 DEF Send, Survives
  <2>2. QED
    BY <1>0, <1>2, <2>1 DEF QuietOK
<1>4. ASSUME UNCHANGED <<sent, trouble>> PROVE QuietOK'
  BY <1>2, <1>4 DEF QuietOK
<1>5. ASSUME NEW t \in Tests, NEW how \in Dead, Dies(t, how), how # "exited" PROVE QuietOK'
  <2>1. sent' = sent /\ status' = "signalled" /\ trouble' = trouble \cup {<<t, "died">>}
    BY <1>0, <1>5 DEF Dies, Stop
  <2>2. QED
    BY <2>1 DEF QuietOK
<1>6. CASE MainStep
  <2>1. CASE SkipTest \/ EndSuite
    BY <1>3, <2>1 DEF SkipTest, EndSuite, Results
  <2>2. CASE MainPanics
    BY <1>0, <1>2, <2>2 DEF MainPanics, QuietOK
  <2>3. QED
    BY <1>4, <1>6, <2>1, <2>2 DEF MainStep, EnterSubSuite, StartSubSuite, TeardownReturns,
       PassEntry, StartOwnTests, RunTest, IgnoreCtrlC, WaitForChild, ReadResult, FinishTest,
       FinishSuite, channel
<1>7. ASSUME NEW r \in {"pass", "fail"}, FixtureAsserts(r) PROVE QuietOK'
  BY <1>3, <1>7 DEF FixtureAsserts, Results
<1>8. ASSUME NEW t \in Tests, CodePanics(t) \/ Alarm(t) \/ \E how \in Dead : CodeDies(t, how)
      PROVE  QuietOK'
  <2>1. \E how \in Dead : Dies(t, how) /\ how # "exited"
    BY <1>0, <1>8 DEF CodePanics, Alarm, CodeDies, Dead, OnlyRunnerExits
  <2>2. QED
    BY <1>5, <2>1
<1>9. ASSUME NEW t \in Tests,
             CodeThrows(t) \/ CodeCompletes(t) \/ \E r \in {"pass", "fail", "skipped"} : CodeSends(t, r)
      PROVE  QuietOK'
  BY <1>0, <1>3, <1>9 DEF CodeThrows, CodeCompletes, CodeSends, Results
<1>10. ASSUME NEW t \in Tests,
              CodeAdvances(t) \/ \E how \in {"exited", "signalled"} : ChildEnds(t, how)
       PROVE  QuietOK'
  BY <1>4, <1>10 DEF CodeAdvances, ChildEnds, channel
<1>11. CASE ForkFails \/ HelperEnds \/ UNCHANGED vars
  BY <1>4, <1>11 DEF ForkFails, HelperEnds, channel, vars
<1>12. CASE Interrupt
  <2>1. UNCHANGED <<sent, trouble>>
    BY <1>0, <1>12 DEF Interrupt
  <2>2. QED
    BY <1>4, <2>1
<1>13. QED
  BY <1>6, <1>7, <1>8, <1>9, <1>10, <1>11, <1>12 DEF Next, CodeStep

LEMMA EarnedStep ==
  ASSUME NEW subs, NEW own, Premises(subs, own), NoneIgnored, ~Helper,
         EarnedInv(subs, own), [Next]_vars
  PROVE  EarnedInv(subs, own)'
<1>1. /\ OutcomeInv(subs, own)' /\ SumInv' /\ FailedOK' /\ OnlyRunnerExits /\ ~Misled
      /\ OutcomeOK /\ OrderOK(subs, own)
  <2>1. /\ OutcomeInv(subs, own) /\ SumInv /\ FailedOK /\ TypeInv /\ OrderOK(subs, own)
        /\ Undisturbed /\ OnlyRunnerExits /\ OutcomeOK
    BY DEF EarnedInv, EarnedOK, OutcomeInv, OrderInv, Premises
  <2>2. ~Misled
    BY <2>1 DEF SumInv, SumOK, Misled
  <2>3. QED
    BY <2>1, <2>2, OutcomeStep, SumStep, FailedStep
<1>2. <<Main, "died">> \in trouble' => status' = "signalled"
  <2>1. CASE <<Main, "died">> \in trouble
    <3>1. status = "signalled" /\ pc = "stopped"
      BY <1>1, <2>1 DEF EarnedInv, EarnedOK, OrderOK
    <3>2. QED
      BY <3>1, StaysStopped DEF main
  <2>2. CASE <<Main, "died">> \notin trouble
    BY <1>1, <2>2, HowItEnds
  <2>3. QED
    BY <2>1, <2>2
<1>3. ASSUME status' \in {"success", "failure"} PROVE \A t \in Tests : Troubled(t)' => IsReported(t)'
  <2>1. CASE FinishSuite
    <3>1. pc = "reading_suite" /\ UNCHANGED <<reports, trouble>>
      BY <2>1 DEF FinishSuite
    <3>2. \A t \in Tests : Troubled(t) => IsReported(t)
      BY <1>1, <3>1 DEF OutcomeOK, InTest
    <3>3. QED
      BY <3>1, <3>2 DEF Troubled, IsReported
  <2>2. CASE ~FinishSuite
    <3>1. status' = status
      BY <1>1, <1>3, <2>2, HowItEnds
    <3>2. pc = "stopped" /\ \A t \in Tests : Troubled(t) => IsReported(t)
      BY <1>1, <1>3, <3>1 DEF EarnedInv, EarnedOK, OrderOK
    <3>3. UNCHANGED <<reports, trouble>>
      BY <3>2, StaysStopped DEF book, channel
    <3>4. QED
      BY <3>2, <3>3 DEF Troubled, IsReported
  <2>3. QED
    BY <2>1, <2>2
<1>4. EarnedOK'
  BY <1>1, <1>2, <1>3 DEF EarnedOK
<1>5. QuietOK'
  <2>1. TypeInv /\ QuietOK /\ (pc # "stopped" => status = "running")
    BY <1>1 DEF EarnedInv, OutcomeInv, OrderInv, OrderOK
  <2>2. QED
    BY <1>1, <2>1, QuietStep
<1>6. QED
  BY <1>1, <1>4, <1>5 DEF EarnedInv

LEMMA EarnedInit ==
  ASSUME NEW subs, NEW own, Premises(subs, own), Init
  PROVE  EarnedInv(subs, own)
<1>1. OutcomeInv(subs, own) /\ SumInv
  BY OutcomeInit, PipeInit, ConservationInit DEF Init, SumInv, SumOK
<1>2. EarnedOK
  BY DEF Init, EarnedOK, FailedOK
<1>3. QuietOK
  BY DEF Init, QuietOK, Results
<1>4. QED
  BY <1>1, <1>2, <1>3 DEF EarnedInv

\* who was in trouble has been reported as not completed
LEMMA NoTrouble ==
  ASSUME NEW subs, NEW own, Premises(subs, own), ~Helper, EarnedInv(subs, own),
         status = "success"
  PROVE  trouble = {}
<1>1. /\ sent["fail"] = 0 /\ (Single \/ sent["exception"] + Incompletes = 0)
      /\ sent["exception"] \in Nat /\ Incompletes \in Nat
      /\ reports \in Seq(Report) /\ ~Misled
      /\ trouble \subseteq (Tests \cup {Main}) \X {"failed", "died", "lost"}
  <2>1. StatusIsTheSum /\ TypeInv /\ helper = "none"
    <3>1. SumInv /\ Undisturbed /\ OnlyRunnerExits /\ TypeInv
      BY DEF EarnedInv, Premises, OutcomeInv, OrderInv
    <3>2. StatusIsTheSum
      BY <3>1, SumsTell
    <3>3. QED
      BY <3>1, <3>2 DEF SumInv, SumOK
  <2>2. /\ sent \in [Results -> Nat] /\ reports \in Seq(Report)
        /\ trouble \subseteq (Tests \cup {Main}) \X {"failed", "died", "lost"}
    BY <2>1 DEF TypeInv, ChannelOK, BookOK
  <2>3. Incompletes \in Nat /\ sent["exception"] \in Nat
    BY <2>2, CountType DEF Incompletes, Results
  <2>4. QED
    BY <2>1, <2>2, <2>3 DEF StatusIsTheSum, Misled
<1>2. OutcomeOK /\ EarnedOK /\ QuietOK
  BY DEF EarnedInv, OutcomeInv
<1>7. ASSUME NEW t \in Tests, Troubled(t), Single PROVE FALSE
  BY <1>2, <1>7 DEF QuietOK, Troubled
<1>3. ASSUME NEW t \in Tests, Troubled(t) PROVE FALSE
  <2>1. PICK j \in 1..Len(reports) : reports[j].test = t
    BY <1>2, <1>3 DEF EarnedOK, IsReported
  <2>2. PICK r \in Report : r = reports[j]
    BY <1>1, <2>1
  <2>3. r.test = t /\ IsTrue(r)
    BY <1>1, <1>2, <2>1, <2>2 DEF OutcomeOK
  <2>4. r \in [test : Tests, how : {"incomplete", "terminated"}]
    BY <1>3, <2>2, <2>3 DEF IsTrue, Report
  <2>5. Incompletes = 0
    BY <1>1, <1>3, <1>7
  <2>6. reports[j] \notin [test : Tests, how : {"incomplete", "terminated"}]
    BY <1>1, <2>1, <2>5, CountNone DEF Incompletes
  <2>7. QED
    BY <2>2, <2>4, <2>6
<1>4. ASSUME NEW p \in Tests \cup {Main}, <<p, "died">> \in trouble \/ <<p, "lost">> \in trouble
      PROVE  FALSE
  <2>1. CASE p \in Tests
    BY <1>3, <1>4, <2>1 DEF Troubled
  <2>2. CASE p = Main
    BY <1>1, <1>2, <1>4, <2>2 DEF OutcomeOK, EarnedOK
  <2>3. QED
    BY <2>1, <2>2
<1>5. ASSUME NEW p \in Tests \cup {Main}, <<p, "failed">> \in trouble PROVE FALSE
  <2>1. ~(sent["fail"] + sent["exception"] > 0)
    BY <1>1, <1>2 DEF QuietOK
  <2>2. <<p, "lost">> \in trouble
    BY <1>2, <1>5, <2>1 DEF EarnedOK, FailedOK
  <2>3. QED
    BY <1>4, <2>2
<1>6. ASSUME NEW x \in trouble PROVE FALSE
  <2>1. PICK p \in Tests \cup {Main}, k \in {"failed", "died", "lost"} : x = <<p, k>>
    BY <1>1
  <2>2. QED
    BY <1>4, <1>5, <2>1
<1>8. QED
  BY <1>6

\* every test, or every one that run_single_test() is to run, is in the tree
EveryTest ==
  \A t \in (IF Single THEN Selected ELSE Tests) : \E j \in 1..Len(Order) : Order[j] = t

LEMMA EarnedTells ==
  ASSUME NEW subs, NEW own, Premises(subs, own), NoneIgnored, EveryTest, ~Helper,
         EarnedInv(subs, own)
  PROVE  SuccessIsEarned
<1> SUFFICES ASSUME status = "success" PROVE SuccessIsEarned
  BY DEF SuccessIsEarned
<1>1. trouble = {}
  BY NoTrouble
<1>2. /\ reported = Order /\ reports \in Seq(Report)
  BY DEF EarnedInv, OutcomeInv, OrderInv, OrderOK, TypeInv, BookOK
<1>3. ASSUME NEW t \in (IF Single THEN Selected ELSE Tests)
      PROVE  \E j \in DOMAIN reports : reports[j].test = t
  <2>1. PICK j \in 1..Len(Order) : Order[j] = t
    BY DEF EveryTest
  <2>2. Len(reports) \in Nat /\ DOMAIN reports = 1..Len(reports)
        /\ reported \in Seq(Tests) /\ Len(reported) = Len(reports)
    BY <1>2, ReportedType DEF EarnedInv, OutcomeInv, OrderInv, TypeInv
  <2>3. j \in DOMAIN reports /\ reports[j].test = t
    BY <1>2, <2>1, <2>2 DEF reported
  <2>4. QED
    BY <2>3
<1>4. QED
  BY <1>1, <1>2, <1>3 DEF SuccessIsEarned

(* Under the same conditions, if the runner has no child but its tests and *)
(* run_single_test() has no exception to ignore, an exit status of success *)
(* is earned: nobody failed, threw, died early or lost a message, and all  *)
(* the tests asked for were reported (runner.c:44, 58).                    *)
THEOREM SuccessNeedsEveryTest ==
  ASSUME NEW subs, NEW own, Premises(subs, own), NoneIgnored, EveryTest, ~Helper
  PROVE  Spec => []SuccessIsEarned
<1>1. Init => EarnedInv(subs, own)
  BY EarnedInit
<1>2. EarnedInv(subs, own) /\ [Next]_vars => EarnedInv(subs, own)'
  BY EarnedStep
<1>3. EarnedInv(subs, own) => SuccessIsEarned
  BY EarnedTells
<1>4. QED
  BY <1>1, <1>2, <1>3, PTL DEF Spec
=============================================================================
