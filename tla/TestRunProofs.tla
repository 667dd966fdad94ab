---------------------------- MODULE TestRunProofs ----------------------------
(***************************************************************************)
(* Theorems about every run: any suite tree, any mode, any pipe capacity.  *)
(* Those about what is read from the pipe, and so about the exit status,   *)
(* ask that no exit handler asserts and that no test calls skip_test().    *)
(***************************************************************************)
EXTENDS TestRun, FiniteSetTheorems, SequenceTheorems, TLAPS

Message == [result : Results, from : Tests \cup {Main}]
Report  == [test : Tests, how : {"skipped", "completed", "incomplete", "terminated"}]
FrameSet == [suite : Suites, loop : {"subs", "tests"}, i : Nat \ {0}]

-----------------------------------------------------------------------------
(* Sequences: what a step of the walk or of the pipe does to them          *)

LEMMA CountType ==
  ASSUME NEW S, NEW s \in Seq(S), NEW R
  PROVE  /\ Count(s, R) \in Nat
         /\ IsFiniteSet({j \in 1..Len(s) : s[j] \in R})
<1>1. IsFiniteSet(1..Len(s))
  BY FS_Interval
<1>2. {j \in 1..Len(s) : s[j] \in R} \in SUBSET (1..Len(s))
  OBVIOUS
<1>3. IsFiniteSet({j \in 1..Len(s) : s[j] \in R})
  BY <1>1, <1>2, FS_Subset
<1>4. QED
  BY <1>3, FS_CardinalityType DEF Count

LEMMA CountEmpty == ASSUME NEW R PROVE Count(<<>>, R) = 0
<1>1. {j \in 1..Len(<<>>) : <<>>[j] \in R} = {}
  OBVIOUS
<1>2. QED
  BY <1>1, FS_EmptySet DEF Count

LEMMA CountAppend ==
  ASSUME NEW S, NEW s \in Seq(S), NEW e \in S, NEW R
  PROVE  Count(Append(s, e), R) = Count(s, R) + (IF e \in R THEN 1 ELSE 0)
<1> DEFINE old == {j \in 1..Len(s) : s[j] \in R}
           new == {j \in 1..Len(Append(s, e)) : Append(s, e)[j] \in R}
<1>1. IsFiniteSet(old) /\ Count(s, R) \in Nat
  BY CountType
<1>2. /\ Len(Append(s, e)) = Len(s) + 1 /\ Len(s) \in Nat
      /\ \A j \in 1..Len(s) : Append(s, e)[j] = s[j]
      /\ Append(s, e)[Len(s) + 1] = e
  OBVIOUS
<1>3. ASSUME e \in R PROVE Count(Append(s, e), R) = Count(s, R) + 1
  <2>1. new = old \cup {Len(s) + 1}
    BY <1>2, <1>3
  <2>2. Len(s) + 1 \notin old
    BY <1>2
  <2> HIDE DEF new, old
  <2>3. Cardinality(new) = Cardinality(old) + 1
    BY <1>1, <2>1, <2>2, FS_AddElement
  <2>4. QED
    BY <1>3, <2>3 DEF Count, new, old
<1>4. ASSUME e \notin R PROVE Count(Append(s, e), R) = Count(s, R)
  <2>1. new = old
    BY <1>2, <1>4
  <2>2. QED
    BY <1>1, <1>4, <2>1 DEF Count
<1>5. QED
  BY <1>1, <1>3, <1>4

LEMMA CountTail ==
  ASSUME NEW S, NEW s \in Seq(S), s # <<>>, NEW R
  PROVE  Count(s, R) = Count(Tail(s), R) + (IF Head(s) \in R THEN 1 ELSE 0)
<1> DEFINE old  == {j \in 1..Len(s) : s[j] \in R}
           rest == {j \in old : j # 1}
           new  == {j \in 1..Len(Tail(s)) : Tail(s)[j] \in R}
<1>1. /\ Len(s) \in Nat /\ Len(s) > 0
      /\ Len(Tail(s)) = Len(s) - 1 /\ Tail(s) \in Seq(S)
      /\ \A j \in 1..(Len(s) - 1) : Tail(s)[j] = s[j + 1]
      /\ Head(s) = s[1]
  OBVIOUS
<1>2. IsFiniteSet(new) /\ Count(Tail(s), R) \in Nat
  BY <1>1, CountType
<1>3. ExistsBijection(new, rest)
  <2> DEFINE f == [j \in new |-> j + 1]
  <2>1. f \in [new -> rest]
    BY <1>1
  <2>2. \A a, b \in new : f[a] = f[b] => a = b
    BY <1>1
  <2>3. \A b \in rest : \E a \in new : f[a] = b
    <3> TAKE b \in rest
    <3>1. b - 1 \in new
      BY <1>1
    <3>2. f[b - 1] = b
      BY <1>1, <3>1
    <3>3. QED
      BY <3>1, <3>2
  <2> HIDE DEF f
  <2>4. f \in Bijection(new, rest)
    BY <2>1, <2>2, <2>3 DEF Bijection, Injection, Surjection, IsInjective
  <2>5. QED
    BY <2>4 DEF ExistsBijection
<1>4. IsFiniteSet(rest) /\ Cardinality(rest) = Cardinality(new)
  <2> HIDE DEF new, rest
  <2> QED BY <1>2, <1>3, FS_Bijection
<1>5. ASSUME Head(s) \in R PROVE Count(s, R) = Count(Tail(s), R) + 1
  <2>1. old = rest \cup {1} /\ 1 \notin rest
    BY <1>1, <1>5
  <2> HIDE DEF old, rest, new
  <2>2. Cardinality(old) = Cardinality(rest) + 1
    BY <1>4, <2>1, FS_AddElement
  <2>3. QED
    BY <1>4, <1>5, <2>2 DEF Count, old, new
<1>6. ASSUME Head(s) \notin R PROVE Count(s, R) = Count(Tail(s), R)
  <2>1. old = rest
    BY <1>1, <1>6
  <2> HIDE DEF rest
  <2>2. QED
    BY <1>2, <1>4, <1>6, <2>1 DEF Count
<1>7. QED
  BY <1>2, <1>5, <1>6

-----------------------------------------------------------------------------
(* Type correctness                                                        *)

\* the control state of the walk, with what each place in it relies on
MainOK ==
  /\ stack \in Seq(FrameSet)
  /\ pc \in {"loop", "setup", "teardown", "test", "forked", "waiting",
             "reading", "reading_suite", "stopped"}
  /\ status \in {"running", "success", "failure", "signalled", "died"}
  /\ trail \in Seq(Suites \cup Tests)
  /\ pc # "stopped" => stack # <<>>
  /\ \A d \in 1..(Len(stack) - 1) : stack[d].loop = "subs"
  /\ pc = "setup" => Entry \in Suites
  /\ pc \in {"setup", "teardown"} => Top.loop = "subs"
  /\ InTest => Entry \in Tests
  /\ InTest \/ pc = "reading_suite" => Top.loop = "tests"

BookOK ==
  /\ counters \in [Kinds -> Nat]
  /\ total \in [Kinds -> Nat]
  /\ reports \in Seq(Report)

ProcsOK ==
  /\ code \in [Tests -> Phases]
  /\ zombies \subseteq (Tests \cup {Main}) \X Dead
  /\ wstatus \in Dead
  /\ helper \in {"none", "running", "ended"}
  /\ interrupts \in Nat

ChannelOK ==
  /\ pipe \in Seq(Message)
  /\ sent \in [Results -> Nat]
  /\ trouble \subseteq (Tests \cup {Main}) \X {"failed", "died", "lost"}

\* without fork, test code runs only as a call from the walk
InProcessOK ==
  ~Forking /\ pc # "stopped" =>
    \A t \in Tests : code[t] \in Running => pc = "test" /\ t = Entry

TypeInv == MainOK /\ BookOK /\ ProcsOK /\ ChannelOK /\ InProcessOK

LEMMA TypeInvIsType == TypeInv => TypeOK
BY DEF TypeInv, TypeOK, MainOK, BookOK, ProcsOK, ChannelOK, FrameSet, Message, Report

LEMMA TopType ==
  ASSUME MainOK, stack # <<>>
  PROVE  /\ Len(stack) \in Nat \ {0} /\ Len(stack) \in 1..Len(stack)
         /\ Top \in FrameSet
         /\ HasEntry => Entry \in Suites \cup Tests
<1>1. Len(stack) \in Nat \ {0}
  BY EmptySeq DEF MainOK
<1>2. Top \in FrameSet
  BY <1>1, ElementOfSeq DEF MainOK, Top
<1>3. ASSUME HasEntry PROVE Entry \in Suites \cup Tests
  <2>1. Entries[Top.suite] \in Seq(Suites \cup Tests)
    BY <1>2, TreeAssumption DEF FrameSet
  <2>2. Top.i \in 1..Len(Entries[Top.suite])
    BY <1>2, <1>3, <2>1, LenProperties DEF FrameSet, HasEntry
  <2>3. QED
    BY <2>1, <2>2, ElementOfSeq DEF Entry
<1>4. QED
  BY <1>1, <1>2, <1>3

LEMMA NextEntryType ==
  ASSUME MainOK, stack # <<>>
  PROVE  /\ NextEntry \in Seq(FrameSet)
         /\ Len(NextEntry) = Len(stack)
         /\ \A d \in 1..(Len(stack) - 1) : NextEntry[d] = stack[d]
         /\ NextEntry[Len(stack)].loop = Top.loop
         /\ NextEntry # <<>>
<1> DEFINE new == [Top EXCEPT !.i = @ + 1]
<1>1. Len(stack) \in 1..Len(stack) /\ Top \in FrameSet /\ Len(stack) \in Nat \ {0}
  BY TopType
<1>2. new \in FrameSet /\ new.loop = Top.loop
  BY <1>1 DEF FrameSet
<1>3. NextEntry = [stack EXCEPT ![Len(stack)] = new]
  BY <1>1 DEF NextEntry, Top
<1> HIDE DEF new
<1>4. stack \in Seq(FrameSet)
  BY DEF MainOK
<1>5. QED
  BY <1>1, <1>2, <1>3, <1>4, ExceptSeq

LEMMA DropLastType ==
  ASSUME NEW S, NEW s \in Seq(S), s # <<>>
  PROVE  /\ DropLast(s) \in Seq(S)
         /\ Len(DropLast(s)) = Len(s) - 1
         /\ \A d \in 1..(Len(s) - 1) : DropLast(s)[d] = s[d]
<1>1. Len(s) \in Nat \ {0} /\ \A d \in 1..(Len(s) - 1) : s[d] \in S
  BY EmptySeq, ElementOfSeq
<1> DEFINE n == Len(s) - 1
<1>2. n \in Nat /\ n \in Int /\ \A d \in 1..n : s[d] \in S
  BY <1>1
<1> HIDE DEF n
<1>3. /\ SubSeq(s, 1, n) \in Seq(S)
      /\ Len(SubSeq(s, 1, n)) = IF 1 <= n THEN n - 1 + 1 ELSE 0
      /\ \A d \in 1..(n - 1 + 1) : SubSeq(s, 1, n)[d] = s[1 + d - 1]
  BY <1>2, SubSeqProperties
<1>4. Len(SubSeq(s, 1, n)) = n
  BY <1>2, <1>3
<1>5. \A d \in 1..n : SubSeq(s, 1, n)[d] = s[d]
  BY <1>2, <1>3
<1>6. QED
  BY <1>3, <1>4, <1>5 DEF DropLast, n

LEMMA SendType ==
  ASSUME ChannelOK, NEW from \in Tests \cup {Main}, NEW r \in Results, Send(from, r)
  PROVE  ChannelOK'
<1>1. [result |-> r, from |-> from] \in Message
  BY DEF Message
<1>2. pipe' \in Seq(Message)
  BY <1>1, AppendProperties DEF ChannelOK, Send
<1>3. QED
  BY <1>2 DEF ChannelOK, Send, Results

LEMMA Untouched ==
  /\ MainOK /\ UNCHANGED main => MainOK'
  /\ BookOK /\ UNCHANGED book => BookOK'
  /\ ProcsOK /\ UNCHANGED procs => ProcsOK'
  /\ ChannelOK /\ UNCHANGED channel => ChannelOK'
<1>1. MainOK /\ UNCHANGED main => MainOK'
  BY DEF MainOK, main, Top, Entry, InTest
<1>2. BookOK /\ UNCHANGED book => BookOK'
  BY DEF BookOK, book
<1>3. ProcsOK /\ UNCHANGED procs => ProcsOK'
  BY DEF ProcsOK, procs
<1>4. ChannelOK /\ UNCHANGED channel => ChannelOK'
  BY DEF ChannelOK, channel
<1>5. QED
  BY <1>1, <1>2, <1>3, <1>4

LEMMA StopType ==
  ASSUME MainOK, NEW s \in {"success", "failure", "signalled", "died"}, Stop(s)
  PROVE  MainOK'
BY DEF MainOK, Stop, Top, Entry, InTest

LEMMA NextEntryMain ==
  ASSUME MainOK, stack # <<>>, stack' = NextEntry, pc' = "loop",
         trail' \in Seq(Suites \cup Tests), UNCHANGED status
  PROVE  MainOK'
<1>1. /\ NextEntry \in Seq(FrameSet) /\ Len(NextEntry) = Len(stack) /\ NextEntry # <<>>
      /\ \A d \in 1..(Len(stack) - 1) : NextEntry[d] = stack[d]
  BY NextEntryType
<1>2. QED
  BY <1>1 DEF MainOK, InTest

\* the steps of test code
LEMMA CodeStepType ==
  ASSUME TypeInv, NEW t \in Tests,
         \/ CodeStep(t) \/ CodeThrows(t) \/ Alarm(t)
         \/ \E r \in {"pass", "fail", "skipped"} : CodeSends(t, r)
         \/ \E how \in Dead : CodeDies(t, how)
         \/ \E how \in {"exited", "signalled"} : ChildEnds(t, how)
  PROVE  TypeInv'
<1> USE DEF TypeInv
<1> DEFINE NoneStarts == Forking \/ (\A u \in Tests : code'[u] \in Running => code[u] \in Running)
<1>0. ASSUME UNCHANGED main, NoneStarts PROVE MainOK' /\ InProcessOK'
  <2>1. MainOK'
    BY <1>0, Untouched
  <2>2. InProcessOK'
    BY <1>0 DEF InProcessOK, main, Entry, Top
  <2>3. QED
    BY <2>1, <2>2
<1>1. ASSUME NEW how \in Dead, Dies(t, how) PROVE TypeInv'
  <2>1. MainOK' /\ InProcessOK'
    <3>1. CASE Forking
      BY <1>0, <1>1, <3>1 DEF Dies
    <3>2. CASE ~Forking
      BY <1>1, <3>2, StopType DEF Dies, Stop, InProcessOK
    <3>3. QED
      BY <3>1, <3>2
  <2>2. BookOK'
    BY <1>1, Untouched DEF Dies
  <2>3. ProcsOK'
    BY <1>1 DEF Dies, ProcsOK, Phases, Dead
  <2>4. ChannelOK'
    BY <1>1 DEF Dies, ChannelOK
  <2>5. QED
    BY <2>1, <2>2, <2>3, <2>4
<1>2. CASE CodeAdvances(t)
  <2>1. ProcsOK' /\ NoneStarts
    BY <1>2 DEF CodeAdvances, ProcsOK, NextPhase, Running, Phases, Dead
  <2>2. QED
    BY <1>0, <1>2, <2>1, Untouched DEF CodeAdvances
<1>3. CASE CodeCompletes(t)
  <2>1. ProcsOK' /\ NoneStarts /\ code'[t] \notin Running
    BY <1>3 DEF CodeCompletes, ProcsOK, Running, Phases, Dead
  <2>2. MainOK' /\ InProcessOK'
    <3>1. CASE Forking
      BY <1>0, <1>3, <2>1, <3>1 DEF CodeCompletes
    <3>2. CASE ~Forking
      <4>1. pc = "test" /\ \A u \in Tests : code[u] \in Running => u = t
        BY <1>3, <3>2 DEF CodeCompletes, InProcessOK, Running
      <4>2. MainOK'
        BY <1>3, <3>2, <4>1 DEF CodeCompletes, Goto, MainOK, InTest, Top, Entry
      <4>3. InProcessOK'
        BY <1>3, <2>1, <3>2, <4>1 DEF CodeCompletes, Goto, InProcessOK
      <4>4. QED
        BY <4>2, <4>3
    <3>3. QED
      BY <3>1, <3>2
  <2>3. ChannelOK'
    BY <1>3, SendType DEF CodeCompletes, Results
  <2>4. QED
    BY <1>3, <2>1, <2>2, <2>3, Untouched DEF CodeCompletes
<1>4. CASE CodePanics(t)
  BY <1>1, <1>4 DEF CodePanics, Dead
<1>5. CASE CodeThrows(t)
  <2>1. ProcsOK' /\ NoneStarts
    BY <1>5 DEF CodeThrows, ProcsOK, NextPhase, Running, Phases, Dead
  <2>2. ChannelOK'
    BY <1>5, SendType DEF CodeThrows, Results
  <2>3. QED
    BY <1>0, <1>5, <2>1, <2>2, Untouched DEF CodeThrows
<1>6. CASE Alarm(t)
  <2>1. CASE Forking
    BY <1>1, <1>6, <2>1 DEF Alarm, Dead
  <2>2. CASE ~Forking
    BY <1>6, <2>2, StopType, Untouched DEF Alarm, Stop, InProcessOK
  <2>3. QED
    BY <2>1, <2>2
<1>7. ASSUME NEW r \in {"pass", "fail", "skipped"}, CodeSends(t, r) PROVE TypeInv'
  <2>1. ChannelOK'
    BY <1>7, SendType DEF CodeSends, Results
  <2>2. NoneStarts
    BY <1>7 DEF CodeSends, procs
  <2>3. QED
    BY <1>0, <1>7, <2>1, <2>2, Untouched DEF CodeSends
<1>8. ASSUME NEW how \in Dead, CodeDies(t, how) PROVE TypeInv'
  BY <1>1, <1>8 DEF CodeDies
<1>9. ASSUME NEW how \in {"exited", "signalled"}, ChildEnds(t, how) PROVE TypeInv'
  <2>1. ProcsOK' /\ NoneStarts
    BY <1>9 DEF ChildEnds, ProcsOK, Phases, Dead, Running
  <2>2. QED
    BY <1>0, <1>9, <2>1, Untouched DEF ChildEnds
<1>10. QED
  BY <1>2, <1>3, <1>4, <1>5, <1>6, <1>7, <1>8, <1>9 DEF CodeStep

\* the steps of the main process
LEMMA MainStepType == ASSUME TypeInv, MainStep PROVE TypeInv'
<1> USE DEF TypeInv
<1>0. ASSUME UNCHANGED code, pc \notin {"test", "stopped"} PROVE InProcessOK'
  BY <1>0 DEF InProcessOK
<1>1. CASE EnterSubSuite
  <2>1. MainOK'
    BY <1>1 DEF EnterSubSuite, Goto, MainOK, Visits, InTest, Top, Entry, HasEntry
  <2>2. QED
    BY <1>0, <1>1, <2>1, Untouched DEF EnterSubSuite, procs
<1>2. CASE StartSubSuite
  <2>1. stack # <<>> /\ Entry \in Suites /\ Top.loop = "subs"
    BY <1>2 DEF StartSubSuite, MainOK
  <2>2. Frame(Entry) \in FrameSet
    BY <2>1 DEF Frame, FrameSet
  <2>3. /\ stack' \in Seq(FrameSet) /\ stack' # <<>> /\ Len(stack') = Len(stack) + 1
        /\ \A d \in 1..Len(stack) : stack'[d] = stack[d]
    BY <1>2, <2>2, AppendProperties DEF StartSubSuite, MainOK
  <2>4. trail' \in Seq(Suites \cup Tests)
    BY <1>2, <2>1, AppendProperties DEF StartSubSuite, MainOK
  <2>5. \A d \in 1..Len(stack) : stack[d].loop = "subs"
    BY <2>1, TopType DEF MainOK, Top
  <2>6. MainOK'
    BY <1>2, <2>3, <2>4, <2>5, TopType, <2>1 DEF StartSubSuite, MainOK, InTest
  <2>7. BookOK'
    BY <1>2 DEF StartSubSuite, BookOK, NoCounts
  <2>8. QED
    BY <1>0, <1>2, <2>6, <2>7, Untouched DEF StartSubSuite, procs
<1>3. CASE TeardownReturns
  <2>1. MainOK'
    BY <1>3, NextEntryMain DEF TeardownReturns, MainOK
  <2>2. QED
    BY <1>0, <1>3, <2>1, Untouched DEF TeardownReturns, procs
<1>4. CASE PassEntry
  <2>1. MainOK'
    BY <1>4, NextEntryMain DEF PassEntry, MainOK
  <2>2. QED
    BY <1>0, <1>4, <2>1, Untouched DEF PassEntry, procs
<1>5. CASE StartOwnTests
  <2> DEFINE new == [suite |-> Top.suite, loop |-> "tests", i |-> 1]
  <2>1. stack # <<>> /\ Len(stack) \in 1..Len(stack) /\ Top \in FrameSet
    BY <1>5, TopType DEF StartOwnTests, InLoop, MainOK
  <2>2. new \in FrameSet
    BY <2>1 DEF FrameSet
  <2>3. stack' = [stack EXCEPT ![Len(stack)] = new]
    BY <1>5, <2>1 DEF StartOwnTests, Top
  <2> HIDE DEF new
  <2>4. /\ stack' \in Seq(FrameSet) /\ Len(stack') = Len(stack) /\ stack' # <<>>
        /\ \A d \in 1..(Len(stack) - 1) : stack'[d] = stack[d]
    BY <2>1, <2>2, <2>3, ExceptSeq DEF MainOK
  <2>5. MainOK'
    BY <1>5, <2>4 DEF StartOwnTests, InLoop, MainOK, InTest
  <2>6. BookOK'
    BY <1>5 DEF StartOwnTests, BookOK, NoCounts
  <2>7. QED
    BY <1>0, <1>5, <2>5, <2>6, Untouched DEF StartOwnTests, InLoop, procs
<1>6. ASSUME AtTest PROVE /\ stack # <<>> /\ Entry \in Tests /\ Top.loop = "tests"
                          /\ Append(trail, Entry) \in Seq(Suites \cup Tests)
  BY <1>6, TreeAssumption, AppendProperties DEF AtTest, MainOK, Visits
<1>7. ASSUME AtTest, NEW p \in {"reading", "test", "forked"}, StartTest(p) PROVE MainOK'
  BY <1>6, <1>7 DEF StartTest, MainOK, InTest, Top, Entry
<1>8. CASE SkipTest
  <2>1. MainOK'
    BY <1>7, <1>8 DEF SkipTest
  <2>2. ChannelOK'
    BY <1>8, SendType DEF SkipTest, Results
  <2>3. ProcsOK'
    BY <1>8 DEF SkipTest, ProcsOK, Dead
  <2>4. QED
    BY <1>0, <1>8, <2>1, <2>2, <2>3, Untouched DEF SkipTest, AtTest
<1>9. CASE RunTest
  <2>1. MainOK'
    BY <1>7, <1>9 DEF RunTest
  <2>2. ProcsOK'
    BY <1>9 DEF RunTest, ProcsOK, Dead, Phases, Running
  <2>3. InProcessOK'
    BY <1>9 DEF RunTest, AtTest, StartTest, InProcessOK, ProcsOK, Top, Entry
  <2>4. QED
    BY <1>9, <2>1, <2>2, <2>3, Untouched DEF RunTest
<1>10. CASE IgnoreCtrlC
  <2>1. MainOK'
    BY <1>10 DEF IgnoreCtrlC, Goto, MainOK, InTest, Top, Entry
  <2>2. QED
    BY <1>0, <1>10, <2>1, Untouched DEF IgnoreCtrlC, procs
<1>11. ASSUME NEW z \in (Tests \cup {Main}) \X Dead, WaitForChild(z) PROVE TypeInv'
  <2>1. MainOK'
    BY <1>11 DEF WaitForChild, Goto, MainOK, InTest, Top, Entry
  <2>2. ProcsOK'
    BY <1>11 DEF WaitForChild, ProcsOK, Dead
  <2>3. QED
    BY <1>0, <1>11, <2>1, <2>2, Untouched DEF WaitForChild
<1>12. pipe # <<>> => Tail(pipe) \in Seq(Message)
  BY HeadTailProperties DEF ChannelOK
<1>13. ASSUME pipe' = Unread, UNCHANGED <<sent, trouble>> PROVE ChannelOK'
  BY <1>12, <1>13 DEF ChannelOK, Unread
<1>14. CASE ReadResult
  <2>1. BookOK'
    BY <1>14 DEF ReadResult, BookOK, Kinds, Results
  <2>2. QED
    BY <1>0, <1>13, <1>14, <2>1, Untouched DEF ReadResult, procs
<1>15. DropLast(trail) \in Seq(Suites \cup Tests)
  <2>1. CASE trail = <<>>
    <3>1. SubSeq(trail, 1, Len(trail) - 1) = <<>>
      BY <2>1, SubSeqEmpty, EmptySeq
    <3>2. QED
      BY <3>1, EmptySeq DEF DropLast
  <2>2. CASE trail # <<>>
    BY <2>2, DropLastType DEF MainOK
  <2>3. QED
    BY <2>1, <2>2
<1>16. CASE FinishTest
  <2>1. stack # <<>> /\ Entry \in Tests
    BY <1>16 DEF FinishTest, MainOK, InTest
  <2>2. MainOK'
    BY <1>15, <1>16, <2>1, NextEntryMain DEF FinishTest
  <2>3. [test |-> Entry, how |-> Reported] \in Report
    BY <2>1 DEF Report, Reported
  <2>4. reports' \in Seq(Report)
    BY <1>16, <2>3, AppendProperties DEF FinishTest, BookOK
  <2>5. BookOK'
    BY <1>16, <2>4 DEF FinishTest, BookOK, Kinds, Results
  <2>6. QED
    BY <1>0, <1>13, <1>16, <2>2, <2>5, Untouched DEF FinishTest, procs
<1>17. CASE EndSuite
  <2>1. MainOK'
    BY <1>17 DEF EndSuite, InLoop, Goto, MainOK, InTest, Top, Entry
  <2>2. ChannelOK'
    BY <1>17, SendType DEF EndSuite, Results
  <2>3. QED
    BY <1>0, <1>17, <2>1, <2>2, Untouched DEF EndSuite, InLoop, procs
<1>18. CASE FinishSuite
  <2>1. stack # <<>> /\ stack \in Seq(FrameSet) /\ Len(stack) \in Nat \ {0}
    BY <1>18, TopType DEF FinishSuite, MainOK
  <2>2. /\ stack' \in Seq(FrameSet) /\ Len(stack') = Len(stack) - 1
        /\ \A d \in 1..(Len(stack) - 1) : stack'[d] = stack[d]
    BY <1>18, <2>1, DropLastType DEF FinishSuite
  <2>3. Verdict(total') \in {"success", "failure"}
    BY DEF Verdict
  <2>4. MainOK'
    <3>1. CASE Len(stack) = 1
      BY <1>15, <1>18, <2>1, <2>2, <2>3, <3>1 DEF FinishSuite, MainOK, InTest
    <3>2. CASE Len(stack) # 1
      <4>1. stack' # <<>> /\ Len(stack') \in 1..(Len(stack) - 1)
        BY <2>1, <2>2, <3>2, EmptySeq
      <4>2. Top'.loop = "subs"
        BY <2>2, <4>1 DEF Top, MainOK
      <4>3. \A d \in 1..(Len(stack') - 1) : stack'[d].loop = "subs"
        BY <2>1, <2>2 DEF MainOK
      <4>4. QED
        BY <1>15, <1>18, <2>2, <3>2, <4>1, <4>2, <4>3 DEF FinishSuite, MainOK, InTest
    <3>3. QED
      BY <3>1, <3>2
  <2>5. BookOK'
    <3>1. counters' \in [Kinds -> Nat]
      BY <1>18 DEF FinishSuite, BookOK, Kinds, Results
    <3>2. QED
      BY <1>18, <3>1 DEF FinishSuite, Booked, BookOK
  <2>6. QED
    BY <1>0, <1>13, <1>18, <2>4, <2>5, Untouched DEF FinishSuite, procs
<1>19. CASE MainPanics
  <2>1. MainOK' /\ InProcessOK'
    BY <1>19, StopType DEF MainPanics, Stop, InProcessOK
  <2>2. ChannelOK'
    BY <1>19 DEF MainPanics, ChannelOK
  <2>3. QED
    BY <1>19, <2>1, <2>2, Untouched DEF MainPanics
<1>20. QED
  BY <1>1, <1>2, <1>3, <1>4, <1>5, <1>8, <1>9, <1>10, <1>11, <1>14, <1>16, <1>17,
     <1>18, <1>19 DEF MainStep

LEMMA TypeStep == ASSUME TypeInv, [Next]_vars PROVE TypeInv'
<1>1. CASE MainStep
  BY <1>1, MainStepType
<1>2. ASSUME NEW r \in {"pass", "fail"}, FixtureAsserts(r) PROVE TypeInv'
  <2>1. ChannelOK'
    BY <1>2, SendType DEF FixtureAsserts, Results, TypeInv
  <2>2. InProcessOK'
    BY <1>2 DEF FixtureAsserts, TypeInv, InProcessOK, main, procs, Entry, Top
  <2>3. QED
    BY <1>2, <2>1, <2>2, Untouched DEF FixtureAsserts, TypeInv
<1>3. ASSUME NEW t \in Tests,
             \/ CodeStep(t) \/ CodeThrows(t) \/ Alarm(t)
             \/ \E r \in {"pass", "fail", "skipped"} : CodeSends(t, r)
             \/ \E how \in Dead : CodeDies(t, how)
             \/ \E how \in {"exited", "signalled"} : ChildEnds(t, how)
      PROVE  TypeInv'
  BY <1>3, CodeStepType
<1>4. CASE ForkFails
  <2>1. trail' \in Seq(Suites \cup Tests)
    BY <1>4, TreeAssumption, AppendProperties DEF ForkFails, AtTest, TypeInv, MainOK
  <2>2. MainOK' /\ InProcessOK'
    BY <1>4, <2>1 DEF ForkFails, TypeInv, MainOK, InTest, InProcessOK
  <2>3. QED
    BY <1>4, <2>2, Untouched DEF ForkFails, TypeInv
<1>5. CASE HelperEnds
  <2>1. ProcsOK'
    BY <1>5 DEF HelperEnds, TypeInv, ProcsOK, Dead
  <2>2. InProcessOK'
    BY <1>5 DEF HelperEnds, TypeInv, InProcessOK, main, Entry, Top
  <2>3. QED
    BY <1>5, <2>1, <2>2, Untouched DEF HelperEnds, TypeInv
<1>6. CASE Interrupt
  <2>1. MainOK' /\ InProcessOK'
    <3>1. CASE pc = "waiting"
      <4>1. UNCHANGED main
        BY <1>6, <3>1 DEF Interrupt
      <4>2. \A t \in Tests : code'[t] \in Running => code[t] \in Running
        BY <1>6 DEF Interrupt, Running
      <4>3. QED
        BY <4>1, <4>2, Untouched DEF TypeInv, InProcessOK, main, Entry, Top
    <3>2. CASE pc # "waiting"
      BY <1>6, <3>2, StopType DEF Interrupt, Stop, TypeInv, InProcessOK
    <3>3. QED
      BY <3>1, <3>2
  <2>2. ProcsOK'
    <3>1. PICK hit \in SUBSET Tests :
            /\ code' = [t \in Tests |-> IF t \in hit THEN "signalled" ELSE code[t]]
            /\ zombies' = zombies \cup (hit \X {"signalled"})
      BY <1>6 DEF Interrupt
    <3>2. hit \X {"signalled"} \subseteq (Tests \cup {Main}) \X Dead
      BY DEF Dead
    <3>3. code' \in [Tests -> Phases]
      BY <3>1 DEF TypeInv, ProcsOK, Phases, Dead
    <3>4. QED
      BY <1>6, <3>1, <3>2, <3>3 DEF Interrupt, TypeInv, ProcsOK
  <2>3. ChannelOK'
    BY <1>6 DEF Interrupt, TypeInv, ChannelOK
  <2>4. QED
    BY <1>6, <2>1, <2>2, <2>3, Untouched DEF Interrupt, TypeInv
<1>7. CASE UNCHANGED vars
  <2>1. InProcessOK'
    BY <1>7 DEF TypeInv, InProcessOK, vars, main, procs, Entry, Top
  <2>2. QED
    BY <1>7, <2>1, Untouched DEF vars, TypeInv
<1>8. QED
  BY <1>1, <1>2, <1>3, <1>4, <1>5, <1>6, <1>7 DEF Next

LEMMA TypeInit == Init => TypeInv
<1> SUFFICES ASSUME Init PROVE TypeInv
  OBVIOUS
<1>1. Frame(Root) \in FrameSet
  BY TreeAssumption DEF Frame, FrameSet
<1>2. stack \in Seq(FrameSet) /\ stack # <<>> /\ Len(stack) = 1
  BY <1>1 DEF Init
<1>3. trail \in Seq(Suites \cup Tests)
  BY TreeAssumption DEF Init
<1>4. MainOK
  BY <1>2, <1>3 DEF Init, MainOK, InTest
<1>5. BookOK
  BY EmptySeq DEF Init, BookOK, NoCounts
<1>6. ProcsOK
  BY DEF Init, ProcsOK, Phases, Dead
<1>7. ChannelOK
  BY EmptySeq DEF Init, ChannelOK
<1>8. InProcessOK
  BY DEF Init, InProcessOK, Running
<1>9. QED
  BY <1>4, <1>5, <1>6, <1>7, <1>8 DEF TypeInv

(* In every run, of whatever tree and in whatever mode, every variable     *)
(* keeps its type: the walk never leaves the tree, and the counters, the   *)
(* pipe and the trail stay what reporter.c and messaging.c take them for.  *)
THEOREM TypeCorrect == Spec => []TypeOK
<1>1. Spec => []TypeInv
  BY TypeInit, TypeStep, PTL DEF Spec
<1>2. QED
  BY <1>1, TypeInvIsType, PTL

-----------------------------------------------------------------------------
(* Conservation of results                                                 *)

Of(k) == [result : {k}, from : Tests \cup {Main}]
Died  == [test : Tests, how : {"incomplete", "terminated"}]

LEMMA InPipeType ==
  ASSUME TypeInv, NEW k \in Kinds
  PROVE  /\ InPipe(k) \in Nat /\ Unbooked(k) \in Nat /\ Incompletes \in Nat
         /\ sent[k] \in Nat /\ total[k] \in Nat /\ counters[k] \in Nat
<1>1. InPipe(k) \in Nat
  BY CountType DEF InPipe, TypeInv, ChannelOK
<1>2. Incompletes \in Nat
  BY CountType DEF Incompletes, TypeInv, BookOK
<1>3. Unbooked(k) \in Nat
  BY DEF Unbooked, TypeInv, BookOK
<1>4. QED
  BY <1>1, <1>2, <1>3 DEF TypeInv, BookOK, ChannelOK, Kinds

\* a message is in the pipe as soon as it counts as sent
LEMMA SendConserves ==
  ASSUME TypeInv, NEW from \in Tests \cup {Main}, NEW r \in Results, Send(from, r),
         NEW k \in Kinds
  PROVE  sent'[k] = sent[k] + (InPipe(k)' - InPipe(k))
<1> DEFINE m == [result |-> r, from |-> from]
<1>1. InPipe(k) \in Nat /\ sent[k] \in Nat /\ pipe \in Seq(Message) /\ m \in Message
  BY InPipeType DEF TypeInv, ChannelOK, Message
<1>2. CASE Full
  BY <1>1, <1>2 DEF Send, InPipe
<1>3. CASE ~Full
  <2>1. m \in Of(k) <=> r = k
    BY DEF Of
  <2>2. Count(Append(pipe, m), Of(k)) = Count(pipe, Of(k)) + (IF m \in Of(k) THEN 1 ELSE 0)
    BY <1>1, CountAppend
  <2>3. pipe' = Append(pipe, m) /\ sent' = [sent EXCEPT ![r] = @ + 1]
    BY <1>3 DEF Send
  <2>4. InPipe(k)' = InPipe(k) + (IF r = k THEN 1 ELSE 0)
    BY <2>1, <2>2, <2>3 DEF InPipe, Of
  <2>5. sent'[k] = sent[k] + (IF r = k THEN 1 ELSE 0)
    BY <1>1, <2>3 DEF TypeInv, ChannelOK, Kinds
  <2>6. QED
    BY <1>1, <2>4, <2>5
<1>4. QED
  BY <1>2, <1>3

\* what is read is no longer in the pipe
LEMMA ReadConserves ==
  ASSUME TypeInv, pipe' = Unread, NEW k \in Kinds
  PROVE  InPipe(k) = InPipe(k)' + (IF NextResult = k THEN 1 ELSE 0)
<1>1. pipe \in Seq(Message) /\ InPipe(k) \in Nat
  BY InPipeType DEF TypeInv, ChannelOK
<1>2. CASE pipe = <<>>
  BY <1>1, <1>2 DEF Unread, NextResult, Kinds, Results, InPipe
<1>3. CASE pipe # <<>>
  <2>1. Head(pipe) \in Message /\ Tail(pipe) \in Seq(Message)
    BY <1>1, <1>3, HeadTailProperties
  <2>2. Count(pipe, Of(k)) = Count(Tail(pipe), Of(k)) + (IF Head(pipe) \in Of(k) THEN 1 ELSE 0)
    BY <1>1, <1>3, CountTail
  <2>3. Head(pipe) \in Of(k) <=> NextResult = k
    BY <1>3, <2>1 DEF Of, Message, NextResult
  <2>4. pipe' = Tail(pipe)
    BY <1>3 DEF Unread
  <2>5. QED
    BY <2>2, <2>3, <2>4 DEF InPipe, Of
<1>4. QED
  BY <1>2, <1>3

\* the test that is closed without a message has not completed
LEMMA IncompleteTest ==
  ASSUME TypeInv, FinishTest
  PROVE  /\ Reported \in {"incomplete", "terminated"} <=> NextResult = "nothing"
         /\ Incompletes' = Incompletes + (IF NextResult = "nothing" THEN 1 ELSE 0)
<1> DEFINE rep == [test |-> Entry, how |-> Reported]
<1>1. rep \in Report /\ reports \in Seq(Report) /\ reports' = Append(reports, rep)
  <2>1. Entry \in Tests
    BY DEF FinishTest, TypeInv, MainOK, InTest
  <2>2. QED
    BY <2>1 DEF Report, Reported, FinishTest, TypeInv, BookOK
<1>2. Reported \in {"incomplete", "terminated"} <=> NextResult = "nothing"
  BY DEF Reported, FinishTest, LastRead
<1>3. rep \in Died <=> NextResult = "nothing"
  BY <1>1, <1>2 DEF Died, Report
<1>4. Count(Append(reports, rep), Died) = Count(reports, Died) + (IF rep \in Died THEN 1 ELSE 0)
  BY <1>1, CountAppend
<1>5. QED
  BY <1>1, <1>2, <1>3, <1>4 DEF Incompletes, Died

LEMMA ConservationStep ==
  ASSUME TypeInv, Conservation, [Next]_vars
  PROVE  Conservation'
<1> SUFFICES ASSUME NEW k \in Kinds
             PROVE  sent'[k] + (IF k = "exception" THEN Incompletes' ELSE 0)
                      = total'[k] + Unbooked(k)' + InPipe(k)'
  BY DEF Conservation
<1> DEFINE Here  == sent[k] + (IF k = "exception" THEN Incompletes ELSE 0)
                      = total[k] + Unbooked(k) + InPipe(k)
           There == sent'[k] + (IF k = "exception" THEN Incompletes' ELSE 0)
                      = total'[k] + Unbooked(k)' + InPipe(k)'
<1>0. Here /\ TypeInv'
  BY TypeStep DEF Conservation
<1>1. /\ InPipe(k) \in Nat /\ Unbooked(k) \in Nat /\ Incompletes \in Nat
      /\ sent[k] \in Nat /\ total[k] \in Nat /\ counters[k] \in Nat
      /\ InPipe(k)' \in Nat
  <2>1. InPipe(k)' \in Nat
    BY <1>0, CountType DEF InPipe, TypeInv, ChannelOK
  <2>2. QED
    BY <2>1, InPipeType
\* a step that books nothing and at most sends
<1>2. ASSUME UNCHANGED <<total, reports>>, Unbooked(k)' = Unbooked(k),
             \/ UNCHANGED <<pipe, sent>>
             \/ \E from \in Tests \cup {Main}, r \in Results : Send(from, r)
      PROVE  There
  <2>1. sent'[k] = sent[k] + (InPipe(k)' - InPipe(k))
    <3>1. CASE UNCHANGED <<pipe, sent>>
      BY <1>1, <3>1 DEF InPipe
    <3>2. CASE \E from \in Tests \cup {Main}, r \in Results : Send(from, r)
      BY <3>2, SendConserves
    <3>3. QED
      BY <1>2, <3>1, <3>2
  <2>2. Incompletes' = Incompletes /\ total'[k] = total[k]
    BY <1>2 DEF Incompletes
  <2>3. QED
    BY <1>0, <1>1, <1>2, <2>1, <2>2
<1>3. ASSUME UNCHANGED <<stack, counters>> PROVE Unbooked(k)' = Unbooked(k)
  BY <1>3 DEF Unbooked, Top
<1>4. ASSUME stack # <<>>, stack' = NextEntry, UNCHANGED counters
      PROVE  Unbooked(k)' = Unbooked(k)
  BY <1>4, NextEntryType DEF Unbooked, Top, TypeInv
<1>5. ASSUME EnterSubSuite \/ TeardownReturns \/ PassEntry \/ IgnoreCtrlC PROVE There
  <2>1. UNCHANGED <<counters, total, reports, pipe, sent>>
    BY <1>5 DEF EnterSubSuite, TeardownReturns, PassEntry, IgnoreCtrlC, book, channel
  <2>2. Unbooked(k)' = Unbooked(k)
    <3>1. CASE EnterSubSuite \/ IgnoreCtrlC
      BY <1>3, <2>1, <3>1 DEF EnterSubSuite, IgnoreCtrlC, Goto
    <3>2. CASE TeardownReturns \/ PassEntry
      BY <1>4, <2>1, <3>2 DEF TeardownReturns, PassEntry, TypeInv, MainOK
    <3>3. QED
      BY <1>5, <3>1, <3>2
  <2>3. QED
    BY <1>2, <2>1, <2>2
<1>6. ASSUME SkipTest \/ RunTest \/ EndSuite \/ MainPanics \/ ForkFails PROVE There
  <2>1. UNCHANGED <<counters, total, reports, stack>>
    BY <1>6 DEF SkipTest, RunTest, EndSuite, MainPanics, ForkFails, book, StartTest, Goto, Stop
  <2>2. \/ UNCHANGED <<pipe, sent>>
        \/ \E from \in Tests \cup {Main}, r \in Results : Send(from, r)
    BY <1>6 DEF SkipTest, RunTest, EndSuite, MainPanics, ForkFails, channel, Results
  <2>3. QED
    BY <1>2, <1>3, <2>1, <2>2
<1>7. ASSUME NEW z \in (Tests \cup {Main}) \X Dead, WaitForChild(z) PROVE There
  BY <1>2, <1>3, <1>7 DEF WaitForChild, Goto, book, channel
<1>8. ASSUME StartSubSuite PROVE There
  <2>1. stack # <<>> /\ Top.loop = "subs" /\ Entry \in Suites
    BY <1>8 DEF StartSubSuite, TypeInv, MainOK
  <2>2. Frame(Entry) \in FrameSet /\ Frame(Entry).loop = "subs" /\ stack \in Seq(FrameSet)
    BY <2>1 DEF Frame, FrameSet, TypeInv, MainOK
  <2>3. Top'.loop = "subs"
    BY <1>8, <2>2, AppendProperties DEF StartSubSuite, Top
  <2>4. Unbooked(k)' = Unbooked(k)
    BY <2>1, <2>3 DEF Unbooked
  <2>5. QED
    BY <1>2, <1>8, <2>4 DEF StartSubSuite, channel
<1>9. ASSUME StartOwnTests PROVE There
  <2>1. stack # <<>> /\ Top.loop = "subs"
    BY <1>9 DEF StartOwnTests, InLoop, TypeInv, MainOK
  <2>2. counters'[k] = 0
    BY <1>9 DEF StartOwnTests, NoCounts
  <2>3. Unbooked(k)' = Unbooked(k)
    BY <2>1, <2>2 DEF Unbooked
  <2>4. QED
    BY <1>2, <1>9, <2>3 DEF StartOwnTests, channel
<1>10. ASSUME ReadResult PROVE There
  <2>1. stack # <<>> /\ Top.loop = "tests"
    BY <1>10 DEF ReadResult, TypeInv, MainOK, InTest
  <2>2. UNCHANGED <<stack, total, reports, sent>> /\ pipe' = Unread
    BY <1>10 DEF ReadResult, main
  <2>3. counters'[k] = counters[k] + (IF NextResult = k THEN 1 ELSE 0)
    BY <1>10 DEF ReadResult, TypeInv, BookOK
  <2>4. InPipe(k) = InPipe(k)' + (IF NextResult = k THEN 1 ELSE 0)
    BY <2>2, ReadConserves
  <2>5. Unbooked(k) = counters[k] /\ Unbooked(k)' = counters'[k]
    BY <2>1, <2>2 DEF Unbooked, Top
  <2>6. Incompletes' = Incompletes /\ total'[k] = total[k] /\ sent'[k] = sent[k]
    BY <2>2 DEF Incompletes
  <2>7. QED
    BY <1>0, <1>1, <2>3, <2>4, <2>5, <2>6
<1>11. ASSUME FinishTest PROVE There
  <2> DEFINE lost == NextResult = "nothing"
  <2>1. stack # <<>> /\ Top.loop = "tests" /\ Entry \in Tests
    BY <1>11 DEF FinishTest, TypeInv, MainOK, InTest
  <2>2. UNCHANGED <<total, sent>> /\ pipe' = Unread /\ stack' = NextEntry
    BY <1>11 DEF FinishTest
  <2>3. counters'[k] = counters[k] + (IF NextResult = k THEN 1 ELSE 0)
                                   + (IF k = "exception" /\ lost THEN 1 ELSE 0)
    BY <1>1, <1>11, SMTT(30) DEF FinishTest, LastRead, TypeInv, BookOK, Kinds, Results
  <2>4. InPipe(k) = InPipe(k)' + (IF NextResult = k THEN 1 ELSE 0)
    BY <2>2, ReadConserves
  <2>5. Unbooked(k) = counters[k] /\ Unbooked(k)' = counters'[k]
    BY <2>1, <2>2, NextEntryType DEF Unbooked, Top, TypeInv
  <2>6. Incompletes' = Incompletes + (IF lost THEN 1 ELSE 0)
    BY <1>11, IncompleteTest
  <2>7. total'[k] = total[k] /\ sent'[k] = sent[k]
    BY <2>2
  <2> HIDE DEF lost
  <2>8. QED
    BY <1>0, <1>1, <2>3, <2>4, <2>5, <2>6, <2>7
<1>12. ASSUME FinishSuite PROVE There
  <2>1. stack # <<>> /\ Top.loop = "tests" /\ stack \in Seq(FrameSet) /\ Len(stack) \in Nat \ {0}
    BY <1>12, TopType DEF FinishSuite, TypeInv, MainOK
  <2>2. UNCHANGED <<reports, sent>> /\ pipe' = Unread /\ stack' = DropLast(stack)
    BY <1>12 DEF FinishSuite
  <2>3. counters'[k] = counters[k] + (IF NextResult = k THEN 1 ELSE 0)
    BY <1>1, <1>12 DEF FinishSuite, LastRead, TypeInv, BookOK, Kinds, Results
  <2>4. InPipe(k) = InPipe(k)' + (IF NextResult = k THEN 1 ELSE 0)
    BY <2>2, ReadConserves
  <2>5. Unbooked(k) = counters[k]
    BY <2>1 DEF Unbooked
  <2>6. Unbooked(k)' = 0
    <3>1. /\ stack' \in Seq(FrameSet) /\ Len(stack') = Len(stack) - 1
          /\ \A d \in 1..(Len(stack) - 1) : stack'[d] = stack[d]
      BY <2>1, <2>2, DropLastType
    <3>2. ASSUME stack' # <<>> PROVE Top'.loop = "subs"
      <4>1. Len(stack') \in 1..(Len(stack) - 1)
        BY <2>1, <3>1, <3>2, EmptySeq
      <4>2. QED
        BY <3>1, <4>1 DEF Top, TypeInv, MainOK
    <3>3. QED
      BY <3>2 DEF Unbooked
  <2>7. total'[k] = total[k] + counters'[k]
    BY <1>12 DEF FinishSuite, Booked
  <2>8. Incompletes' = Incompletes /\ sent'[k] = sent[k]
    BY <2>2 DEF Incompletes
  <2>9. QED
    BY <1>0, <1>1, <2>3, <2>4, <2>5, <2>6, <2>7, <2>8
<1>13. ASSUME NEW r \in {"pass", "fail"}, FixtureAsserts(r) PROVE There
  BY <1>2, <1>3, <1>13 DEF FixtureAsserts, Results, book, main
<1>14. ASSUME NEW t \in Tests, NEW how, Dies(t, how) PROVE There
  <2>1. UNCHANGED <<stack, counters, total, reports, pipe, sent>>
    BY <1>14 DEF Dies, main, book, Stop
  <2>2. QED
    BY <1>2, <1>3, <2>1
<1>15. ASSUME NEW t \in Tests, CodeStep(t) PROVE There
  <2>1. CASE CodePanics(t)
    BY <1>14, <2>1 DEF CodePanics
  <2>2. CASE CodeAdvances(t) \/ CodeCompletes(t)
    <3>1. UNCHANGED <<stack, counters, total, reports>>
      BY <2>2 DEF CodeAdvances, CodeCompletes, Goto, main, book
    <3>2. \/ UNCHANGED <<pipe, sent>>
          \/ \E from \in Tests \cup {Main}, r \in Results : Send(from, r)
      BY <2>2 DEF CodeAdvances, CodeCompletes, channel, Results
    <3>3. QED
      BY <1>2, <1>3, <3>1, <3>2
  <2>3. QED
    BY <1>15, <2>1, <2>2 DEF CodeStep
<1>16. ASSUME NEW t \in Tests, CodeThrows(t) PROVE There
  BY <1>2, <1>3, <1>16 DEF CodeThrows, Results, book, main
<1>17. ASSUME NEW t \in Tests, Alarm(t) PROVE There
  <2>1. CASE Forking
    BY <1>14, <1>17, <2>1 DEF Alarm
  <2>2. CASE ~Forking
    BY <1>2, <1>3, <1>17, <2>2 DEF Alarm, Stop, book, channel
  <2>3. QED
    BY <2>1, <2>2
<1>18. ASSUME NEW t \in Tests, NEW r \in {"pass", "fail", "skipped"}, CodeSends(t, r) PROVE There
  BY <1>2, <1>3, <1>18 DEF CodeSends, Results, book, main
<1>19. ASSUME NEW t \in Tests, NEW how \in Dead, CodeDies(t, how) PROVE There
  BY <1>14, <1>19 DEF CodeDies
<1>20. ASSUME NEW t \in Tests, NEW how \in {"exited", "signalled"}, ChildEnds(t, how) PROVE There
  BY <1>2, <1>3, <1>20 DEF ChildEnds, main, book, channel
<1>21. ASSUME HelperEnds PROVE There
  BY <1>2, <1>3, <1>21 DEF HelperEnds, main, book, channel
<1>22. ASSUME Interrupt PROVE There
  <2>1. UNCHANGED <<stack, counters, total, reports, pipe, sent>>
    BY <1>22 DEF Interrupt, Stop, main, book
  <2>2. QED
    BY <1>2, <1>3, <2>1
<1>23. ASSUME UNCHANGED vars PROVE There
  BY <1>2, <1>3, <1>23 DEF vars, main, book, channel
<1> HIDE DEF There
<1>24. There
  BY <1>5, <1>6, <1>7, <1>8, <1>9, <1>10, <1>11, <1>12, <1>13, <1>15, <1>16, <1>17,
     <1>18, <1>19, <1>20, <1>21, <1>22, <1>23 DEF Next, MainStep
<1>25. QED
  BY <1>24 DEF There

LEMMA ConservationInit == Init => Conservation
<1> SUFFICES ASSUME Init, NEW k \in Kinds
             PROVE  sent[k] + (IF k = "exception" THEN Incompletes ELSE 0)
                      = total[k] + Unbooked(k) + InPipe(k)
  BY DEF Conservation
<1>1. InPipe(k) = 0 /\ Incompletes = 0
  BY CountEmpty DEF Init, InPipe, Incompletes
<1>2. Unbooked(k) = 0 /\ sent[k] = 0 /\ total[k] = 0
  BY DEF Init, Unbooked, NoCounts, Kinds
<1>3. QED
  BY <1>1, <1>2

(* No result is lost or counted twice on its way through the pipe, the     *)
(* counters and the totals, whatever resets them, whoever writes to the    *)
(* pipe and however late (reporter.c:113, runner.c:82).                    *)
THEOREM ResultsAreConserved == Spec => []Conservation
<1>1. TypeInv /\ Conservation /\ [Next]_vars => TypeInv' /\ Conservation'
  BY TypeStep, ConservationStep
<1>2. Init => TypeInv /\ Conservation
  BY TypeInit, ConservationInit
<1>3. QED
  BY <1>1, <1>2, PTL DEF Spec
-----------------------------------------------------------------------------
(* The breadcrumb trail                                                    *)

\* TrailIsThePath, name by name
PathOK ==
  pc # "stopped" =>
    /\ Len(trail) = Len(stack) + (IF InTest THEN 1 ELSE 0)
    /\ \A d \in 1..Len(stack) : trail[d] = stack[d].suite
    /\ InTest => trail[Len(stack) + 1] = Entry

PathInv == TypeInv /\ PathOK

\* going on in the loop changes no name of the path
LEMMA NextEntrySuites ==
  ASSUME MainOK, stack # <<>>
  PROVE  /\ Len(NextEntry) = Len(stack) /\ Len(stack) \in Nat
         /\ \A d \in 1..Len(stack) : NextEntry[d].suite = stack[d].suite
<1> DEFINE new == [Top EXCEPT !.i = @ + 1]
<1>1. Len(stack) \in 1..Len(stack) /\ Top \in FrameSet /\ stack \in Seq(FrameSet)
  BY TopType DEF MainOK
<1>2. new.suite = Top.suite /\ new \in FrameSet
  BY <1>1 DEF FrameSet
<1>3. NextEntry = [stack EXCEPT ![Len(stack)] = new]
  BY <1>1 DEF NextEntry, Top
<1> HIDE DEF new
<1>4. QED
  BY <1>1, <1>2, <1>3, ExceptSeq DEF Top

LEMMA PathKept ==
  ASSUME PathInv, UNCHANGED <<stack, trail>>, pc' # "stopped" => pc # "stopped" /\ InTest' = InTest
  PROVE  PathOK'
BY DEF PathInv, PathOK, Entry, Top

LEMMA PathMain == ASSUME PathInv, MainStep PROVE PathOK'
<1>0. /\ MainOK /\ trail \in Seq(Suites \cup Tests) /\ stack \in Seq(FrameSet)
      /\ Len(trail) \in Nat /\ Len(stack) \in Nat
      /\ pc # "stopped" => stack # <<>> /\ Len(stack) > 0
  BY EmptySeq DEF PathInv, TypeInv, MainOK
<1>1. ASSUME EnterSubSuite \/ IgnoreCtrlC \/ EndSuite PROVE PathOK'
  BY <1>1, PathKept DEF EnterSubSuite, IgnoreCtrlC, EndSuite, InLoop, Goto, InTest
<1>2. ASSUME NEW z \in (Tests \cup {Main}) \X Dead, WaitForChild(z) PROVE PathOK'
  BY <1>2, PathKept DEF WaitForChild, Goto, InTest
<1>3. ASSUME ReadResult PROVE PathOK'
  BY <1>3, PathKept DEF ReadResult, main, InTest
<1>4. ASSUME MainPanics PROVE PathOK'
  BY <1>4 DEF MainPanics, Stop, PathOK
<1>5. ASSUME TeardownReturns \/ PassEntry PROVE PathOK'
  <2>1. /\ stack' = NextEntry /\ trail' = trail
        /\ pc \in {"loop", "teardown"} /\ pc' = "loop"
    BY <1>5 DEF TeardownReturns, PassEntry
  <2>2. QED
    BY <1>0, <2>1, NextEntrySuites DEF PathInv, PathOK, InTest
<1>6. ASSUME StartSubSuite PROVE PathOK'
  <2>1. stack # <<>> /\ Entry \in Suites /\ pc = "setup" /\ pc' = "loop"
    BY <1>6 DEF StartSubSuite, PathInv, TypeInv, MainOK
  <2>2. /\ Len(stack') = Len(stack) + 1 /\ stack'[Len(stack) + 1] = Frame(Entry)
        /\ \A d \in 1..Len(stack) : stack'[d] = stack[d]
    <3>1. Frame(Entry) \in FrameSet
      BY <2>1 DEF Frame, FrameSet
    <3>2. QED
      BY <1>0, <1>6, <3>1, AppendProperties DEF StartSubSuite
  <2>3. /\ Len(trail') = Len(trail) + 1 /\ trail'[Len(trail) + 1] = Entry
        /\ \A d \in 1..Len(trail) : trail'[d] = trail[d]
    BY <1>0, <1>6, <2>1, AppendProperties DEF StartSubSuite
  <2>4. Len(trail) = Len(stack) /\ \A d \in 1..Len(stack) : trail[d] = stack[d].suite
    BY <1>0, <2>1 DEF PathInv, PathOK, InTest
  <2>5. Frame(Entry).suite = Entry
    BY DEF Frame
  <2>6. \A d \in 1..Len(stack') : trail'[d] = stack'[d].suite
    <3>1. \A d \in 1..Len(stack') : d = Len(stack) + 1 \/ d \in 1..Len(stack)
      <4>1. Len(stack) \in Nat
        BY <1>0, Zenon
      <4>2. QED
        BY ONLY <2>2, <4>1
    <3>2. QED
      BY ONLY <2>2, <2>3, <2>4, <2>5, <3>1
  <2>7. QED
    BY <2>1, <2>2, <2>3, <2>4, <2>6 DEF PathOK, InTest
<1>7. ASSUME StartOwnTests PROVE PathOK'
  <2> DEFINE new == [suite |-> Top.suite, loop |-> "tests", i |-> 1]
  <2>1. /\ pc = "loop" /\ pc' = "loop" /\ trail' = trail
        /\ stack' = [stack EXCEPT ![Len(stack)] = new]
    BY <1>0, <1>7 DEF StartOwnTests, InLoop, Top
  <2>2. new.suite = Top.suite
    OBVIOUS
  <2> HIDE DEF new
  <2>3. Len(stack') = Len(stack) /\ \A d \in 1..Len(stack) : stack'[d].suite = stack[d].suite
    BY <1>0, <2>1, <2>2 DEF Top
  <2>4. QED
    BY <1>0, <2>1, <2>3 DEF PathInv, PathOK, InTest
<1>8. ASSUME SkipTest \/ RunTest PROVE PathOK'
  <2>1. /\ AtTest /\ Entry \in Tests /\ stack' = stack /\ trail' = Append(trail, Entry)
        /\ pc' \in {"reading", "forked", "test"}
    BY <1>8 DEF SkipTest, RunTest, AtTest, StartTest
  <2>2. /\ Len(trail') = Len(trail) + 1 /\ trail'[Len(trail) + 1] = Entry
        /\ \A d \in 1..Len(trail) : trail'[d] = trail[d]
    BY <1>0, <2>1, AppendProperties
  <2>3. Len(trail) = Len(stack) /\ \A d \in 1..Len(stack) : trail[d] = stack[d].suite
    BY <1>0, <2>1 DEF PathInv, PathOK, InTest, AtTest
  <2>4. Entry' = Entry
    BY <2>1 DEF Entry, Top
  <2>5. QED
    BY <1>0, <2>1, <2>2, <2>3, <2>4 DEF PathOK, InTest
<1>9. ASSUME FinishTest PROVE PathOK'
  <2>1. /\ pc = "reading" /\ pc' = "loop" /\ stack' = NextEntry /\ trail' = DropLast(trail)
    BY <1>9 DEF FinishTest
  <2>2. Len(trail) = Len(stack) + 1 /\ \A d \in 1..Len(stack) : trail[d] = stack[d].suite
    BY <1>0, <2>1 DEF PathInv, PathOK, InTest
  <2>3. /\ Len(DropLast(trail)) = Len(stack)
        /\ \A d \in 1..Len(stack) : DropLast(trail)[d] = trail[d]
    <3>1. trail # <<>>
      BY <1>0, <2>2, EmptySeq
    <3>2. QED
      BY <1>0, <2>2, <3>1, DropLastType
  <2>4. QED
    BY <1>0, <2>1, <2>2, <2>3, NextEntrySuites DEF PathOK, InTest
<1>10. ASSUME FinishSuite PROVE PathOK'
  <2>1. /\ pc = "reading_suite" /\ stack' = DropLast(stack) /\ trail' = DropLast(trail)
        /\ pc' \in {"stopped", "teardown"}
    BY <1>10 DEF FinishSuite
  <2>2. Len(trail) = Len(stack) /\ \A d \in 1..Len(stack) : trail[d] = stack[d].suite
    BY <1>0, <2>1 DEF PathInv, PathOK, InTest
  <2>3. /\ Len(DropLast(stack)) = Len(stack) - 1 /\ Len(DropLast(trail)) = Len(stack) - 1
        /\ \A d \in 1..(Len(stack) - 1) :
             DropLast(stack)[d] = stack[d] /\ DropLast(trail)[d] = trail[d]
    <3>1. trail # <<>> /\ stack # <<>>
      BY <1>0, <2>1, <2>2, EmptySeq
    <3>2. QED
      BY <1>0, <2>2, <3>1, DropLastType
  <2>4. QED
    BY <1>0, <2>1, <2>2, <2>3 DEF PathOK, InTest
<1>11. QED
  BY <1>1, <1>2, <1>3, <1>4, <1>5, <1>6, <1>7, <1>8, <1>9, <1>10 DEF MainStep

LEMMA PathStep == ASSUME PathInv, [Next]_vars PROVE PathInv'
<1>0. TypeInv'
  BY TypeStep DEF PathInv
<1>1. ASSUME UNCHANGED main PROVE PathOK'
  BY <1>1, PathKept DEF main, InTest
<1>2. ASSUME pc' = "stopped" PROVE PathOK'
  BY <1>2 DEF PathOK
<1>3. ASSUME NEW t \in Tests, NEW how, Dies(t, how) PROVE PathOK'
  BY <1>1, <1>2, <1>3 DEF Dies, Stop
<1>4. ASSUME NEW t \in Tests, CodeStep(t) PROVE PathOK'
  <2>1. CASE CodePanics(t)
    BY <1>3, <2>1 DEF CodePanics
  <2>2. CASE CodeAdvances(t)
    BY <1>1, <2>2 DEF CodeAdvances
  <2>3. CASE CodeCompletes(t)
    <3>1. CASE Forking
      BY <1>1, <2>3, <3>1 DEF CodeCompletes
    <3>2. CASE ~Forking
      <4>1. pc = "test"
        BY <2>3, <3>2 DEF CodeCompletes, PathInv, TypeInv, InProcessOK, Running
      <4>2. QED
        BY <2>3, <3>2, <4>1, PathKept DEF CodeCompletes, Goto, InTest
    <3>3. QED
      BY <3>1, <3>2
  <2>4. QED
    BY <1>4, <2>1, <2>2, <2>3 DEF CodeStep
<1>5. ASSUME NEW t \in Tests,
             \/ CodeThrows(t)
             \/ \E r \in {"pass", "fail", "skipped"} : CodeSends(t, r)
             \/ \E how \in {"exited", "signalled"} : ChildEnds(t, how)
      PROVE  PathOK'
  BY <1>1, <1>5 DEF CodeThrows, CodeSends, ChildEnds
<1>6. ASSUME NEW t \in Tests, Alarm(t) \/ \E how \in Dead : CodeDies(t, how) PROVE PathOK'
  BY <1>2, <1>3, <1>6 DEF Alarm, Stop, CodeDies
<1>7. ASSUME (\E r \in {"pass", "fail"} : FixtureAsserts(r)) \/ HelperEnds \/ UNCHANGED vars
      PROVE  PathOK'
  BY <1>1, <1>7 DEF FixtureAsserts, HelperEnds, vars
<1>8. ASSUME ForkFails \/ Interrupt PROVE PathOK'
  BY <1>1, <1>2, <1>8 DEF ForkFails, Interrupt, Stop
<1>9. PathOK'
  BY <1>4, <1>5, <1>6, <1>7, <1>8, PathMain DEF Next
<1>10. QED
  BY <1>0, <1>9 DEF PathInv

LEMMA PathIsTrail == ASSUME PathInv PROVE TrailIsThePath
<1> DEFINE suites == [d \in 1..Len(stack) |-> stack[d].suite]
           test   == IF InTest THEN <<Entry>> ELSE <<>>
<1> SUFFICES ASSUME pc # "stopped" PROVE trail = suites \o test
  BY DEF TrailIsThePath
<1>1. trail \in Seq(Suites \cup Tests) /\ stack \in Seq(FrameSet) /\ Len(stack) \in Nat
  BY DEF PathInv, TypeInv, MainOK
<1>2. suites \in Seq(Suites \cup Tests) /\ Len(suites) = Len(stack)
  <2>1. ASSUME NEW d \in 1..Len(stack) PROVE stack[d].suite \in Suites \cup Tests
    <3>1. stack[d] \in FrameSet
      BY <1>1, ElementOfSeq
    <3>2. QED
      BY <3>1 DEF FrameSet
  <2>2. suites \in [1..Len(stack) -> Suites \cup Tests]
    BY <2>1
  <2> HIDE DEF suites
  <2>3. suites \in Seq(Suites \cup Tests)
    BY <1>1, <2>2, SeqDef
  <2>4. Len(suites) = Len(stack)
    BY <1>1, <2>2, <2>3, LenProperties
  <2>5. QED
    BY <2>3, <2>4
<1>3. /\ test \in Seq(Suites \cup Tests) /\ Len(test) = IF InTest THEN 1 ELSE 0
      /\ InTest => test[1] = Entry
  <2>1. CASE InTest
    <3>1. Entry \in Tests
      BY <2>1 DEF PathInv, TypeInv, MainOK
    <3>2. test = <<Entry>>
      BY <2>1
    <3>3. QED
      BY <2>1, <3>1, <3>2
  <2>2. CASE ~InTest
    <3>1. test = <<>>
      BY <2>2
    <3>2. QED
      BY <2>2, <3>1, EmptySeq
  <2>3. QED
    BY <2>1, <2>2
<1>4. \A d \in 1..Len(stack) : suites[d] = stack[d].suite
  OBVIOUS
<1> HIDE DEF suites, test
<1>5. /\ suites \o test \in Seq(Suites \cup Tests)
      /\ Len(suites \o test) = Len(suites) + Len(test)
      /\ \A d \in 1..(Len(suites) + Len(test)) :
           (suites \o test)[d] = IF d <= Len(suites) THEN suites[d] ELSE test[d - Len(suites)]
  <2>1. \A a, b \in Seq(Suites \cup Tests) :
          /\ a \o b \in Seq(Suites \cup Tests)
          /\ Len(a \o b) = Len(a) + Len(b)
          /\ \A d \in 1..(Len(a) + Len(b)) :
               (a \o b)[d] = IF d <= Len(a) THEN a[d] ELSE b[d - Len(a)]
    BY ONLY ConcatProperties
  <2>2. suites \in Seq(Suites \cup Tests) /\ test \in Seq(Suites \cup Tests)
    BY <1>2, <1>3
  <2>3. QED
    BY ONLY <2>1, <2>2, Zenon
<1>6. Len(trail) = Len(suites) + Len(test)
  BY <1>2, <1>3 DEF PathInv, PathOK
<1>7. ASSUME NEW d \in 1..Len(trail) PROVE trail[d] = (suites \o test)[d]
  <2>1. CASE d <= Len(stack)
    BY <1>1, <1>2, <1>4, <1>5, <1>6, <2>1 DEF PathInv, PathOK
  <2>2. CASE ~(d <= Len(stack))
    <3>1. InTest /\ d = Len(stack) + 1
      BY <1>1, <1>2, <1>3, <1>6, <2>2
    <3>2. QED
      BY <1>1, <1>2, <1>3, <1>5, <1>6, <3>1 DEF PathInv, PathOK
  <2>3. QED
    BY <1>1, <2>1, <2>2
<1>8. QED
  BY <1>1, <1>5, <1>6, <1>7, SeqEqual

LEMMA PathInit == Init => PathInv
  BY TypeInit DEF Init, PathInv, PathOK, InTest, Frame

(* Every name pushed on the breadcrumb trail is popped again on whatever   *)
(* way a test or a suite ends: the trail is the path of the walk, for any  *)
(* tree and in every mode (reporter.c:104, 125).                           *)
THEOREM TrailFollowsTheWalk == Spec => []TrailIsThePath
<1>1. PathInv /\ [Next]_vars => PathInv'
  BY PathStep
<1>2. Init => PathInv
  BY PathInit
<1>3. PathInv => TrailIsThePath
  BY PathIsTrail
<1>4. QED
  BY <1>1, <1>2, <1>3, PTL DEF Spec
-----------------------------------------------------------------------------
(* Waiting for the test                                                    *)

Alive(t) == code[t] \notin Dead \cup {"none"}
AtFork   == pc \in {"forked", "waiting"}

\* until wait() takes another child, the only test alive or not waited for is
\* the one under way, between its fork() and the end of its wait()
WaitOK ==
  Forking =>
    /\ zombies \subseteq (Tests \X Dead) \cup {<<Main, "exited">>}
    /\ <<Main, "exited">> \in zombies => helper = "ended"
    /\ ~Misled /\ pc # "stopped" =>
         /\ \A t \in Tests : Alive(t) => AtFork /\ t = Entry
         /\ \A z \in zombies :
              z[1] \in Tests => AtFork /\ z[1] = Entry /\ code[z[1]] = z[2]

WaitInv == TypeInv /\ WaitOK

LEMMA StaysMisled ==
  ASSUME WaitInv, Forking, Misled,
         helper' = helper, <<Main, "exited">> \in zombies' => <<Main, "exited">> \in zombies
  PROVE  Misled'
BY DEF Misled

LEMMA WaitKept ==
  ASSUME WaitInv, UNCHANGED <<stack, code, zombies, helper>>,
         pc' # "stopped" => pc # "stopped" /\ (AtFork => AtFork')
  PROVE  WaitOK'
BY DEF WaitInv, WaitOK, Misled, AtFork, Alive, Entry, Top

\* a step that starts when no test is alive, and starts none
LEMMA WaitQuiet ==
  ASSUME WaitInv, UNCHANGED <<code, zombies, helper>>, ~AtFork, pc # "stopped"
  PROVE  WaitOK'
BY DEF WaitInv, WaitOK, Misled, AtFork, Alive

\* the process of a test ends
LEMMA WaitEnds ==
  ASSUME WaitInv, Forking, NEW hit \in SUBSET Tests, \A t \in hit : Alive(t),
         NEW how \in Dead,
         code' = [t \in Tests |-> IF t \in hit THEN how ELSE code[t]],
         zombies' = zombies \cup (hit \X {how}), helper' = helper,
         pc' # "stopped" => UNCHANGED main
  PROVE  WaitOK'
<1>1. <<Main, "exited">> \in zombies' <=> <<Main, "exited">> \in zombies
  BY TreeAssumption
<1>2. Misled' <=> Misled
  BY <1>1 DEF Misled
<1>3. zombies' \subseteq (Tests \X Dead) \cup {<<Main, "exited">>}
  BY DEF WaitInv, WaitOK
<1>4. ASSUME ~Misled, pc' # "stopped"
      PROVE  /\ \A t \in Tests : Alive(t)' => AtFork' /\ t = Entry'
             /\ \A z \in zombies' :
                  z[1] \in Tests => AtFork' /\ z[1] = Entry' /\ code'[z[1]] = z[2]
  <2>1. pc' = pc /\ pc # "stopped" /\ Entry' = Entry /\ (AtFork' <=> AtFork)
    BY <1>4 DEF main, Entry, Top, AtFork
  <2>2. \A t \in Tests : Alive(t) => AtFork /\ t = Entry
    BY <1>4, <2>1 DEF WaitInv, WaitOK
  <2>3. \A t \in Tests : Alive(t)' => Alive(t)
    BY DEF Alive
  <2>4. ASSUME NEW z \in zombies', z[1] \in Tests
        PROVE  AtFork /\ z[1] = Entry /\ code'[z[1]] = z[2]
    <3>1. CASE z \in zombies
      <4>1. AtFork /\ z[1] = Entry /\ code[z[1]] = z[2]
        BY <1>4, <2>1, <2>4, <3>1 DEF WaitInv, WaitOK
      <4>2. z[2] \in Dead
        BY <2>4, <3>1, TreeAssumption DEF WaitInv, WaitOK
      <4>3. z[1] \notin hit
        BY <4>1, <4>2 DEF Alive
      <4>4. QED
        BY <2>4, <4>1, <4>3
    <3>2. CASE z \in hit \X {how}
      BY <2>2, <3>2
    <3>3. QED
      BY <3>1, <3>2
  <2>5. QED
    BY <2>1, <2>2, <2>3, <2>4
<1>5. QED
  BY <1>1, <1>2, <1>3, <1>4 DEF WaitInv, WaitOK

LEMMA WaitMain == ASSUME WaitInv, MainStep PROVE WaitOK'
<1>1. ASSUME EnterSubSuite \/ StartSubSuite \/ TeardownReturns \/ PassEntry \/ StartOwnTests
               \/ SkipTest \/ ReadResult \/ FinishTest \/ EndSuite \/ FinishSuite
      PROVE  WaitOK'
  <2>1. UNCHANGED <<code, zombies, helper>> /\ ~AtFork /\ pc # "stopped"
    BY <1>1 DEF EnterSubSuite, StartSubSuite, TeardownReturns, PassEntry, StartOwnTests,
       SkipTest, AtTest, ReadResult, FinishTest, EndSuite, InLoop, FinishSuite, procs, AtFork
  <2>2. QED
    BY <2>1, WaitQuiet
<1>2. ASSUME MainPanics PROVE WaitOK'
  BY <1>2, WaitKept DEF MainPanics, Stop, procs
<1>3. ASSUME IgnoreCtrlC PROVE WaitOK'
  BY <1>3, WaitKept DEF IgnoreCtrlC, Goto, procs, AtFork
<1>4. ASSUME RunTest, Forking PROVE WaitOK'
  <2>1. /\ pc = "loop" /\ pc' = "forked" /\ UNCHANGED <<zombies, helper, stack>>
        /\ code' = [code EXCEPT ![Entry] = "setup"] /\ Entry \in Tests
    BY <1>4 DEF RunTest, StartTest, AtTest
  <2>2. Entry' = Entry /\ (Misled' <=> Misled) /\ AtFork' /\ ~AtFork
    BY <2>1 DEF Entry, Top, Misled, AtFork
  <2>3. \A t \in Tests : t # Entry => (Alive(t)' <=> Alive(t))
    BY <2>1 DEF WaitInv, TypeInv, ProcsOK, Alive
  <2>4. QED
    BY <1>4, <2>1, <2>2, <2>3 DEF WaitInv, WaitOK
<1>5. ASSUME NEW z \in (Tests \cup {Main}) \X Dead, WaitForChild(z), Forking PROVE WaitOK'
  <2>1. /\ pc = "waiting" /\ pc' = "reading" /\ UNCHANGED <<code, helper>>
        /\ z \in zombies /\ zombies' = zombies \ {z}
    BY <1>5 DEF WaitForChild, Goto
  <2>2. /\ zombies' \subseteq (Tests \X Dead) \cup {<<Main, "exited">>}
        /\ <<Main, "exited">> \in zombies' => helper' = "ended"
    BY <1>5, <2>1 DEF WaitInv, WaitOK
  <2>3. CASE z = <<Main, "exited">>
    <3>1. Misled'
      BY <1>5, <2>1, <2>3 DEF WaitInv, WaitOK, Misled
    <3>2. QED
      BY <2>2, <3>1 DEF WaitOK
  <2>4. CASE z # <<Main, "exited">>
    <3>1. z[1] \in Tests /\ (Misled' <=> Misled)
      BY <1>5, <2>1, <2>4 DEF WaitInv, WaitOK, Misled
    <3>2. ASSUME ~Misled
          PROVE  /\ \A t \in Tests : ~Alive(t)'
                 /\ \A y \in zombies' : y[1] \notin Tests
      <4>1. z[1] = Entry /\ code[Entry] = z[2] /\ z[2] \in Dead
        BY <1>5, <2>1, <3>1, <3>2 DEF WaitInv, WaitOK
      <4>2. \A t \in Tests : ~Alive(t)'
        BY <1>5, <2>1, <3>2, <4>1 DEF WaitInv, WaitOK, Alive
      <4>3. ASSUME NEW y \in zombies', y[1] \in Tests PROVE FALSE
        <5>1. y[1] = Entry /\ code[Entry] = y[2]
          BY <1>5, <2>1, <3>2, <4>3 DEF WaitInv, WaitOK
        <5>2. y \in Tests \X Dead
          BY <1>5, <2>1, <4>3, TreeAssumption DEF WaitInv, WaitOK
        <5>3. y = z
          <6>1. y = <<y[1], y[2]>> /\ z = <<z[1], z[2]>>
            BY <1>5, <5>2
          <6>2. y[1] = z[1] /\ y[2] = z[2]
            BY <4>1, <5>1
          <6>3. QED
            BY <6>1, <6>2, Zenon
        <5>4. QED
          BY <2>1, <4>3, <5>3
      <4>4. QED
        BY <4>2, <4>3
    <3>3. QED
      BY <2>2, <3>1, <3>2 DEF WaitOK
  <2>5. QED
    BY <2>3, <2>4
<1>6. QED
  BY <1>1, <1>2, <1>3, <1>4, <1>5 DEF MainStep, WaitOK

LEMMA WaitStep == ASSUME WaitInv, [Next]_vars PROVE WaitInv'
<1>0. TypeInv' /\ code \in [Tests -> Phases]
  BY TypeStep DEF WaitInv, TypeInv, ProcsOK
<1> SUFFICES ASSUME Forking PROVE WaitOK'
  BY <1>0 DEF WaitInv, WaitOK
<1>1. ASSUME UNCHANGED <<code, zombies, helper>>,
             UNCHANGED main \/ (pc' = "stopped" /\ UNCHANGED stack)
      PROVE  WaitOK'
  BY <1>1, WaitKept DEF main, AtFork
<1>2. ASSUME NEW t \in Tests, NEW how \in Dead, Alive(t),
             code' = [code EXCEPT ![t] = how], zombies' = zombies \cup {<<t, how>>},
             UNCHANGED main, UNCHANGED helper
      PROVE  WaitOK'
  <2> DEFINE hit == {t}
  <2>1. code' = [u \in Tests |-> IF u \in hit THEN how ELSE code[u]]
    BY <1>0, <1>2
  <2>2. zombies' = zombies \cup (hit \X {how})
    BY <1>2
  <2>3. hit \in SUBSET Tests /\ \A u \in hit : Alive(u)
    BY <1>2
  <2> HIDE DEF hit
  <2>4. QED
    BY <1>2, <2>1, <2>2, <2>3, WaitEnds
<1>3. ASSUME NEW t \in Tests, NEW how \in Dead, Dies(t, how), code[t] \in Running \cup {"exiting"}
      PROVE  WaitOK'
  BY <1>2, <1>3 DEF Dies, Alive, Running, Dead
\* a test that goes on stays alive
<1>4. ASSUME NEW t \in Tests, Alive(t), NEW phase, code' = [code EXCEPT ![t] = phase],
             UNCHANGED <<main, zombies, helper>>
      PROVE  WaitOK'
  <2>1. \A u \in Tests : Alive(u)' => Alive(u)
    BY <1>0, <1>4 DEF Alive
  <2>2. ASSUME NEW z \in zombies, z[1] \in Tests, ~Misled, pc # "stopped"
        PROVE  code'[z[1]] = code[z[1]]
    <3>1. code[z[1]] = z[2] /\ z[2] \in Dead
      BY <2>2, TreeAssumption DEF WaitInv, WaitOK
    <3>2. z[1] # t
      BY <1>4, <3>1 DEF Alive
    <3>3. QED
      BY <1>0, <1>4, <2>2, <3>2
  <2>3. /\ Entry' = Entry /\ (Misled' <=> Misled) /\ (AtFork' <=> AtFork)
        /\ UNCHANGED <<pc, zombies, helper>>
    BY <1>4 DEF main, Entry, Top, Misled, AtFork
  <2>4. QED
    BY <2>1, <2>2, <2>3 DEF WaitInv, WaitOK
<1>5. ASSUME NEW t \in Tests, CodeStep(t) \/ CodeThrows(t) PROVE WaitOK'
  <2>1. CASE CodePanics(t)
    BY <1>3, <2>1 DEF CodePanics, Dead
  <2>2. CASE CodeAdvances(t) \/ CodeCompletes(t) \/ CodeThrows(t)
    <3>1. Alive(t)
      BY <2>2 DEF CodeAdvances, CodeCompletes, CodeThrows, Alive, Running, Dead
    <3>2. /\ \E phase : code' = [code EXCEPT ![t] = phase]
          /\ UNCHANGED <<main, zombies, helper>>
      BY <2>2 DEF CodeAdvances, CodeCompletes, CodeThrows
    <3>3. QED
      BY <1>4, <3>1, <3>2
  <2>3. QED
    BY <1>5, <2>1, <2>2 DEF CodeStep
<1>6. ASSUME NEW t \in Tests, NEW how \in {"exited", "signalled"}, ChildEnds(t, how) PROVE WaitOK'
  BY <1>2, <1>6 DEF ChildEnds, Alive, Dead
<1>7. ASSUME NEW t \in Tests, Alarm(t) \/ \E how \in Dead : CodeDies(t, how) PROVE WaitOK'
  BY <1>3, <1>7 DEF Alarm, CodeDies, Dead
<1>8. ASSUME NEW t \in Tests, NEW r \in {"pass", "fail", "skipped"}, CodeSends(t, r) PROVE WaitOK'
  <2>1. UNCHANGED <<code, zombies, helper>> /\ UNCHANGED main
    BY <1>8 DEF CodeSends, procs
  <2>2. QED
    BY <1>1, <2>1
<1>9. ASSUME (\E r \in {"pass", "fail"} : FixtureAsserts(r)) \/ UNCHANGED vars PROVE WaitOK'
  <2>1. UNCHANGED <<code, zombies, helper>> /\ UNCHANGED main
    BY <1>9 DEF FixtureAsserts, procs, vars
  <2>2. QED
    BY <1>1, <2>1
<1>10. ASSUME ForkFails PROVE WaitOK'
  BY <1>1, <1>10 DEF ForkFails, procs
<1>11. ASSUME HelperEnds PROVE WaitOK'
  <2>1. /\ helper = "running" /\ helper' = "ended" /\ UNCHANGED <<main, code>>
        /\ zombies' = zombies \cup {<<Main, "exited">>}
    BY <1>11 DEF HelperEnds
  <2>2. ~Misled /\ Entry' = Entry /\ pc' = pc /\ (AtFork' <=> AtFork)
    BY <2>1 DEF Misled, main, Entry, Top, AtFork
  <2>3. \A t \in Tests : Alive(t)' <=> Alive(t)
    BY <2>1 DEF Alive
  <2>4. \A z \in zombies' : z[1] \in Tests => z \in zombies
    BY <2>1, TreeAssumption
  <2>5. QED
    BY <2>1, <2>2, <2>3, <2>4 DEF WaitInv, WaitOK
<1>12. ASSUME Interrupt PROVE WaitOK'
  <2> DEFINE hit == {t \in Tests : Forking /\ code[t] \in Running \cup {"exiting"}}
  <2>1. /\ code' = [t \in Tests |-> IF t \in hit THEN "signalled" ELSE code[t]]
        /\ zombies' = zombies \cup (hit \X {"signalled"}) /\ helper' = helper
        /\ pc' # "stopped" => UNCHANGED main
    BY <1>12 DEF Interrupt, Stop
  <2>2. hit \in SUBSET Tests /\ \A t \in hit : Alive(t)
    BY DEF Alive, Running, Dead
  <2> HIDE DEF hit
  <2>3. "signalled" \in Dead
    BY DEF Dead
  <2>4. QED
    BY <2>1, <2>2, <2>3, WaitEnds
<1>13. QED
  BY <1>5, <1>6, <1>7, <1>8, <1>9, <1>10, <1>11, <1>12, WaitMain DEF Next

(* The main process reads the results of a test only after its process has *)
(* ended, and starts no test beside another, for any tree, whatever the    *)
(* tests do, until wait() takes a child that is not a test                 *)
(* (posix_runner_platform.c:75).                                           *)
THEOREM ReadsAfterTheEnd == Spec => []WaitsForTheTest
<1>1. WaitInv /\ [Next]_vars => WaitInv'
  BY WaitStep
<1>2. Init => WaitInv
  <2>1. Init => WaitOK
    BY DEF Init, WaitOK, Alive
  <2>2. QED
    BY <2>1, TypeInit DEF WaitInv
<1>3. WaitInv => WaitsForTheTest
  <2> SUFFICES ASSUME WaitInv, Forking, ~Misled, pc \notin {"forked", "waiting", "stopped"},
                      NEW t \in Tests
               PROVE  code[t] \in Dead \cup {"none"}
    BY DEF WaitsForTheTest
  <2>1. QED
    BY DEF WaitInv, WaitOK, Alive, AtFork
<1>4. QED
  BY <1>1, <1>2, <1>3, PTL DEF Spec
-----------------------------------------------------------------------------
(* What is read from the pipe, and so the exit status                      *)

\* no test sends anything after what closes it
Undisturbed == ExitHandlers = {} /\ Skippers = {}

Closing    == {"completion", "skipped"}
\* the test under way may be running, in a child or in the main process
AtCode     == AtFork \/ pc = "test"
\* the test or suite under way may still send results
MoreToCome == \/ pc \in {"loop", "setup", "teardown"}
              \/ AtCode /\ code[Entry] \in Running

\* without fork no test is a process, and none is waited for
NoProcess == ~Forking => ~AtFork /\ \A t \in Tests : code[t] \notin Dead \cup {"exiting"}

\* a message that closes a test or suite is the last, comes when no other can,
\* and the pipe holds what the test under way and the main process sent
PipeOK ==
  Undisturbed /\ ~Misled =>
    /\ \A j \in 1..Len(pipe) : pipe[j].result \in Closing => j = Len(pipe)
    /\ pc # "stopped" =>
         \A j \in 1..Len(pipe) :
           /\ pipe[j].from = Main \/ (InTest /\ pipe[j].from = Entry)
           /\ MoreToCome => pipe[j].result \notin Closing

PipeInv == WaitInv /\ NoProcess /\ PipeOK

\* once wait() has taken the other child, it has
LEMMA MisledForEver == ASSUME WaitInv, [Next]_vars, Misled PROVE Misled'
<1>1. ASSUME helper' = helper, zombies' \subseteq zombies \cup (Tests \X Dead) PROVE Misled'
  <2>1. <<Main, "exited">> \notin Tests \X Dead
    BY TreeAssumption
  <2>2. QED
    BY <1>1, <2>1 DEF Misled
<1>2. ASSUME NEW t \in Tests, NEW how \in Dead, Dies(t, how) PROVE Misled'
  BY <1>1, <1>2 DEF Dies
<1>3. ASSUME UNCHANGED <<helper, zombies>> PROVE Misled'
  BY <1>3 DEF Misled
<1>4. CASE MainStep
  <2>1. ASSUME NEW z \in (Tests \cup {Main}) \X Dead, WaitForChild(z) PROVE Misled'
    BY <1>1, <2>1 DEF WaitForChild
  <2>2. ASSUME EnterSubSuite \/ StartSubSuite \/ TeardownReturns \/ PassEntry \/ StartOwnTests
                 \/ SkipTest \/ RunTest \/ IgnoreCtrlC \/ ReadResult \/ FinishTest
                 \/ EndSuite \/ FinishSuite \/ MainPanics
        PROVE  Misled'
    BY <1>3, <2>2 DEF EnterSubSuite, StartSubSuite, TeardownReturns, PassEntry, StartOwnTests,
       SkipTest, RunTest, IgnoreCtrlC, ReadResult, FinishTest, EndSuite, FinishSuite, MainPanics, procs
  <2>3. QED
    BY <1>4, <2>1, <2>2 DEF MainStep
<1>5. ASSUME NEW t \in Tests,
             \/ CodeStep(t) \/ CodeThrows(t) \/ Alarm(t)
             \/ \E r \in {"pass", "fail", "skipped"} : CodeSends(t, r)
             \/ \E how \in Dead : CodeDies(t, how)
             \/ \E how \in {"exited", "signalled"} : ChildEnds(t, how)
      PROVE  Misled'
  <2>1. CASE CodePanics(t) \/ Alarm(t) \/ \E how \in Dead : CodeDies(t, how)
    <3>1. (\E how \in Dead : Dies(t, how)) \/ UNCHANGED procs
      BY <2>1 DEF CodePanics, Alarm, CodeDies, Dead
    <3>2. QED
      BY <1>2, <1>3, <3>1 DEF procs
  <2>2. CASE CodeAdvances(t) \/ CodeCompletes(t) \/ CodeThrows(t)
               \/ \E r \in {"pass", "fail", "skipped"} : CodeSends(t, r)
    BY <1>3, <2>2 DEF CodeAdvances, CodeCompletes, CodeThrows, CodeSends, procs
  <2>3. ASSUME NEW how \in {"exited", "signalled"}, ChildEnds(t, how) PROVE Misled'
    BY <1>1, <2>3 DEF ChildEnds, Dead
  <2>4. QED
    BY <1>5, <2>1, <2>2, <2>3 DEF CodeStep
<1>6. CASE Interrupt
  <2>1. helper' = helper /\ zombies' \subseteq zombies \cup (Tests \X Dead)
    BY <1>6 DEF Interrupt, Dead
  <2>2. QED
    BY <1>1, <2>1
<1>7. CASE HelperEnds
  BY <1>7 DEF HelperEnds, Misled
<1>8. CASE ForkFails \/ (\E r \in {"pass", "fail"} : FixtureAsserts(r)) \/ UNCHANGED vars
  BY <1>3, <1>8 DEF ForkFails, FixtureAsserts, vars, procs
<1>9. QED
  BY <1>4, <1>5, <1>6, <1>7, <1>8 DEF Next

\* a test that runs is the one under way, and may send more
LEMMA RunningIsUnderWay ==
  ASSUME PipeInv, Undisturbed, ~Misled, pc # "stopped", NEW t \in Tests,
         code[t] \in Running \cup {"exiting"}
  PROVE  AtCode /\ t = Entry /\ InTest /\ (code[t] \in Running => MoreToCome)
<1>1. CASE Forking
  BY <1>1 DEF PipeInv, WaitInv, WaitOK, Alive, Running, Dead, AtFork, AtCode, InTest, MoreToCome
<1>2. CASE ~Forking
  BY <1>2 DEF PipeInv, NoProcess, WaitInv, TypeInv, InProcessOK, AtCode, InTest, MoreToCome
<1>3. QED
  BY <1>1, <1>2

LEMMA PipeKept ==
  ASSUME PipeInv, Undisturbed, ~Misled, pipe' = pipe,
         pc' # "stopped" => /\ pc # "stopped"
                            /\ InTest => InTest' /\ Entry' = Entry
                            /\ MoreToCome' => MoreToCome
  PROVE  PipeOK'
BY DEF PipeInv, PipeOK

LEMMA PipeSends ==
  ASSUME PipeInv, Undisturbed, ~Misled, pc # "stopped", MoreToCome,
         NEW from \in Tests \cup {Main}, NEW r \in Results, Send(from, r),
         pc' # "stopped" => /\ from = Main \/ (InTest' /\ from = Entry')
                            /\ InTest => InTest' /\ Entry' = Entry
                            /\ MoreToCome' => r \notin Closing
  PROVE  PipeOK'
<1>1. /\ \A j \in 1..Len(pipe) : pipe[j].result \notin Closing
      /\ \A j \in 1..Len(pipe) : pipe[j].from = Main \/ (InTest /\ pipe[j].from = Entry)
  BY DEF PipeInv, PipeOK
<1>2. CASE Full
  BY <1>1, <1>2 DEF Send, PipeOK
<1>3. CASE ~Full
  <2> DEFINE m == [result |-> r, from |-> from]
  <2>1. m \in Message /\ pipe \in Seq(Message) /\ m.result = r /\ m.from = from
    BY DEF PipeInv, WaitInv, TypeInv, ChannelOK, Message
  <2>2. pipe' = Append(pipe, m)
    BY <1>3 DEF Send
  <2> HIDE DEF m
  <2>3. /\ Len(pipe) \in Nat /\ Len(pipe') = Len(pipe) + 1
        /\ \A j \in 1..Len(pipe) : pipe'[j] = pipe[j]
        /\ pipe'[Len(pipe) + 1] = m
    BY <2>1, <2>2
  <2>4. \A j \in 1..Len(pipe') : j = Len(pipe') \/ (j \in 1..Len(pipe) /\ pipe'[j] = pipe[j])
    BY <2>3
  <2>5. \A j \in 1..Len(pipe') : pipe'[j].result \in Closing => j = Len(pipe')
    BY <1>1, <2>4
  <2>6. ASSUME pc' # "stopped", NEW j \in 1..Len(pipe')
        PROVE  /\ pipe'[j].from = Main \/ (InTest' /\ pipe'[j].from = Entry')
               /\ MoreToCome' => pipe'[j].result \notin Closing
    <3>1. CASE j = Len(pipe')
      BY <2>1, <2>3, <2>6, <3>1
    <3>2. CASE j \in 1..Len(pipe) /\ pipe'[j] = pipe[j]
      BY <1>1, <2>6, <3>2
    <3>3. QED
      BY <2>4, <2>6, <3>1, <3>2
  <2>7. QED
    BY <2>5, <2>6 DEF PipeOK
<1>4. QED
  BY <1>2, <1>3

\* reading one result leaves the others as they were
LEMMA PipeRead ==
  ASSUME PipeInv, Undisturbed, ~Misled, pipe # <<>>, pipe' = Tail(pipe),
         UNCHANGED <<stack, pc, code>>
  PROVE  PipeOK'
<1>1. pipe \in Seq(Message)
  BY DEF PipeInv, WaitInv, TypeInv, ChannelOK
<1>0. Len(pipe) \in Nat /\ Len(pipe') = Len(pipe) - 1
  BY <1>1
<1>2. \A j \in 1..Len(pipe') : pipe'[j] = pipe[j + 1] /\ j + 1 \in 1..Len(pipe) /\ j \in Nat
  BY <1>1
<1>3. (InTest' <=> InTest) /\ Entry' = Entry /\ (MoreToCome' <=> MoreToCome)
  BY DEF InTest, Entry, Top, MoreToCome, AtCode, AtFork
<1>4. \A j \in 1..Len(pipe') : pipe'[j].result \in Closing => j = Len(pipe')
  <2>1. \A i \in 1..Len(pipe) : pipe[i].result \in Closing => i = Len(pipe)
    BY DEF PipeInv, PipeOK
  <2> TAKE j \in 1..Len(pipe')
  <2>2. pipe'[j] = pipe[j + 1] /\ j + 1 \in 1..Len(pipe) /\ j \in Nat
    BY <1>2
  <2>3. pipe'[j].result \in Closing => j + 1 = Len(pipe)
    BY <2>1, <2>2, Zenon
  <2>4. j + 1 = Len(pipe) => j = Len(pipe')
    <3>1. \A n, m, k \in Int : m = n - 1 /\ k + 1 = n => k = m
      OBVIOUS
    <3>2. Len(pipe) \in Int /\ Len(pipe') \in Int /\ j \in Int /\ Len(pipe') = Len(pipe) - 1
      BY <1>0, <2>2
    <3>3. QED
      BY <3>1, <3>2, Zenon
  <2>5. QED
    BY <2>3, <2>4, Zenon
<1>5. ASSUME pc' # "stopped", NEW j \in 1..Len(pipe')
      PROVE  /\ pipe'[j].from = Main \/ (InTest' /\ pipe'[j].from = Entry')
             /\ MoreToCome' => pipe'[j].result \notin Closing
  <2>1. /\ pipe[j + 1].from = Main \/ (InTest /\ pipe[j + 1].from = Entry)
        /\ MoreToCome => pipe[j + 1].result \notin Closing
    BY <1>2, <1>5 DEF PipeInv, PipeOK
  <2>2. QED
    BY <1>2, <1>3, <2>1
<1>6. QED
  BY <1>4, <1>5 DEF PipeOK

\* what closes a test or suite, or nothing, is read when the pipe holds no more
LEMMA NothingLeft ==
  ASSUME PipeInv, Undisturbed, ~Misled, LastRead
  PROVE  Unread = <<>>
<1>1. CASE pipe = <<>>
  BY <1>1 DEF Unread
<1>2. CASE pipe # <<>>
  <2>1. pipe \in Seq(Message) /\ Head(pipe).result \in Closing
    <3>1. pipe \in Seq(Message)
      BY DEF PipeInv, WaitInv, TypeInv, ChannelOK
    <3>2. Head(pipe) \in Message
      BY <1>2, <3>1
    <3>3. Head(pipe).result \in {"skipped", "completion", "nothing"}
      BY <1>2 DEF LastRead, NextResult
    <3>4. Head(pipe).result # "nothing"
      BY <3>2 DEF Message, Results
    <3>5. QED
      BY <3>1, <3>3, <3>4 DEF Closing
  <2>2. Head(pipe) = pipe[1] /\ 1 \in 1..Len(pipe)
    BY <1>2, <2>1
  <2>3. Len(pipe) = 1
    BY <2>1, <2>2 DEF PipeInv, PipeOK
  <2>4. Tail(pipe) = <<>>
    <3>1. Tail(pipe) \in Seq(Message) /\ Len(Tail(pipe)) = 0
      BY <1>2, <2>1, <2>3
    <3>2. QED
      BY <3>1, EmptySeq
  <2>5. QED
    BY <1>2, <2>4 DEF Unread
<1>3. QED
  BY <1>1, <1>2

LEMMA PipeMain == ASSUME PipeInv, Undisturbed, ~Misled, MainStep PROVE PipeOK'
<1>1. ASSUME EnterSubSuite \/ StartSubSuite \/ TeardownReturns \/ PassEntry \/ StartOwnTests
      PROVE  PipeOK'
  <2>1. /\ pc \in {"loop", "setup", "teardown"} /\ pipe' = pipe
    BY <1>1 DEF EnterSubSuite, StartSubSuite, TeardownReturns, PassEntry, StartOwnTests, InLoop, channel
  <2>2. ~InTest /\ MoreToCome /\ pc # "stopped"
    BY <2>1 DEF InTest, MoreToCome
  <2>3. QED
    BY <2>1, <2>2, PipeKept
<1>2. ASSUME SkipTest PROVE PipeOK'
  <2>1. pc = "loop" /\ pc' = "reading" /\ Send(Main, "skipped")
    BY <1>2 DEF SkipTest, AtTest, StartTest
  <2>2. ~InTest /\ MoreToCome /\ ~MoreToCome' /\ pc # "stopped"
    BY <2>1 DEF InTest, MoreToCome, AtCode, AtFork
  <2>3. QED
    BY <2>1, <2>2, PipeSends DEF Results
<1>3. ASSUME RunTest PROVE PipeOK'
  <2>1. pc = "loop" /\ pipe' = pipe
    BY <1>3 DEF RunTest, AtTest, channel
  <2>2. ~InTest /\ MoreToCome /\ pc # "stopped"
    BY <2>1 DEF InTest, MoreToCome
  <2>3. QED
    BY <2>1, <2>2, PipeKept
<1>4. ASSUME IgnoreCtrlC PROVE PipeOK'
  <2>1. pc = "forked" /\ pc' = "waiting" /\ pipe' = pipe /\ UNCHANGED <<stack, code>>
    BY <1>4 DEF IgnoreCtrlC, Goto, procs, channel
  <2>2. InTest' /\ Entry' = Entry /\ (MoreToCome' => MoreToCome)
    BY <2>1 DEF InTest, Entry, Top, MoreToCome, AtCode, AtFork
  <2>3. QED
    BY <2>1, <2>2, PipeKept
<1>5. ASSUME NEW z \in (Tests \cup {Main}) \X Dead, WaitForChild(z) PROVE PipeOK'
  <2>1. pc = "waiting" /\ pc' = "reading" /\ pipe' = pipe /\ UNCHANGED stack
    BY <1>5 DEF WaitForChild, Goto, channel
  <2>2. InTest' /\ Entry' = Entry /\ ~MoreToCome'
    BY <2>1 DEF InTest, Entry, Top, MoreToCome, AtCode, AtFork
  <2>3. QED
    BY <2>1, <2>2, PipeKept
<1>6. ASSUME ReadResult PROVE PipeOK'
  <2>1. pipe # <<>> /\ pipe' = Tail(pipe) /\ UNCHANGED <<stack, pc, code>>
    BY <1>6 DEF ReadResult, NextResult, Unread, main, procs
  <2>2. QED
    BY <2>1, PipeRead
<1>7. ASSUME FinishTest \/ FinishSuite PROVE PipeOK'
  <2>1. pipe' = <<>>
    BY <1>7, NothingLeft DEF FinishTest, FinishSuite
  <2>2. QED
    BY <2>1 DEF PipeOK
<1>8. ASSUME EndSuite PROVE PipeOK'
  <2>1. pc = "loop" /\ pc' = "reading_suite" /\ Send(Main, "completion")
    BY <1>8 DEF EndSuite, InLoop, Goto
  <2>2. ~InTest /\ MoreToCome /\ ~MoreToCome' /\ pc # "stopped"
    BY <2>1 DEF InTest, MoreToCome, AtCode, AtFork
  <2>3. QED
    BY <2>1, <2>2, PipeSends DEF Results
<1>9. ASSUME MainPanics PROVE PipeOK'
  BY <1>9, PipeKept DEF MainPanics, Stop
<1>10. QED
  BY <1>1, <1>2, <1>3, <1>4, <1>5, <1>6, <1>7, <1>8, <1>9 DEF MainStep

LEMMA ProcessStep == ASSUME TypeInv, NoProcess, [Next]_vars PROVE NoProcess'
<1>14. ASSUME ~Forking PROVE ~AtFork'
  <2>1. ~AtFork
    BY <1>14 DEF NoProcess
  <2>2. QED
    BY <1>14, <2>1 DEF AtFork, Next, MainStep, CodeStep, EnterSubSuite, StartSubSuite, TeardownReturns,
       PassEntry, StartOwnTests, SkipTest, RunTest, StartTest, IgnoreCtrlC, WaitForChild, ReadResult,
       FinishTest, EndSuite, FinishSuite, MainPanics, FixtureAsserts, CodeAdvances, CodeCompletes,
       CodePanics, CodeThrows, CodeSends, CodeDies, Alarm, Dies, ChildEnds, ForkFails, HelperEnds,
       Interrupt, Goto, Stop, vars, main
<1> SUFFICES ASSUME ~Forking, NEW t \in Tests, code'[t] \in Dead \cup {"exiting"} PROVE FALSE
  BY <1>14 DEF NoProcess
<1>1. code \in [Tests -> Phases] /\ code[t] \notin Dead \cup {"exiting"}
  BY DEF TypeInv, ProcsOK, NoProcess
<1>2. ASSUME NEW u \in Tests, NEW c, code' = [code EXCEPT ![u] = c] PROVE c \in Dead \cup {"exiting"}
  BY <1>1, <1>2
<1>3. CASE code' = code
  BY <1>1, <1>3
<1>4. ASSUME NEW u \in Tests, NEW how, Dies(u, how) PROVE FALSE
  BY <1>3, <1>4 DEF Dies
<1>5. CASE MainStep
  <2>1. CASE RunTest
    <3>1. Entry \in Tests /\ code' = [code EXCEPT ![Entry] = "setup"]
      BY <2>1 DEF RunTest, AtTest
    <3>2. "setup" \notin Dead \cup {"exiting"}
      BY DEF Dead
    <3>3. QED
      BY <1>2, <3>1, <3>2
  <2>2. QED
    BY <1>3, <1>5, <2>1 DEF MainStep, EnterSubSuite, StartSubSuite, TeardownReturns, PassEntry,
       StartOwnTests, SkipTest, IgnoreCtrlC, WaitForChild, ReadResult, FinishTest, EndSuite,
       FinishSuite, MainPanics, procs
<1>6. ASSUME NEW u \in Tests, CodeAdvances(u) \/ CodeThrows(u) PROVE FALSE
  <2>1. code' = [code EXCEPT ![u] = NextPhase(u)]
    BY <1>6 DEF CodeAdvances, CodeThrows
  <2>2. NextPhase(u) \notin Dead \cup {"exiting"}
    BY DEF NextPhase, Dead
  <2>3. QED
    BY <1>2, <2>1, <2>2
<1>7. ASSUME NEW u \in Tests, CodeCompletes(u) PROVE FALSE
  <2>1. code' = [code EXCEPT ![u] = "returned"] /\ "returned" \notin Dead \cup {"exiting"}
    BY <1>7 DEF CodeCompletes, Dead
  <2>2. QED
    BY <1>2, <2>1
<1>8. ASSUME NEW u \in Tests, CodePanics(u) \/ \E how \in Dead : CodeDies(u, how) PROVE FALSE
  BY <1>4, <1>8 DEF CodePanics, CodeDies
<1>9. ASSUME NEW u \in Tests, Alarm(u) \/ \E r \in {"pass", "fail", "skipped"} : CodeSends(u, r)
      PROVE  FALSE
  BY <1>3, <1>9 DEF Alarm, CodeSends, procs
<1>10. ASSUME NEW u \in Tests, NEW how \in {"exited", "signalled"}, ChildEnds(u, how) PROVE FALSE
  BY <1>10 DEF ChildEnds, NoProcess
<1>11. CASE Interrupt
  BY <1>1, <1>11 DEF Interrupt
<1>12. CASE ForkFails \/ HelperEnds \/ (\E r \in {"pass", "fail"} : FixtureAsserts(r)) \/ UNCHANGED vars
  BY <1>3, <1>12 DEF ForkFails, HelperEnds, FixtureAsserts, vars, procs
<1>13. QED
  BY <1>5, <1>6, <1>7, <1>8, <1>9, <1>10, <1>11, <1>12 DEF Next, CodeStep

LEMMA PipeStep == ASSUME PipeInv, [Next]_vars PROVE PipeInv'
<1>0. WaitInv' /\ code \in [Tests -> Phases]
  BY WaitStep DEF PipeInv, WaitInv, TypeInv, ProcsOK
<1>1. ASSUME Undisturbed, Misled PROVE PipeOK'
  BY <1>1, MisledForEver DEF PipeInv, PipeOK
<1>16. NoProcess'
  BY ProcessStep DEF PipeInv, WaitInv
<1> SUFFICES ASSUME Undisturbed, ~Misled PROVE PipeOK'
  BY <1>0, <1>1, <1>16 DEF PipeInv, PipeOK
\* test code that ends, or goes on, without sending
<1>2. ASSUME pipe' = pipe, UNCHANGED main \/ pc' = "stopped",
             \A t \in Tests : code'[t] \in Running => code[t] \in Running
      PROVE  PipeOK'
  <2>1. CASE pc' = "stopped"
    BY <1>2, <2>1, PipeKept
  <2>2. CASE UNCHANGED main
    <3>1. UNCHANGED <<stack, pc>> /\ (InTest' <=> InTest) /\ Entry' = Entry /\ (AtCode' <=> AtCode)
      BY <2>2 DEF main, InTest, Entry, Top, AtFork, AtCode
    <3>2. AtCode => Entry \in Tests
      BY DEF PipeInv, WaitInv, TypeInv, MainOK, AtFork, AtCode, InTest
    <3>3. MoreToCome' => MoreToCome
      BY <1>2, <3>1, <3>2 DEF MoreToCome
    <3>4. QED
      BY <1>2, <3>1, <3>3, PipeKept
  <2>3. QED
    BY <1>2, <2>1, <2>2
<1>3. ASSUME NEW t \in Tests, NEW how \in Dead, Dies(t, how) PROVE PipeOK'
  <2>1. CASE Forking
    <3>1. pipe' = pipe /\ UNCHANGED main /\ code' = [code EXCEPT ![t] = how]
      BY <1>3, <2>1 DEF Dies
    <3>2. how \notin Running
      BY DEF Running, Dead
    <3>3. QED
      BY <1>0, <1>2, <3>1, <3>2
  <2>2. CASE ~Forking
    BY <1>2, <1>3, <2>2 DEF Dies, Stop
  <2>3. QED
    BY <2>1, <2>2
<1>4. ASSUME NEW t \in Tests, CodePanics(t) \/ Alarm(t) \/ \E how \in Dead : CodeDies(t, how)
      PROVE  PipeOK'
  <2>1. (\E how \in Dead : Dies(t, how)) \/ (Stop("success") /\ UNCHANGED <<procs, channel>>)
    BY <1>4 DEF CodePanics, Alarm, CodeDies, Dead
  <2>2. QED
    BY <1>2, <1>3, <2>1 DEF Stop, procs, channel
<1>5. ASSUME NEW t \in Tests, NEW how \in {"exited", "signalled"}, ChildEnds(t, how) PROVE PipeOK'
  <2>1. pipe' = pipe /\ UNCHANGED main /\ code' = [code EXCEPT ![t] = how] /\ how \notin Running
    BY <1>5 DEF ChildEnds, channel, Running
  <2>2. QED
    BY <1>0, <1>2, <2>1
<1>6. ASSUME NEW t \in Tests, CodeAdvances(t) PROVE PipeOK'
  <2>1. pipe' = pipe /\ UNCHANGED main /\ code[t] \in Running
        /\ \E phase : code' = [code EXCEPT ![t] = phase]
    BY <1>6 DEF CodeAdvances, channel
  <2>2. QED
    BY <1>0, <1>2, <2>1
\* test code that sends
<1>7. ASSUME NEW t \in Tests, code[t] \in Running, pc # "stopped",
             NEW r \in Results, Send(t, r), UNCHANGED main,
             r \in Closing => code'[t] \notin Running
      PROVE  PipeOK'
  <2>1. AtCode /\ t = Entry /\ InTest /\ MoreToCome
    BY <1>7, RunningIsUnderWay
  <2>2. pc' = pc /\ InTest' /\ Entry' = Entry
    BY <1>7, <2>1 DEF main, InTest, Entry, Top
  <2>3. MoreToCome' => r \notin Closing
    BY <1>7, <2>1, <2>2 DEF MoreToCome, AtCode, AtFork
  <2>4. QED
    BY <1>7, <2>1, <2>2, <2>3, PipeSends
<1>8. ASSUME NEW t \in Tests, NEW r \in {"pass", "fail", "skipped"}, CodeSends(t, r) PROVE PipeOK'
  <2>1. r \in Results /\ r \notin Closing /\ code[t] \in Running
    BY <1>8 DEF CodeSends, Undisturbed, Results, Closing
  <2>2. QED
    BY <1>7, <1>8, <2>1 DEF CodeSends
<1>9. ASSUME NEW t \in Tests, CodeThrows(t) PROVE PipeOK'
  BY <1>7, <1>9 DEF CodeThrows, Results, Closing
<1>10. ASSUME NEW t \in Tests, CodeCompletes(t) PROVE PipeOK'
  <2>1. /\ code[t] \in Running /\ code' = [code EXCEPT ![t] = IF Forking THEN "exiting" ELSE "returned"]
        /\ pc # "stopped" /\ Send(t, "completion") /\ "completion" \in Results
    BY <1>10 DEF CodeCompletes, Running, Results
  <2>2. CASE Forking
    <3>1. UNCHANGED main
      BY <1>10, <2>2 DEF CodeCompletes
    <3>2. code'[t] \notin Running
      BY <1>0, <2>1, <2>2 DEF Running
    <3>3. QED
      BY <1>7, <2>1, <3>1, <3>2
  <2>3. CASE ~Forking
    <3>1. pc' = "reading" /\ UNCHANGED stack
      BY <1>10, <2>3 DEF CodeCompletes, Goto
    <3>2. t = Entry /\ MoreToCome /\ InTest' /\ Entry' = Entry /\ ~MoreToCome'
      BY <2>1, <3>1, RunningIsUnderWay DEF InTest, Entry, Top, MoreToCome, AtCode, AtFork
    <3>3. QED
      BY <2>1, <3>2, PipeSends
  <2>4. QED
    BY <2>2, <2>3
\* the main process and the rest of the world
<1>11. ASSUME NEW r \in {"pass", "fail"}, FixtureAsserts(r) PROVE PipeOK'
  <2>1. pc \in {"setup", "teardown"} /\ Send(Main, r) /\ UNCHANGED main
    BY <1>11 DEF FixtureAsserts
  <2>2. ~InTest /\ MoreToCome /\ pc # "stopped" /\ r \in Results /\ r \notin Closing
    BY <2>1 DEF InTest, MoreToCome, Results, Closing
  <2>3. QED
    BY <2>1, <2>2, PipeSends
<1>12. ASSUME ForkFails PROVE PipeOK'
  BY <1>12, PipeKept DEF ForkFails, channel
<1>13. ASSUME HelperEnds \/ UNCHANGED vars PROVE PipeOK'
  BY <1>2, <1>13 DEF HelperEnds, channel, vars, procs
<1>14. ASSUME Interrupt PROVE PipeOK'
  <2>1. pipe' = pipe /\ (UNCHANGED main \/ pc' = "stopped")
        /\ \A t \in Tests : code'[t] = code[t] \/ code'[t] = "signalled"
    BY <1>14 DEF Interrupt, Stop
  <2>2. "signalled" \notin Running
    BY DEF Running
  <2>3. QED
    BY <1>2, <2>1, <2>2
<1>15. QED
  BY <1>4, <1>5, <1>6, <1>8, <1>9, <1>10, <1>11, <1>12, <1>13, <1>14, PipeMain DEF Next, CodeStep

LEMMA PipeInit == Init => PipeInv
<1>1. Init => WaitInv
  BY TypeInit DEF Init, WaitInv, WaitOK, Alive
<1>2. Init => PipeOK
  BY DEF Init, PipeOK
<1>3. Init => NoProcess
  BY DEF Init, NoProcess, AtFork, Dead
<1>4. QED
  BY <1>1, <1>2, <1>3 DEF PipeInv

(* For any tree and capacity, a completion is the last message in the pipe *)
(* if no exit handler of a test asserts and no test calls skip_test(),     *)
(* until wait() takes a child that is no test (reporter.c:215).            *)
THEOREM NothingFollowsACompletion == ASSUME Undisturbed PROVE Spec => []CompletionIsLast
<1>1. PipeInv /\ [Next]_vars => PipeInv'
  BY PipeStep
<1>2. PipeInv => CompletionIsLast
  BY DEF PipeInv, PipeOK, CompletionIsLast, Closing
<1>3. QED
  BY <1>1, <1>2, PipeInit, PTL DEF Spec

(* Then no test can write into the result of another, either.              *)
THEOREM ResultsAreTheTests == ASSUME Undisturbed PROVE Spec => []OwnResults
<1>1. PipeInv /\ [Next]_vars => PipeInv'
  BY PipeStep
<1>2. PipeInv => OwnResults
  BY DEF PipeInv, PipeOK, OwnResults
<1>3. QED
  BY <1>1, <1>2, PipeInit, PTL DEF Spec
-----------------------------------------------------------------------------
\* nobody ends the runner with an exit status while tests are under way
OnlyRunnerExits == Forking \/ (~Timeout /\ "exited" \notin Endings)

\* when the run has its exit status, every result sent is in the totals
SumOK ==
  Undisturbed /\ OnlyRunnerExits /\ ~Helper =>
    /\ helper = "none"
    /\ status \in {"success", "failure"} =>
         pc = "stopped" /\ stack = <<>> /\ pipe = <<>> /\ status = Verdict(total)

SumInv == PipeInv /\ Conservation /\ SumOK

LEMMA SumStep == ASSUME SumInv, [Next]_vars PROVE SumInv'
<1>1. PipeInv' /\ Conservation' /\ TypeInv
  BY PipeStep, ConservationStep DEF SumInv, PipeInv, WaitInv
<1> SUFFICES ASSUME Undisturbed, OnlyRunnerExits, ~Helper PROVE SumOK'
  BY <1>1 DEF SumInv, SumOK
<1> USE DEF SumInv, SumOK
<1>2. helper' = "none" /\ ~Misled
  <2>1. ~HelperEnds /\ helper = "none"
    BY DEF HelperEnds
  <2>2. helper' = helper
    BY <2>1 DEF Next, MainStep, CodeStep, EnterSubSuite, StartSubSuite, TeardownReturns, PassEntry,
       StartOwnTests, SkipTest, RunTest, IgnoreCtrlC, WaitForChild, ReadResult, FinishTest, EndSuite,
       FinishSuite, MainPanics, FixtureAsserts, CodeAdvances, CodeCompletes, CodePanics, CodeThrows,
       CodeSends, CodeDies, Alarm, Dies, ChildEnds, ForkFails, Interrupt, vars, procs
  <2>3. QED
    BY <2>1, <2>2 DEF Misled
<1>3. CASE status \in {"success", "failure"}
  <2>1. UNCHANGED <<pc, stack, status, pipe, total>>
    <3>1. pc = "stopped"
      BY <1>3
    <3>2. CASE \E t \in Tests : \E how \in {"exited", "signalled"} : ChildEnds(t, how)
      BY <3>2 DEF ChildEnds, main, book, channel
    <3>3. CASE UNCHANGED vars
      BY <3>3 DEF vars, main, book, channel
    <3>4. QED
      BY <3>1, <3>2, <3>3 DEF Next, MainStep, CodeStep, EnterSubSuite, StartSubSuite, TeardownReturns,
         PassEntry, InLoop, AtTest, StartOwnTests, SkipTest, RunTest, IgnoreCtrlC, WaitForChild,
         ReadResult, FinishTest, EndSuite, FinishSuite, MainPanics, FixtureAsserts, CodeAdvances,
         CodeCompletes, CodePanics, CodeThrows, CodeSends, CodeDies, Alarm, ForkFails, HelperEnds,
         Interrupt
  <2>2. QED
    BY <1>2, <1>3, <2>1 DEF Verdict
<1>4. CASE status \notin {"success", "failure"}
  <2>1. CASE FinishSuite
    <3>1. pipe' = <<>>
      BY <1>2, <2>1, NothingLeft DEF FinishSuite
    <3>2. CASE Len(stack) = 1
      <4>1. status' = Verdict(total') /\ pc' = "stopped" /\ stack' = DropLast(stack)
        BY <2>1, <3>2 DEF FinishSuite
      <4>2. stack' = <<>>
        BY <1>1, <3>2, <4>1, DropLastType DEF TypeInv, MainOK, DropLast
      <4>3. QED
        BY <1>2, <3>1, <4>1, <4>2 DEF Verdict
    <3>3. CASE Len(stack) # 1
      BY <1>2, <1>4, <2>1, <3>3 DEF FinishSuite
    <3>4. QED
      BY <3>2, <3>3
  <2>2. CASE ~FinishSuite
    <3>1. ASSUME NEW t \in Tests, NEW how \in Dead, Dies(t, how), how = "exited" => Forking
          PROVE  UNCHANGED status \/ status' \in {"signalled", "died"}
      BY <3>1 DEF Dies, Stop, main
    <3>2. CASE UNCHANGED status \/ status' \in {"signalled", "died"}
      BY <1>2, <1>4, <3>2
    <3>3. CASE MainStep
      BY <2>2, <3>2, <3>3 DEF MainStep, EnterSubSuite, StartSubSuite, TeardownReturns, PassEntry,
         StartOwnTests, SkipTest, RunTest, StartTest, IgnoreCtrlC, WaitForChild, ReadResult,
         FinishTest, EndSuite, MainPanics, Goto, Stop, main
    <3>4. ASSUME NEW t \in Tests, CodePanics(t) \/ Alarm(t) \/ \E how \in Dead : CodeDies(t, how)
          PROVE  UNCHANGED status \/ status' \in {"signalled", "died"}
      <4>1. \E how \in Dead : Dies(t, how) /\ (how = "exited" => Forking)
        BY <3>4 DEF CodePanics, Alarm, CodeDies, Dead, OnlyRunnerExits
      <4>2. QED
        BY <3>1, <4>1
    <3>5. ASSUME NEW t \in Tests, CodeAdvances(t) \/ CodeThrows(t) \/ CodeCompletes(t)
                   \/ (\E r \in {"pass", "fail", "skipped"} : CodeSends(t, r))
                   \/ (\E how \in {"exited", "signalled"} : ChildEnds(t, how))
          PROVE  status' = status
      BY <3>5 DEF CodeAdvances, CodeThrows, CodeCompletes, CodeSends, ChildEnds, Goto, main
    <3>6. CASE ForkFails \/ HelperEnds \/ Interrupt \/ (\E r \in {"pass", "fail"} : FixtureAsserts(r))
               \/ UNCHANGED vars
      BY <3>2, <3>6 DEF ForkFails, HelperEnds, Interrupt, FixtureAsserts, Stop, main, vars
    <3>7. QED
      BY <3>2, <3>3, <3>4, <3>5, <3>6 DEF Next, CodeStep
  <2>3. QED
    BY <2>1, <2>2
<1>5. QED
  BY <1>3, <1>4

LEMMA SumsTell == ASSUME SumInv, Undisturbed, OnlyRunnerExits, ~Helper PROVE StatusIsTheSum
<1> SUFFICES ASSUME status \in {"success", "failure"} PROVE StatusIsTheSum
  BY DEF StatusIsTheSum
<1>1. stack = <<>> /\ pipe = <<>> /\ status = Verdict(total)
  BY DEF SumInv, SumOK
<1>2. \A k \in Kinds : Unbooked(k) = 0 /\ InPipe(k) = 0
  BY <1>1, CountEmpty DEF Unbooked, InPipe
<1>3. total \in [Kinds -> Nat] /\ sent \in [Results -> Nat] /\ Incompletes \in Nat
  BY CountType DEF SumInv, PipeInv, WaitInv, TypeInv, BookOK, ChannelOK, Incompletes
<1>4. "fail" \in Kinds /\ "exception" \in Kinds /\ "fail" \in Results /\ "exception" \in Results
  BY DEF Kinds, Results
<1>5. sent["fail"] = total["fail"] /\ sent["exception"] + Incompletes = total["exception"]
  BY <1>2, <1>3, <1>4 DEF SumInv, Conservation
<1>6. QED
  BY <1>1, <1>5 DEF StatusIsTheSum, Verdict

LEMMA SumInit == Init => SumInv
  BY PipeInit, ConservationInit DEF Init, SumInv, SumOK

(* For any tree and capacity, with and without fork, without exit handlers *)
(* that assert, calls of skip_test() and children that are no tests, the   *)
(* exit status is that of all results sent and of all tests that did not   *)
(* complete (runner.c:44), if test code cannot end the runner with one.    *)
THEOREM StatusCountsEveryResult ==
  ASSUME Undisturbed, OnlyRunnerExits, ~Helper PROVE Spec => []StatusIsTheSum
<1>1. Init => SumInv
  BY SumInit
<1>2. SumInv /\ [Next]_vars => SumInv'
  BY SumStep
<1>3. SumInv => StatusIsTheSum
  BY SumsTell
<1>4. QED
  BY <1>1, <1>2, <1>3, PTL DEF Spec
=============================================================================
