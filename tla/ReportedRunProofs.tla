-------------------------- MODULE ReportedRunProofs --------------------------
(***************************************************************************)
(* Theorems about runs with a reporter: what the reporters write is what   *)
(* happened, for any suite tree and any tests.                             *)
(***************************************************************************)
EXTENDS ReportedRun, OutcomeProofs, Induction

\* a reporter that neither crashes nor hangs
Plain == kind \in {"text", "quiet", "cute", "cdash"}

-----------------------------------------------------------------------------
(* A run with a reporter is a run                                          *)

LEMMA PlainSuite ==
  ASSUME Plain, StartsSuite
  PROVE  StartSubSuite /\ InParent(SuiteStarted(Parent, trail')) /\ UNCHANGED <<kind, child, shown>>
<1>1. \A own : ~Crashed(own)
  BY DEF Plain, Crashed
<1>2. StartSubSuite /\ UNCHANGED <<kind, child, shown>>
  BY <1>1 DEF StartsSuite
<1>3. trail' = Append(trail, Entry)
  BY <1>2 DEF StartSubSuite
<1>4. InParent(SuiteStarted(Parent, Append(trail, Entry)))
  BY DEF StartsSuite
<1>5. QED
  BY <1>2, <1>3, <1>4

LEMMA PlainFixture ==
  ASSUME Plain, NEW r, NEW m, FixtureReports(r, m)
  PROVE  /\ pc \in {"setup", "teardown"} /\ UNCHANGED <<kind, child, shown>>
         /\ FixtureAsserts(r)
         /\ \E st \in Shown(Parent, trail, r, 0, m) : FixtureAsserts(r) /\ InParent(st)
<1>1. \A own : ~Crashed(own) /\ ~Hung(own)
  BY DEF Plain, Crashed, Hung
<1>2. QED
  BY <1>1 DEF FixtureReports

LEMMA RunSteps == ASSUME Plain, [ReportNext]_allvars PROVE [Next]_vars /\ kind' = kind
<1>1. ~Crashed(parent') /\ \A own : ~Crashed(own) /\ ~Hung(own)
  BY DEF Plain, Crashed, Hung
<1>2. CASE MainGoesOn
  <2>1. CASE StartsSuite \/ SkipsTest \/ Forks \/ Finishes \/ FinishesSuite
    BY <2>1, PlainSuite DEF SkipsTest, Forks, Finishes, FinishesSuite, Next, MainStep
  <2>2. CASE Silent /\ ~(StartsSuite \/ SkipsTest \/ Forks \/ Finishes \/ FinishesSuite)
    <3>1. MainStep
      BY <1>2, <2>2 DEF MainGoesOn, MainStep
    <3>2. QED
      BY <2>2, <3>1 DEF Next, Silent, output
  <2>3. QED
    BY <1>2, <2>1, <2>2 DEF MainGoesOn
<1>3. ASSUME NEW r \in {"pass", "fail"}, NEW m, FixtureReports(r, m) PROVE Next /\ kind' = kind
  <2>1. FixtureAsserts(r) /\ kind' = kind
    BY <1>3, PlainFixture
  <2>2. QED
    BY <2>1 DEF Next
<1>4. ASSUME NEW t \in Tests, TestStep(t) PROVE Next /\ kind' = kind
  <2>1. CASE TestGoesOn(t) \/ TestThrows(t)
    BY <2>1 DEF TestGoesOn, TestThrows, Silent, output, Next, CodeStep
  <2>2. CASE TestExits(t)
    BY <2>2 DEF TestExits, Next, Dead
  <2>3. ASSUME NEW r \in {"pass", "fail"}, NEW m, TestReports(t, r, m) PROVE Next /\ kind' = kind
    <3>1. CodeSends(t, r) /\ kind' = kind
      BY <1>1, <2>3 DEF TestReports
    <3>2. QED
      BY <3>1 DEF Next
  <2>4. ASSUME NEW how \in Signals, NEW m, TestKilled(t, how) \/ TestKilledReporting(t, how, m)
        PROVE  Next /\ kind' = kind
    BY <2>4 DEF TestKilled, TestKilledReporting, Signals, Next, Dead
  <2>5. QED
    BY <1>4, <2>1, <2>2, <2>3, <2>4 DEF TestStep
<1>5. CASE UNCHANGED allvars
  BY <1>5 DEF allvars, output
<1>6. QED
  BY <1>2, <1>3, <1>4, <1>5 DEF ReportNext

LEMMA KindStays == [ReportNext]_allvars => kind' = kind
BY DEF ReportNext, MainGoesOn, StartsSuite, SkipsTest, Forks, Finishes, FinishesSuite, FixtureReports,
   TestStep, TestGoesOn, TestThrows, TestExits, TestReports, TestKilled, TestKilledReporting, Silent,
   output, allvars

RunInv == PathInv /\ SumInv

LEMMA RunInit == ReportInit => RunInv
  BY PathInit, SumInit DEF ReportInit, RunInv

LEMMA RunStep == ASSUME RunInv, Plain, [ReportNext]_allvars PROVE RunInv'
  BY RunSteps, PathStep, SumStep DEF RunInv

-----------------------------------------------------------------------------
(* The path of a suite or test                                             *)

Named == Suites \cup Tests
Names == Seq(Named)

\* Path is defined by recursion, which ends in a finite tree
LEMMA PathIs ==
  ASSUME NEW depth, NEW height \in Nat, IsTree(depth, height)
  PROVE  \A e \in Named : Path[e] = IF e = Root THEN <<e>> ELSE Append(Path[Owner(e)], e)
<1> DEFINE n == height + 2
           G(F) == [e \in Named |-> IF e = Root THEN <<e>> ELSE Append(F[Owner(e)], e)]
           I == [i \in 0..n |-> [Named -> Names]]
           a == [e \in Named |-> <<>>]
           g == [q \in (1..n) \X [Named -> Names] |-> G(q[2])]
<1>1. \A e \in Named \ {Root} : Owner(e) \in Named /\ depth[Owner(e)] < depth[e]
  <2> SUFFICES ASSUME NEW e \in Named \ {Root}
               PROVE  Owner(e) \in Named /\ depth[Owner(e)] < depth[e]
    OBVIOUS
  <2>1. PICK s \in Suites : \E i \in DOMAIN Entries[s] : Entries[s][i] = e
    BY DEF IsTree, Named
  <2>2. Owner(e) = s /\ depth[s] < depth[e]
    BY <2>1 DEF IsTree
  <2>3. QED
    BY <2>2 DEF Named
<1>2. depth \in [Named -> 0..height]
  BY DEF IsTree, Named
<1>3. \A F \in [Named -> Names] : G(F) \in [Named -> Names]
  <2> SUFFICES ASSUME NEW F \in [Named -> Names], NEW e \in Named
               PROVE  (IF e = Root THEN <<e>> ELSE Append(F[Owner(e)], e)) \in Names
    OBVIOUS
  <2>1. CASE e = Root
    BY <2>1 DEF Names
  <2>2. CASE e # Root
    <3>1. F[Owner(e)] \in Seq(Named)
      BY <1>1, <2>2 DEF Names
    <3>2. Append(F[Owner(e)], e) \in Seq(Named)
      BY <3>1, AppendProperties
    <3>3. QED
      BY <2>2, <3>2 DEF Names
  <2>3. QED
    BY <2>1, <2>2
<1>4. n \in Nat /\ a \in I[0]
  <2>1. <<>> \in Names
    BY DEF Names
  <2>2. QED
    BY <2>1
<1>5. Leads(g, n, I)
  <2> SUFFICES ASSUME NEW i \in 1..n, NEW x \in I[i - 1] PROVE g[<<i, x>>] \in I[i]
    BY DEF Leads
  <2>1. x \in [Named -> Names] /\ G(x) \in [Named -> Names]
    BY <1>3
  <2> HIDE DEF G
  <2>2. QED
    BY <2>1
<1>6. PICK f : Recurs(f, n, a, g) /\ Within(f, n, I)
  <2> HIDE DEF a, g, I, n
  <2>1. QED
    BY <1>4, <1>5, RecursionExists
<1>7. /\ \A i \in 0..n : f[i] \in [Named -> Names]
      /\ \A i \in 1..n : f[i] = G(f[i - 1])
  <2>1. \A i \in 0..n : f[i] \in [Named -> Names]
    BY <1>6 DEF Within
  <2> HIDE DEF G
  <2>2. ASSUME NEW i \in 1..n PROVE f[i] = G(f[i - 1])
    <3>1. f[i - 1] \in [Named -> Names]
      BY <2>1
    <3>2. f[i] = g[<<i, f[i - 1]>>]
      BY <1>6 DEF Recurs
    <3>3. QED
      BY <3>1, <3>2
  <2>3. QED
    BY <2>1, <2>2
<1> DEFINE Settled == {i \in 0..(height + 1) : \A e \in Named : depth[e] < i => f[i + 1][e] = f[i][e]}
<1>8. 0 \in Settled
  BY <1>2
<1>9. ASSUME NEW i \in 1..(height + 1), i - 1 \in Settled PROVE i \in Settled
  <2> SUFFICES ASSUME NEW e \in Named, depth[e] < i PROVE f[i + 1][e] = f[i][e]
    OBVIOUS
  <2>1. f[i + 1] = G(f[i]) /\ f[i] = G(f[i - 1])
    <3> HIDE DEF G
    <3>1. i + 1 \in 1..n /\ i \in 1..n /\ (i + 1) - 1 = i
      OBVIOUS
    <3>2. QED
      BY <1>7, <3>1
  <2>2. CASE e = Root
    BY <2>1, <2>2
  <2>3. CASE e # Root
    <3>1. Owner(e) \in Named /\ depth[Owner(e)] < i - 1
      BY <1>1, <1>2, <2>3
    <3>2. f[i][Owner(e)] = f[i - 1][Owner(e)]
      BY <1>9, <3>1
    <3>3. f[i + 1][e] = Append(f[i][Owner(e)], e)
      BY <2>1, <2>3
    <3>4. f[i][e] = Append(f[i - 1][Owner(e)], e)
      BY <2>1, <2>3
    <3>5. QED
      BY <3>2, <3>3, <3>4
  <2>4. QED
    BY <2>2, <2>3
<1>10. height + 1 \in Settled
  <2> HIDE DEF Settled
  <2>1. 0..(height + 1) \subseteq Settled
    BY <1>8, <1>9, Stepwise
  <2>2. QED
    BY <2>1
<1>11. f[height + 1] = G(f[height + 1])
  <2>1. \A e \in Named : f[height + 2][e] = f[height + 1][e]
    BY <1>2, <1>10
  <2>2. f[height + 2] = f[height + 1]
    BY <1>7, <2>1
  <2>3. f[height + 2] = G(f[height + 1])
    <3> HIDE DEF G
    <3>1. n - 1 = height + 1 /\ n \in 1..n
      OBVIOUS
    <3>2. QED
      BY <1>7, <3>1
  <2>4. QED
    BY <2>2, <2>3
<1>12. Path = CHOOSE F : F = G(F)
  BY DEF Path, Named
<1>13. Path = G(Path)
  <2> HIDE DEF G
  <2>1. QED
    BY <1>11, <1>12
<1>14. QED
  BY <1>13

LEMMA PathType ==
  ASSUME NEW depth, NEW height \in Nat, IsTree(depth, height)
  PROVE  \A e \in Named : Path[e] \in Names /\ Path[e] # <<>> /\ LastOf(Path[e]) = e
<1> DEFINE Good(e) == Path[e] \in Names /\ Path[e] # <<>> /\ LastOf(Path[e]) = e
           Upto == {i \in 0..(height + 1) : \A e \in Named : depth[e] < i => Good(e)}
<1>1. depth \in [Named -> 0..height] /\ height + 1 \in Nat
  BY DEF IsTree, Named
<1>2. 0 \in Upto
  BY <1>1
<1>3. ASSUME NEW i \in 1..(height + 1), i - 1 \in Upto PROVE i \in Upto
  <2> SUFFICES ASSUME NEW e \in Named, depth[e] < i PROVE Good(e)
    OBVIOUS
  <2>1. CASE e = Root
    <3>1. Path[e] = <<e>>
      BY <2>1, PathIs
    <3>2. QED
      BY <3>1 DEF Names, LastOf
  <2>2. CASE e # Root
    <3>1. PICK s \in Suites : \E k \in DOMAIN Entries[s] : Entries[s][k] = e
      BY <2>2 DEF IsTree, Named
    <3>2. Owner(e) \in Named /\ depth[Owner(e)] < depth[e]
      BY <3>1 DEF IsTree, Named
    <3>3. depth[Owner(e)] < i - 1
      BY <1>1, <3>2
    <3>4. Path[Owner(e)] \in Seq(Named)
      BY <1>3, <3>2, <3>3 DEF Names
    <3>5. Path[e] = Append(Path[Owner(e)], e)
      BY <2>2, PathIs
    <3>6. QED
      BY <3>4, <3>5, AppendProperties DEF Names, LastOf
  <2>3. QED
    BY <2>1, <2>2
<1>4. 0..(height + 1) \subseteq Upto
  <2> HIDE DEF Upto
  <2>1. QED
    BY <1>1, <1>2, <1>3, Stepwise
<1>5. \A e \in Named : depth[e] < height + 1
  BY <1>1
<1>6. \A e \in Named : Good(e)
  <2>1. height + 1 \in Upto
    BY <1>1, <1>4
  <2> HIDE DEF Good
  <2>2. QED
    BY <1>5, <2>1
<1>7. QED
  BY <1>6

\* the trail is the path of the name last put on it
AtPath ==
  /\ trail # <<>> => trail = Path[LastOf(trail)]
  /\ pc = "setup" => HasEntry

LEMMA TrailGrows ==
  ASSUME NEW depth, NEW height \in Nat, IsTree(depth, height), PathInv, AtPath,
         pc \in {"loop", "setup"}, HasEntry, trail' = Append(trail, Entry)
  PROVE  trail' # <<>> /\ trail' = Path[LastOf(trail')]
<1>1. /\ MainOK /\ stack # <<>> /\ Top \in FrameSet /\ Entry \in Named /\ trail \in Names
      /\ Len(stack) \in Nat \ {0} /\ Len(trail) = Len(stack) /\ LastOf(trail) = Top.suite
  BY TopType DEF PathInv, TypeInv, MainOK, PathOK, InTest, LastOf, Top, Named, Names
<1>2. Top.i \in DOMAIN Entries[Top.suite] /\ Top.suite \in Suites
  BY <1>1, TreeAssumption DEF HasEntry, FrameSet
<1>3. Entry # Root /\ Owner(Entry) = Top.suite
  BY <1>2 DEF IsTree, Entry
<1>4. Path[Entry] = Append(Path[Top.suite], Entry)
  BY <1>1, <1>3, PathIs
<1>5. trail = Path[Top.suite]
  BY <1>1 DEF AtPath
<1>6. Len(trail') = Len(trail) + 1 /\ trail'[Len(trail) + 1] = Entry /\ Len(trail) \in Nat
  BY <1>1, AppendProperties DEF Names
<1>7. QED
  BY <1>4, <1>5, <1>6 DEF LastOf

LEMMA TrailShrinks ==
  ASSUME NEW depth, NEW height \in Nat, IsTree(depth, height), PathInv, AtPath,
         trail' = DropLast(trail), trail' # <<>>
  PROVE  trail' = Path[LastOf(trail')]
<1> DEFINE e == LastOf(trail)
           up == Path[Owner(e)]
<1>1. trail \in Names /\ Len(trail) \in Nat
  BY DEF PathInv, TypeInv, MainOK, Named, Names
<1>2. trail # <<>>
  BY <1>1 DEF DropLast, Names
<1>3. trail = Path[e] /\ e \in Named
  BY <1>1, <1>2, EmptySeq, ElementOfSeq DEF AtPath, LastOf, Names
<1>4. CASE e = Root
  <2>1. trail = <<e>>
    BY <1>3, <1>4, PathIs
  <2>2. Len(trail') = 0
    BY <1>1, <1>2, <2>1, DropLastType DEF Names
  <2>3. QED
    BY <1>1, <1>2, <2>2, DropLastType, EmptySeq DEF Names
<1>5. CASE e # Root
  <2>1. trail = Append(up, e) /\ Owner(e) \in Named
    <3>1. PICK s \in Suites : \E k \in DOMAIN Entries[s] : Entries[s][k] = e
      BY <1>3, <1>5 DEF IsTree, Named
    <3>2. Owner(e) \in Named
      BY <3>1 DEF IsTree, Named
    <3>3. Path[e] = Append(Path[Owner(e)], e)
      BY <1>3, <1>5, PathIs
    <3>4. QED
      BY <1>3, <3>2, <3>3
  <2>2. up \in Seq(Named) /\ LastOf(up) = Owner(e)
    BY <2>1, PathType DEF Names
  <2>3. trail' = up
    <3> HIDE DEF up, e
    <3>1. trail' = SubSeq(Append(up, e), 1, Len(Append(up, e)) - 1)
      BY <2>1 DEF DropLast
    <3>2. Len(Append(up, e)) - 1 = Len(up)
      BY <2>2
    <3>3. QED
      BY <2>2, <3>1, <3>2
  <2>4. QED
    BY <2>2, <2>3
<1>6. QED
  BY <1>4, <1>5

LEMMA AtPathStep ==
  ASSUME NEW depth, NEW height \in Nat, IsTree(depth, height), PathInv, AtPath, [Next]_vars
  PROVE  AtPath'
<1>1. ASSUME UNCHANGED <<trail, stack>>, pc' = "setup" => pc = "setup" PROVE AtPath'
  BY <1>1 DEF AtPath, HasEntry, Top, LastOf
<1>2. ASSUME UNCHANGED trail, pc' # "setup" PROVE AtPath'
  BY <1>2 DEF AtPath, LastOf
<1>3. CASE EnterSubSuite
  BY <1>3 DEF EnterSubSuite, Goto, AtPath, HasEntry, Top, LastOf
<1>4. ASSUME pc \in {"loop", "setup"}, HasEntry, trail' = Append(trail, Entry), pc' # "setup" PROVE AtPath'
  BY <1>4, TrailGrows DEF AtPath
<1>5. CASE StartSubSuite \/ SkipTest \/ RunTest \/ ForkFails
  BY <1>4, <1>5 DEF StartSubSuite, SkipTest, RunTest, ForkFails, AtTest, StartTest, AtPath
<1>6. CASE FinishTest \/ FinishSuite
  <2>1. trail' = DropLast(trail) /\ pc' # "setup"
    BY <1>6 DEF FinishTest, FinishSuite
  <2>2. QED
    BY <2>1, TrailShrinks DEF AtPath
<1>7. CASE MainStep /\ ~(EnterSubSuite \/ StartSubSuite \/ SkipTest \/ RunTest \/ FinishTest \/ FinishSuite)
  BY <1>1, <1>2, <1>7 DEF MainStep, TeardownReturns, PassEntry, StartOwnTests, IgnoreCtrlC, InLoop,
     WaitForChild, ReadResult, EndSuite, MainPanics, Goto, Stop, main
<1>8. ASSUME NEW t \in Tests, NEW how, Dies(t, how) PROVE UNCHANGED <<trail, stack>> /\ (pc' = "setup" => pc = "setup")
  BY <1>8 DEF Dies, Stop, main
<1>9. ASSUME NEW t \in Tests,
             \/ CodeStep(t) \/ CodeThrows(t) \/ Alarm(t)
             \/ \E r \in {"pass", "fail", "skipped"} : CodeSends(t, r)
             \/ \E how \in Dead : CodeDies(t, how)
             \/ \E how \in {"exited", "signalled"} : ChildEnds(t, how)
      PROVE  AtPath'
  <2>1. CASE CodePanics(t) \/ Alarm(t) \/ \E how \in Dead : CodeDies(t, how)
    <3>1. (\E how \in Dead : Dies(t, how)) \/ Stop("success")
      BY <2>1 DEF CodePanics, Alarm, CodeDies, Dead
    <3>2. QED
      BY <1>1, <1>8, <3>1 DEF Stop
  <2>2. CASE CodeAdvances(t) \/ CodeCompletes(t) \/ CodeThrows(t)
               \/ \E r \in {"pass", "fail", "skipped"} : CodeSends(t, r)
               \/ \E how \in {"exited", "signalled"} : ChildEnds(t, how)
    <3>1. UNCHANGED <<trail, stack>> /\ (pc' = "setup" => pc = "setup")
      BY <2>2 DEF CodeAdvances, CodeCompletes, CodeThrows, CodeSends, ChildEnds, Goto, main
    <3>2. QED
      BY <1>1, <3>1
  <2>3. QED
    BY <1>9, <2>1, <2>2 DEF CodeStep
<1>10. CASE HelperEnds \/ Interrupt \/ (\E r \in {"pass", "fail"} : FixtureAsserts(r)) \/ UNCHANGED vars
  BY <1>1, <1>10 DEF HelperEnds, Interrupt, FixtureAsserts, Stop, main, vars
<1>11. QED
  BY <1>3, <1>5, <1>6, <1>7, <1>9, <1>10 DEF Next

LEMMA AtPathInit ==
  ASSUME NEW depth, NEW height \in Nat, IsTree(depth, height), Init PROVE AtPath
  BY PathIs, TreeAssumption DEF Init, AtPath, LastOf, Named

-----------------------------------------------------------------------------
(* What the text reporter writes                                           *)

Counts    == [Kinds -> Nat]
Marks     == {Verbose!Mark(c) : c \in Counts}
ShownLine == [line : {"failure", "exception"}, path : Names]
PlainLine == [line : {"running"}, path : Names]
               \cup [line : {"suite", "completed"}, path : Names, counts : Counts]
               \cup [line : {"mark"}, path : Names, mark : Marks]
TextLine  == ShownLine \cup PlainLine
Note      == [result : Results, message : Messages \cup {<<>>}]

State(b, f) == [own |-> [buffer |-> b], file |-> f]
\* what the buffer and then a line on a failure or exception leave
Written(b, f) == State(<<>>, f \o b)
Flag(what, path) == [line |-> what, path |-> path]
Flagged(b, f, what, path) == State(<<>>, f \o Append(b, Flag(what, path)))

LEMMA LineKinds ==
  ASSUME NEW l \in PlainLine
  PROVE  l.line \in {"running", "suite", "completed", "mark"} /\ l.path \in Names
  BY DEF PlainLine

LEMMA Buffered ==
  ASSUME NEW b, NEW f, NEW l
  PROVE  [State(b, f) EXCEPT !.own.buffer = Append(@, l)] = State(Append(b, l), f)
<1>1. ASSUME NEW o, NEW new PROVE [[own |-> o, file |-> f] EXCEPT !.own = new] = [own |-> new, file |-> f]
  OBVIOUS
<1>2. ASSUME NEW new PROVE [[buffer |-> b] EXCEPT !.buffer = new] = [buffer |-> new]
  OBVIOUS
<1>3. QED
  BY <1>1, <1>2 DEF State

LEMMA TextOperations ==
  ASSUME Told, NEW b, NEW f, NEW path
  PROVE  /\ Flushed(State(b, f)) = Written(b, f)
         /\ Remains(State(b, f)) = {f, f \o b}
         /\ TestStarted(State(b, f), path) = State(b, f)
<1>1. Flushed(State(b, f)) = Written(b, f)
  BY DEF Told, Flushed, Verbose!Flush, State, Written
<1>2. Remains(State(b, f)) = {f, f \o b}
  BY DEF Told, Remains, Verbose!Killed, Verbose!Flush, State
<1>3. TestStarted(State(b, f), path) = State(b, f)
  BY DEF Told, TestStarted
<1>4. QED
  BY <1>1, <1>2, <1>3

LEMMA TextShows ==
  ASSUME Told, NEW b, NEW f, NEW path, NEW n, NEW m
  PROVE  /\ IncompleteShown(State(b, f), path, n) = Flagged(b, f, "exception", path)
         /\ Shown(State(b, f), path, "pass", n, m) = {State(b, f)}
         /\ Shown(State(b, f), path, "fail", n, m) = {Flagged(b, f, "failure", path)}
<1>1. ASSUME NEW l PROVE Verbose!show(State(b, f), l, path) = Flagged(b, f, l, path)
  BY DEF Verbose!show, Verbose!Flush, Verbose!printer, State, Flagged, Flag
<1>2. IncompleteShown(State(b, f), path, n) = Verbose!show(State(b, f), "exception", path)
  BY DEF Told, IncompleteShown
<1>3. Shown(State(b, f), path, "pass", n, m) = {State(b, f)}
  <2>1. kind # "cdash"
    BY DEF Told
  <2>2. QED
    BY <2>1 DEF Shown
<1>4. Shown(State(b, f), path, "fail", n, m) = {Verbose!show(State(b, f), "failure", path)}
  BY DEF Told, Shown
<1>5. QED
  BY <1>1, <1>2, <1>3, <1>4

\* what is written at the end of a suite
SuiteLineOf(path, sums) == [line |-> "suite", path |-> path, counts |-> sums]
LastLine(path, totals)  == [line |-> "completed", path |-> path, counts |-> totals]
MarkLine(path, sums)    == [line |-> "mark", path |-> path, mark |-> Verbose!Mark(sums)]
HasLine(path, sums)     == Len(path) > 1 \/ \E k \in DOMAIN sums : sums[k] > 0

LEMMA TextSuites ==
  ASSUME Told, NEW b, NEW f, NEW path, NEW sums, NEW totals
  PROVE  /\ Len(path) # 1 => SuiteStarted(State(b, f), path) = State(b, f)
         /\ kind = "text" =>
              SuiteFinished(State(b, f), path, sums, totals)
                = LET c == IF HasLine(path, sums) THEN Append(b, SuiteLineOf(path, sums)) ELSE b
                  IN  State(IF Len(path) = 1 THEN Append(c, LastLine(path, totals)) ELSE c, f)
         /\ kind = "quiet" =>
              SuiteFinished(State(b, f), path, sums, totals)
                = State(Append(b, IF Len(path) = 1 THEN LastLine(path, totals) ELSE MarkLine(path, sums)), f)
<1>1. ASSUME Len(path) # 1 PROVE SuiteStarted(State(b, f), path) = State(b, f)
  BY <1>1 DEF Told, SuiteStarted, Verbose!start_suite, Quiet!start_suite
<1>3. ASSUME NEW l, NEW c PROVE Verbose!printer(State(c, f), l) = State(Append(c, l), f)
  BY Buffered DEF Verbose!printer
<1>4. ASSUME kind = "text"
      PROVE  SuiteFinished(State(b, f), path, sums, totals) = Verbose!finish_suite(State(b, f), path, sums, totals)
  BY <1>4 DEF SuiteFinished
<1>5. Verbose!finish_suite(State(b, f), path, sums, totals)
        = LET c == IF HasLine(path, sums) THEN Append(b, SuiteLineOf(path, sums)) ELSE b
          IN  State(IF Len(path) = 1 THEN Append(c, LastLine(path, totals)) ELSE c, f)
  BY <1>3 DEF Verbose!finish_suite, Verbose!SuiteLine, HasLine, SuiteLineOf, LastLine
<1>6. ASSUME kind = "quiet"
      PROVE  SuiteFinished(State(b, f), path, sums, totals) = Quiet!finish_suite(State(b, f), path, sums, totals)
  BY <1>6 DEF SuiteFinished
<1>7. ASSUME NEW l PROVE Quiet!printer(State(b, f), l) = State(Append(b, l), f)
  BY Buffered DEF Quiet!printer
<1>8. Verbose!Mark(sums) = Quiet!Mark(sums)
  BY DEF Verbose!Mark, Quiet!Mark
<1>9. Quiet!finish_suite(State(b, f), path, sums, totals)
        = State(Append(b, IF Len(path) = 1 THEN LastLine(path, totals) ELSE MarkLine(path, sums)), f)
  BY <1>7, <1>8 DEF Quiet!finish_suite, MarkLine, LastLine
<1>10. QED
  BY <1>1, <1>4, <1>5, <1>6, <1>9

LEMMA ConcatAppend ==
  ASSUME NEW S, NEW s \in Seq(S), NEW b \in Seq(S), NEW e \in S
  PROVE  s \o Append(b, e) = Append(s \o b, e)
<1>1. /\ s \o b \in Seq(S) /\ Append(b, e) \in Seq(S) /\ s \o Append(b, e) \in Seq(S)
      /\ Append(s \o b, e) \in Seq(S)
  BY ConcatProperties, AppendProperties
<1>2. Len(s \o Append(b, e)) = Len(Append(s \o b, e))
  BY <1>1, ConcatProperties, AppendProperties
<1>3. ASSUME NEW i \in 1..Len(s \o Append(b, e)) PROVE (s \o Append(b, e))[i] = Append(s \o b, e)[i]
  BY <1>1, ConcatProperties, AppendProperties
<1>4. QED
  BY <1>1, <1>2, <1>3, SeqEqual

LEMMA CountWritten ==
  ASSUME NEW s \in Seq(TextLine), NEW b \in Seq(PlainLine), NEW R, R \cap PlainLine = {}
  PROVE  /\ s \o b \in Seq(TextLine) /\ Count(s \o b, R) = Count(s, R)
         /\ \A e \in TextLine :
              /\ s \o Append(b, e) \in Seq(TextLine)
              /\ Count(s \o Append(b, e), R) = Count(s, R) + (IF e \in R THEN 1 ELSE 0)
<1>1. b \in Seq(TextLine) /\ s \o b \in Seq(TextLine)
  BY ConcatProperties DEF TextLine
<1>2. Count(s \o b, R) = Count(s, R)
  <2>1. {j \in 1..Len(s \o b) : (s \o b)[j] \in R} = {j \in 1..Len(s) : s[j] \in R}
    <3>1. /\ Len(s) \in Nat /\ Len(b) \in Nat /\ Len(s \o b) = Len(s) + Len(b)
          /\ \A j \in 1..Len(s) : (s \o b)[j] = s[j]
          /\ \A j \in 1..(Len(s) + Len(b)) : j > Len(s) => (s \o b)[j] = b[j - Len(s)]
      BY <1>1, ConcatProperties
    <3>2. \A j \in 1..(Len(s) + Len(b)) : j > Len(s) => b[j - Len(s)] \in PlainLine
      BY <3>1, ElementOfSeq
    <3>3. QED
      BY <3>1, <3>2
  <2>2. QED
    BY <2>1 DEF Count
<1>3. ASSUME NEW e \in TextLine
      PROVE  /\ s \o Append(b, e) \in Seq(TextLine)
             /\ Count(s \o Append(b, e), R) = Count(s, R) + (IF e \in R THEN 1 ELSE 0)
  <2>1. s \o Append(b, e) = Append(s \o b, e)
    BY <1>1, ConcatAppend
  <2>2. Append(s \o b, e) \in Seq(TextLine)
    BY <1>1, AppendProperties
  <2>3. Count(Append(s \o b, e), R) = Count(s \o b, R) + (IF e \in R THEN 1 ELSE 0)
    BY <1>1, CountAppend
  <2>4. QED
    BY <1>2, <2>1, <2>2, <2>3
<1>4. QED
  BY <1>1, <1>2, <1>3

LEMMA TextFinished ==
  ASSUME Told, NEW b, NEW f, NEW path, NEW sums, NEW how
  PROVE  TestFinished(State(b, f), path, how, sums)
           = IF how \in {"skipped", "completed"} THEN State(b, f) ELSE Flagged(b, f, "exception", path)
<1> DEFINE st == State(b, f)
<1>1. SkipShown(st) = st
  BY DEF Told, SkipShown
<1>2. IncompleteShown(st, path, 0) = Flagged(b, f, "exception", path)
  BY TextShows
<1> HIDE DEF st
<1>3. TestFinished(st, path, how, sums)
        = IF how \in {"skipped", "completed"} THEN st ELSE IncompleteShown(st, path, 0)
  BY <1>1 DEF Told, TestFinished
<1>4. QED
  BY <1>2, <1>3 DEF st

-----------------------------------------------------------------------------
(* Every failure that is counted was shown                                 *)

Like(what) == {l \in TextLine : l.line = what}
About(t)   == {l \in TextLine : l.line = "failure" /\ l.path = Path[t]}
FailNotes  == {n \in Note : n.result = "fail"}

\* the text reporter's memory holds no failure or exception
PlainMemory ==
  /\ parent \in [buffer : Seq(PlainLine)]
  /\ child = [buffer |-> <<>>]
  /\ file \in Seq(TextLine)
  /\ shown \in [Tests -> Seq(Note)]

\* the counters of failures and exceptions, with what is in the pipe
Seen ==
  /\ sent["fail"] <= Count(file, Like("failure"))
  /\ sent["exception"] + Incompletes <= Count(file, Like("exception"))
  /\ \A t \in Tests : Count(file, About(t)) = Count(shown[t], FailNotes)

SeenInv == PlainMemory /\ Seen

LEMMA SeenTells ==
  ASSUME RunInv, SeenInv, Told PROVE NothingCountedUnseen
<1>1. /\ TypeInv /\ Conservation
  BY DEF RunInv, PathInv, SumInv
<1>2. "fail" \in Kinds /\ "exception" \in Kinds
  BY DEF Kinds, Results
<1>3. \A k \in Kinds : /\ InPipe(k) \in Nat /\ Unbooked(k) \in Nat /\ total[k] \in Nat /\ sent[k] \in Nat
                       /\ Incompletes \in Nat
  BY <1>1, InPipeType
<1>4. /\ sent["fail"] = total["fail"] + Unbooked("fail") + InPipe("fail")
      /\ sent["exception"] + Incompletes = total["exception"] + Unbooked("exception") + InPipe("exception")
  <2>1. sent["fail"] + (IF "fail" = "exception" THEN Incompletes ELSE 0)
          = total["fail"] + Unbooked("fail") + InPipe("fail")
    BY <1>2, <1>1 DEF Conservation
  <2>2. sent["exception"] + (IF "exception" = "exception" THEN Incompletes ELSE 0)
          = total["exception"] + Unbooked("exception") + InPipe("exception")
    BY <1>2, <1>1 DEF Conservation
  <2>3. sent["fail"] + 0 = sent["fail"]
    BY <1>2, <1>3
  <2>4. QED
    BY <2>1, <2>2, <2>3
<1>5. \A what : Cardinality(Lines(what)) = Count(file, Like(what))
  <2> TAKE what
  <2>1. Lines(what) = {j \in 1..Len(file) : file[j] \in Like(what)}
    BY ElementOfSeq DEF SeenInv, PlainMemory, Lines, Like
  <2>2. QED
    BY <2>1 DEF Count
<1>6. ASSUME NEW t \in Tests
      PROVE  Cardinality({i \in Lines("failure") : file[i].path = Path[t]}) = Cardinality(Fails(t))
  <2>1. {i \in Lines("failure") : file[i].path = Path[t]} = {j \in 1..Len(file) : file[j] \in About(t)}
    BY ElementOfSeq DEF SeenInv, PlainMemory, Lines, About
  <2>2. Fails(t) = {j \in 1..Len(shown[t]) : shown[t][j] \in FailNotes}
    BY ElementOfSeq DEF SeenInv, PlainMemory, Fails, FailNotes
  <2>3. QED
    BY <2>1, <2>2 DEF SeenInv, Seen, Count
<1>7. \A what : Count(file, Like(what)) \in Nat
  BY CountType DEF SeenInv, PlainMemory
<1>8. QED
  BY <1>2, <1>3, <1>4, <1>5, <1>6, <1>7 DEF NothingCountedUnseen, SeenInv, Seen

\* nothing that Seen is about is written, sent or reported
LEMMA SeenKept ==
  ASSUME SeenInv, PlainMemory', NEW b \in Seq(PlainLine), file' = file \o b,
         \A t \in Tests : Count(shown'[t], FailNotes) = Count(shown[t], FailNotes),
         sent'["fail"] = sent["fail"], sent'["exception"] = sent["exception"], Incompletes' = Incompletes
  PROVE  SeenInv'
<1>1. \A R : R \cap PlainLine = {} => Count(file', R) = Count(file, R)
  BY CountWritten DEF SeenInv, PlainMemory
<1>2. /\ Like("failure") \cap PlainLine = {} /\ Like("exception") \cap PlainLine = {}
      /\ \A t \in Tests : About(t) \cap PlainLine = {}
  BY LineKinds DEF Like, About
<1>3. QED
  BY <1>1, <1>2 DEF SeenInv, Seen

\* a failure or an exception is written, and perhaps sent or reported
LEMMA SeenMore ==
  ASSUME SeenInv, PlainMemory', TypeInv, TypeInv', NEW b \in Seq(PlainLine), NEW e \in ShownLine, file' = file \o Append(b, e),
         \A t \in Tests : Count(shown'[t], FailNotes)
                            = Count(shown[t], FailNotes) + (IF e \in About(t) THEN 1 ELSE 0),
         sent'["fail"] <= sent["fail"] + (IF e.line = "failure" THEN 1 ELSE 0),
         sent'["exception"] + Incompletes'
           <= sent["exception"] + Incompletes + (IF e.line = "exception" THEN 1 ELSE 0)
  PROVE  SeenInv'
<1>0. e \in TextLine
  BY DEF TextLine
<1>1. ASSUME NEW R, R \cap PlainLine = {} PROVE Count(file', R) = Count(file, R) + (IF e \in R THEN 1 ELSE 0)
  <2>1. file \in Seq(TextLine)
    BY DEF SeenInv, PlainMemory
  <2>2. \A l \in TextLine : Count(file \o Append(b, l), R) = Count(file, R) + (IF l \in R THEN 1 ELSE 0)
    BY <1>1, <2>1, CountWritten
  <2>3. QED
    BY <1>0, <2>2
<1>2. /\ Like("failure") \cap PlainLine = {} /\ Like("exception") \cap PlainLine = {}
      /\ \A t \in Tests : About(t) \cap PlainLine = {}
  BY LineKinds DEF Like, About
<1>3. e \in Like("failure") <=> e.line = "failure"
  BY <1>0 DEF Like
<1>4. e \in Like("exception") <=> e.line = "exception"
  BY <1>0 DEF Like
<1>5. \A what : Count(file, Like(what)) \in Nat
  BY CountType DEF SeenInv, PlainMemory
<1>6. "fail" \in Results /\ "exception" \in Results /\ sent \in [Results -> Nat] /\ sent' \in [Results -> Nat]
      /\ Incompletes \in Nat /\ Incompletes' \in Nat
  BY CountType DEF TypeInv, ChannelOK, BookOK, Incompletes, Results
<1>7. \A t \in Tests : Count(file', About(t)) = Count(shown'[t], FailNotes)
  BY <1>1, <1>2 DEF SeenInv, Seen
<1>8. sent'["fail"] <= Count(file', Like("failure"))
  <2>1. Count(file', Like("failure")) = Count(file, Like("failure")) + (IF e.line = "failure" THEN 1 ELSE 0)
    BY <1>1, <1>2, <1>3
  <2>2. sent["fail"] <= Count(file, Like("failure"))
    BY DEF SeenInv, Seen
  <2>3. Count(file, Like("failure")) \in Nat /\ sent["fail"] \in Nat /\ sent'["fail"] \in Nat
    BY <1>5, <1>6
  <2>4. QED
    BY <2>1, <2>2, <2>3
<1>9. sent'["exception"] + Incompletes' <= Count(file', Like("exception"))
  <2>1. Count(file', Like("exception")) = Count(file, Like("exception")) + (IF e.line = "exception" THEN 1 ELSE 0)
    BY <1>1, <1>2, <1>4
  <2>2. sent["exception"] + Incompletes <= Count(file, Like("exception"))
    BY DEF SeenInv, Seen
  <2>3. /\ Count(file, Like("exception")) \in Nat /\ sent["exception"] + Incompletes \in Nat
        /\ sent'["exception"] + Incompletes' \in Nat
    BY <1>5, <1>6
  <2>4. QED
    BY <2>1, <2>2, <2>3
<1>10. QED
  BY <1>7, <1>8, <1>9 DEF SeenInv, Seen

\* a message is counted under its own result only, if it is written
LEMMA Sends ==
  ASSUME TypeInv, NEW from, NEW r \in Results, Send(from, r), NEW k \in Results
  PROVE  sent'[k] <= sent[k] + (IF k = r THEN 1 ELSE 0) /\ (k # r => sent'[k] = sent[k])
<1>1. sent \in [Results -> Nat] /\ (sent' = sent \/ sent' = [sent EXCEPT ![r] = @ + 1])
  BY DEF TypeInv, ChannelOK, Send
<1>2. QED
  BY <1>1

\* tests run under their own path
LEMMA RunsAtItsPath ==
  ASSUME RunInv, AtPath, Told, NEW t \in Tests, code[t] \in Running, pc # "stopped"
  PROVE  trail = Path[t] /\ trail \in Names
<1>1. Undisturbed /\ OnlyRunnerExits /\ ~Helper /\ Forking
  BY ReportAssumption DEF Undisturbed, OnlyRunnerExits, Forking
<1>2. ~Misled
  BY <1>1 DEF RunInv, SumInv, SumOK, Misled
<1>3. AtFork /\ t = Entry
  BY <1>1, <1>2 DEF RunInv, SumInv, PipeInv, WaitInv, WaitOK, Alive, Running, Dead
<1>4. stack \in Seq(FrameSet) /\ trail \in Seq(Suites \cup Tests)
  BY DEF RunInv, PathInv, TypeInv, MainOK
<1>5. Len(trail) = Len(stack) + 1 /\ trail[Len(stack) + 1] = t /\ Len(stack) \in Nat
  BY <1>3, <1>4 DEF RunInv, PathInv, PathOK, InTest, AtFork
<1>6. QED
  BY <1>4, <1>5 DEF AtPath, LastOf, Names, Named

\* and fixtures under that of their suite
LEMMA FixturesAtTheirPath ==
  ASSUME NEW depth, NEW height \in Nat, IsTree(depth, height), RunInv, AtPath,
         pc \in {"setup", "teardown"}, NEW t \in Tests
  PROVE  trail # Path[t] /\ trail \in Names
<1>1. stack \in Seq(FrameSet) /\ trail \in Seq(Suites \cup Tests) /\ stack # <<>>
  BY DEF RunInv, PathInv, TypeInv, MainOK
<1>2. Len(stack) \in Nat \ {0} /\ Top \in FrameSet
  BY <1>1, TopType DEF RunInv, PathInv, TypeInv
<1>3. Len(trail) = Len(stack) /\ trail[Len(stack)] = Top.suite
  BY <1>2 DEF RunInv, PathInv, PathOK, InTest, Top
<1>4. LastOf(trail) \in Suites
  BY <1>2, <1>3 DEF LastOf, FrameSet
<1>5. LastOf(Path[t]) = t
  BY PathType DEF Named
<1>6. QED
  BY <1>1, <1>4, <1>5, TreeAssumption DEF Names, Named

LEMMA EmptyEnds == ASSUME NEW S, NEW s \in Seq(S) PROVE s \o <<>> = s /\ <<>> \in Seq(S)
<1>1. <<>> \in Seq(S) /\ Len(<<>>) = 0
  OBVIOUS
<1>2. s \o <<>> \in Seq(S) /\ Len(s \o <<>>) = Len(s) /\ \A i \in 1..Len(s) : (s \o <<>>)[i] = s[i]
  BY <1>1, ConcatProperties
<1>3. QED
  BY <1>1, <1>2, SeqEqual

\* a test notes what it shows
LEMMA Notes ==
  ASSUME SeenInv, NEW t \in Tests, NEW r \in Results, NEW m \in Messages \cup {<<>>}, Records(t, r, m)
  PROVE  /\ shown' \in [Tests -> Seq(Note)]
         /\ \A u \in Tests : Count(shown'[u], FailNotes)
              = Count(shown[u], FailNotes) + (IF r = "fail" /\ u = t THEN 1 ELSE 0)
<1> DEFINE new == [result |-> r, message |-> m]
<1>1. new \in Note /\ (new \in FailNotes <=> r = "fail")
  BY DEF Note, FailNotes
<1>2. shown \in [Tests -> Seq(Note)] /\ shown' = [shown EXCEPT ![t] = Append(@, new)]
  BY DEF SeenInv, PlainMemory, Records
<1>3. Append(shown[t], new) \in Seq(Note)
  BY <1>1, <1>2, AppendProperties
<1>4. shown' \in [Tests -> Seq(Note)]
  BY <1>2, <1>3
<1>5. ASSUME NEW u \in Tests
      PROVE  Count(shown'[u], FailNotes)
               = Count(shown[u], FailNotes) + (IF r = "fail" /\ u = t THEN 1 ELSE 0)
  <2>1. Count(shown[u], FailNotes) \in Nat
    BY <1>2, CountType
  <2>2. CASE u = t
    <3>1. shown[t] \in Seq(Note) /\ shown'[t] = Append(shown[t], new)
      BY <1>2
    <3>2. Count(Append(shown[t], new), FailNotes)
            = Count(shown[t], FailNotes) + (IF new \in FailNotes THEN 1 ELSE 0)
      BY <1>1, <3>1, CountAppend
    <3>3. QED
      BY <1>1, <2>2, <3>1, <3>2
  <2>3. CASE u # t
    BY <1>2, <2>1, <2>3
  <2>4. QED
    BY <2>2, <2>3
<1>6. QED
  BY <1>4, <1>5

LEMMA Memory ==
  ASSUME PlainMemory
  PROVE  /\ Parent = State(parent.buffer, file) /\ Child = State(<<>>, file)
         /\ parent = [buffer |-> parent.buffer] /\ child = [buffer |-> <<>>]
         /\ parent.buffer \in Seq(PlainLine) /\ <<>> \in Seq(PlainLine) /\ file \in Seq(TextLine)
         /\ shown \in [Tests -> Seq(Note)] /\ \A t \in Tests : Count(shown[t], FailNotes) \in Nat
<1>1. parent = [buffer |-> parent.buffer] /\ child = [buffer |-> <<>>]
  BY DEF PlainMemory
<1>2. Parent = State(parent.buffer, file)
  BY <1>1 DEF Parent, State
<1>3. Child = State(<<>>, file)
  BY <1>1 DEF Child, State
<1>4. ASSUME NEW t \in Tests PROVE Count(shown[t], FailNotes) \in Nat
  <2>1. shown[t] \in Seq(Note)
    BY DEF PlainMemory
  <2>2. QED
    BY <2>1, CountType
<1>5. QED
  BY <1>1, <1>2, <1>3, <1>4 DEF PlainMemory

LEMMA StateParts ==
  ASSUME NEW b, NEW f
  PROVE  /\ InParent(State(b, f)) <=> parent' = [buffer |-> b] /\ file' = f
         /\ InChild(State(b, f)) <=> child' = [buffer |-> b] /\ file' = f
  BY DEF InParent, InChild, State

\* a step that writes at most what the parent's buffer holds
LEMMA SeenQuietly ==
  ASSUME SeenInv, NEW p \in Seq(PlainLine), parent' = [buffer |-> p], child' = [buffer |-> <<>>],
         file' \in {file, file \o parent.buffer},
         shown' \in [Tests -> Seq(Note)],
         \A t \in Tests : Count(shown'[t], FailNotes) = Count(shown[t], FailNotes),
         sent'["fail"] = sent["fail"], sent'["exception"] = sent["exception"], Incompletes' = Incompletes
  PROVE  SeenInv'
<1>1. file \in Seq(TextLine) /\ parent.buffer \in Seq(PlainLine)
  BY Memory DEF SeenInv
<1>2. PICK b \in Seq(PlainLine) : file' = file \o b
  <2>1. file \o <<>> = file /\ <<>> \in Seq(PlainLine)
    BY <1>1, EmptyEnds
  <2>2. QED
    BY <1>1, <2>1
<1>3. file \o b \in Seq(TextLine)
  <2>1. b \in Seq(TextLine)
    BY DEF TextLine
  <2>2. QED
    BY <1>1, <2>1, ConcatProperties
<1>4. PlainMemory'
  BY <1>2, <1>3 DEF PlainMemory
<1>5. QED
  BY <1>2, <1>4, SeenKept

\* a step that writes a failure or an exception, with what was in the buffer
LEMMA SeenLoudly ==
  ASSUME SeenInv, TypeInv, TypeInv', NEW what \in {"failure", "exception"}, NEW path \in Names,
         NEW b \in Seq(PlainLine), NEW p \in Seq(PlainLine),
         parent' = [buffer |-> p], child' = [buffer |-> <<>>],
         file' = file \o Append(b, Flag(what, path)),
         shown' \in [Tests -> Seq(Note)],
         \A t \in Tests : Count(shown'[t], FailNotes) = Count(shown[t], FailNotes)
                            + (IF what = "failure" /\ path = Path[t] THEN 1 ELSE 0),
         sent'["fail"] <= sent["fail"] + (IF what = "failure" THEN 1 ELSE 0),
         sent'["exception"] + Incompletes'
           <= sent["exception"] + Incompletes + (IF what = "exception" THEN 1 ELSE 0)
  PROVE  SeenInv'
<1> DEFINE e == Flag(what, path)
<1>1. e \in ShownLine /\ e \in TextLine /\ e.line = what /\ e.path = path
  BY DEF Flag, ShownLine, TextLine
<1>2. \A t \in Tests : e \in About(t) <=> what = "failure" /\ path = Path[t]
  BY <1>1 DEF About
<1>3. file \in Seq(TextLine)
  BY Memory DEF SeenInv
<1>4. file \o Append(b, e) \in Seq(TextLine)
  <2>1. Append(b, e) \in Seq(TextLine)
    <3>1. b \in Seq(TextLine)
      BY DEF TextLine
    <3>2. QED
      BY <1>1, <3>1, AppendProperties
  <2>2. QED
    BY <1>3, <2>1, ConcatProperties
<1>5. PlainMemory'
  BY <1>4 DEF PlainMemory
<1> HIDE DEF e
<1>6. file' = file \o Append(b, e)
  BY DEF e
<1>7. QED
  BY <1>1, <1>2, <1>5, <1>6, SeenMore

LEMMA SeenMain ==
  ASSUME RunInv, RunInv', SeenInv, Told, MainGoesOn PROVE SeenInv'
<1> DEFINE b == parent.buffer
<1>1. /\ Parent = State(b, file) /\ b \in Seq(PlainLine) /\ file \in Seq(TextLine)
      /\ parent = [buffer |-> b] /\ child = [buffer |-> <<>>] /\ <<>> \in Seq(PlainLine)
      /\ shown \in [Tests -> Seq(Note)]
  BY Memory DEF SeenInv
<1>2. TypeInv /\ TypeInv' /\ Incompletes \in Nat /\ sent \in [Results -> Nat]
  BY CountType DEF RunInv, PathInv, TypeInv, Incompletes, BookOK, ChannelOK
<1>3. "fail" \in Results /\ "exception" \in Results /\ "skipped" \in Results /\ "completion" \in Results
  BY DEF Results
<1>4. trail \in Names
  BY <1>2 DEF TypeInv, MainOK, Names, Named
<1> HIDE DEF b
<1>5. CASE StartsSuite
  <2>1. Len(trail') # 1
    BY <1>2, <1>4, <1>5, PlainSuite, AppendProperties DEF Told, Plain, StartSubSuite, Names, Named, TypeInv, MainOK, RunInv, PathInv, PathOK
  <2>2. SuiteStarted(Parent, trail') = State(b, file)
    BY <1>1, <2>1, TextSuites
  <2>3. parent' = [buffer |-> b] /\ file' = file
    BY <1>5, <2>2, StateParts, PlainSuite DEF Told, Plain
  <2>4. UNCHANGED <<child, shown, sent, reports>>
    BY <1>5, PlainSuite DEF Told, Plain, StartSubSuite, channel
  <2>5. QED
    BY <1>1, <2>3, <2>4, SeenQuietly DEF Incompletes
<1>6. CASE SkipsTest
  <2>1. TestStarted(Parent, Entry) = State(b, file)
    BY <1>1, TextOperations
  <2>2. parent' = [buffer |-> b] /\ file' = file
    BY <1>6, <2>1, StateParts DEF SkipsTest
  <2>3. UNCHANGED <<child, shown, reports>> /\ Send(Main, "skipped")
    BY <1>6 DEF SkipsTest, SkipTest, book
  <2>4. sent'["fail"] = sent["fail"] /\ sent'["exception"] = sent["exception"]
    BY <1>2, <1>3, <2>3, Sends
  <2>5. QED
    BY <1>1, <2>2, <2>3, <2>4, SeenQuietly DEF Incompletes
<1>7. CASE Forks
  <2>1. Flushed(TestStarted(Parent, Entry)) = Written(b, file)
    BY <1>1, TextOperations
  <2>2. parent' = [buffer |-> <<>>] /\ file' = file \o b
    BY <1>7, <2>1, StateParts DEF Forks, Written
  <2>3. UNCHANGED <<shown, reports, sent>> /\ child' = parent'
    BY <1>7 DEF Forks, RunTest, book, channel
  <2>4. QED
    BY <1>1, <2>2, <2>3, SeenQuietly DEF b, Incompletes
<1>8. CASE Finishes
  <2>1. FinishTest /\ UNCHANGED <<child, shown, sent>> /\ InParent(TestFinished(Parent, trail, Reported, counters'))
    BY <1>8 DEF Finishes, FinishTest
  <2>2. /\ Reported \in {"incomplete", "terminated"} <=> NextResult = "nothing"
        /\ Incompletes' = Incompletes + (IF NextResult = "nothing" THEN 1 ELSE 0)
    BY <1>2, <2>1, IncompleteTest
  <2>3. Reported \in {"incomplete", "terminated", "skipped", "completed"}
    BY DEF Reported
  <2>4. CASE Reported \in {"skipped", "completed"}
    <3>1. TestFinished(Parent, trail, Reported, counters') = State(b, file)
      BY <1>1, <2>4, TextFinished
    <3>2. parent' = [buffer |-> b] /\ file' = file
      BY <2>1, <3>1, StateParts
    <3>3. Incompletes' = Incompletes
      <4>1. Reported \notin {"incomplete", "terminated"}
        BY <2>4
      <4>2. QED
        BY <1>2, <2>2, <4>1
    <3>4. QED
      BY <1>1, <2>1, <3>2, <3>3, SeenQuietly
  <2>5. CASE Reported \notin {"skipped", "completed"}
    <3>1. TestFinished(Parent, trail, Reported, counters') = Flagged(b, file, "exception", trail)
      BY <1>1, <2>5, TextFinished
    <3>2. parent' = [buffer |-> <<>>] /\ file' = file \o Append(b, Flag("exception", trail))
      BY <2>1, <3>1, StateParts DEF Flagged
    <3>3. Incompletes' = Incompletes + 1
      BY <2>2, <2>3, <2>5
    <3>4. \A t \in Tests : Count(shown'[t], FailNotes) = Count(shown[t], FailNotes)
                             + (IF "exception" = "failure" /\ trail = Path[t] THEN 1 ELSE 0)
      <4>1. \A t \in Tests : Count(shown[t], FailNotes) \in Nat
        BY <1>1, CountType
      <4>2. QED
        BY <2>1, <4>1
    <3>5. /\ sent'["fail"] <= sent["fail"] + (IF "exception" = "failure" THEN 1 ELSE 0)
          /\ sent'["exception"] + Incompletes'
               <= sent["exception"] + Incompletes + (IF "exception" = "exception" THEN 1 ELSE 0)
      BY <1>2, <1>3, <2>1, <3>3
    <3>6. shown' \in [Tests -> Seq(Note)] /\ child' = [buffer |-> <<>>]
      BY <1>1, <2>1
    <3>7. QED
      BY <1>1, <1>2, <1>4, <3>2, <3>4, <3>5, <3>6, SeenLoudly
  <2>6. QED
    BY <2>4, <2>5
<1>9. CASE FinishesSuite
  <2> DEFINE st == SuiteFinished(Parent, trail, counters', total')
  <2>1. PICK p \in Seq(PlainLine) : st = State(p, file)
    <3>1. counters' \in Counts /\ total' \in Counts
      BY <1>2 DEF TypeInv, BookOK, Counts
    <3>2. /\ SuiteLineOf(trail, counters') \in PlainLine /\ LastLine(trail, total') \in PlainLine
          /\ MarkLine(trail, counters') \in PlainLine
      BY <1>4, <3>1 DEF SuiteLineOf, LastLine, MarkLine, PlainLine, Marks
    <3>3. \A l \in PlainLine : \A c \in Seq(PlainLine) : Append(c, l) \in Seq(PlainLine)
      BY AppendProperties
    <3>4. CASE kind = "text"
      <4> DEFINE c == IF HasLine(trail, counters') THEN Append(b, SuiteLineOf(trail, counters')) ELSE b
                 q == IF Len(trail) = 1 THEN Append(c, LastLine(trail, total')) ELSE c
      <4>1. st = State(q, file)
        BY <1>1, <3>4, TextSuites
      <4>2. c \in Seq(PlainLine)
        BY <1>1, <3>2, <3>3
      <4> HIDE DEF c
      <4>3. q \in Seq(PlainLine)
        BY <3>2, <3>3, <4>2
      <4>4. QED
        BY <4>1, <4>3
    <3>5. CASE kind = "quiet"
      <4> DEFINE l == IF Len(trail) = 1 THEN LastLine(trail, total') ELSE MarkLine(trail, counters')
      <4>1. st = State(Append(b, l), file)
        BY <1>1, <3>5, TextSuites
      <4>2. l \in PlainLine
        BY <3>2
      <4> HIDE DEF l
      <4>3. Append(b, l) \in Seq(PlainLine)
        BY <1>1, <3>3, <4>2
      <4>4. QED
        BY <4>1, <4>3
    <3>6. QED
      BY <3>4, <3>5 DEF Told
  <2> HIDE DEF st
  <2>2. UNCHANGED <<child, shown, reports, sent>> /\ InParent(IF Len(stack) = 1 THEN Flushed(st) ELSE st)
    BY <1>9 DEF FinishesSuite, FinishSuite, st
  <2>3. CASE Len(stack) = 1
    <3>1. InParent(Written(p, file))
      BY <2>1, <2>2, <2>3, TextOperations
    <3>2. parent' = [buffer |-> <<>>] /\ file' = file \o p
      BY <3>1, StateParts DEF Written
    <3>3. PlainMemory'
      <4>1. file \o p \in Seq(TextLine)
        BY <1>1, ConcatProperties DEF TextLine
      <4>2. QED
        BY <1>1, <2>2, <3>2, <4>1 DEF PlainMemory
    <3>4. QED
      BY <2>2, <3>2, <3>3, SeenKept DEF Incompletes
  <2>4. CASE Len(stack) # 1
    <3>1. parent' = [buffer |-> p] /\ file' = file
      BY <2>1, <2>2, <2>4, StateParts
    <3>2. QED
      BY <1>1, <2>2, <3>1, SeenQuietly DEF Incompletes
  <2>5. QED
    BY <2>3, <2>4
<1>10. CASE Silent /\ ~(StartsSuite \/ SkipsTest \/ Forks \/ Finishes \/ FinishesSuite)
  <2>1. UNCHANGED <<parent, child, file, shown>>
    BY <1>10 DEF Silent, output
  <2>2. UNCHANGED reports /\ (UNCHANGED sent \/ Send(Main, "completion"))
    BY <1>10 DEF MainGoesOn, EnterSubSuite, TeardownReturns, PassEntry, StartOwnTests, IgnoreCtrlC,
       ReadResult, EndSuite, WaitForChild, book, channel
  <2>3. sent'["fail"] = sent["fail"] /\ sent'["exception"] = sent["exception"]
    BY <1>2, <1>3, <2>2, Sends
  <2>4. QED
    BY <1>1, <2>1, <2>2, <2>3, SeenQuietly DEF Incompletes
<1>11. QED
  BY <1>5, <1>6, <1>7, <1>8, <1>9, <1>10 DEF MainGoesOn

LEMMA SeenFixture ==
  ASSUME NEW depth, NEW height \in Nat, IsTree(depth, height), RunInv, RunInv', AtPath, SeenInv, Told,
         NEW r \in {"pass", "fail"}, NEW m, FixtureReports(r, m)
  PROVE  SeenInv'
<1> DEFINE b == parent.buffer
<1>1. /\ Parent = State(b, file) /\ b \in Seq(PlainLine) /\ <<>> \in Seq(PlainLine)
      /\ parent = [buffer |-> b] /\ child = [buffer |-> <<>>] /\ shown \in [Tests -> Seq(Note)]
      /\ \A t \in Tests : Count(shown[t], FailNotes) \in Nat
  BY Memory DEF SeenInv
<1>2. TypeInv /\ TypeInv' /\ sent \in [Results -> Nat] /\ sent' \in [Results -> Nat]
      /\ Incompletes \in Nat /\ r \in Results /\ "fail" \in Results /\ "exception" \in Results
  BY CountType DEF RunInv, PathInv, TypeInv, ChannelOK, BookOK, Incompletes, Results
<1> HIDE DEF b
<1>3. PICK st \in Shown(Parent, trail, r, 0, m) : FixtureAsserts(r) /\ InParent(st)
  BY PlainFixture DEF Told, Plain
<1>4. UNCHANGED <<child, shown>> /\ pc \in {"setup", "teardown"}
  BY DEF FixtureReports
<1>5. UNCHANGED reports /\ Send(Main, r)
  BY <1>3 DEF FixtureAsserts, book
<1>6. CASE r = "pass"
  <2>1. st = State(b, file)
    <3>1. Shown(Parent, trail, r, 0, m) = {State(b, file)}
      BY <1>1, <1>6, TextShows
    <3>2. QED
      BY <1>3, <3>1
  <2>2. parent' = [buffer |-> b] /\ file' = file
    BY <1>3, <2>1, StateParts
  <2>3. sent'["fail"] = sent["fail"] /\ sent'["exception"] = sent["exception"]
    BY <1>2, <1>5, <1>6, Sends
  <2>4. QED
    BY <1>1, <1>4, <1>5, <2>2, <2>3, SeenQuietly DEF Incompletes
<1>7. CASE r = "fail"
  <2>1. st = Flagged(b, file, "failure", trail)
    <3>1. Shown(Parent, trail, r, 0, m) = {Flagged(b, file, "failure", trail)}
      BY <1>1, <1>7, TextShows
    <3>2. QED
      BY <1>3, <3>1
  <2>2. parent' = [buffer |-> <<>>] /\ file' = file \o Append(b, Flag("failure", trail))
    BY <1>3, <2>1, StateParts DEF Flagged
  <2>3. trail \in Names /\ \A t \in Tests : trail # Path[t]
    <3>1. trail \in Names
      BY <1>2 DEF TypeInv, MainOK, Names, Named
    <3>2. QED
      BY <1>4, <3>1, FixturesAtTheirPath
  <2>4. \A t \in Tests : Count(shown'[t], FailNotes) = Count(shown[t], FailNotes)
                           + (IF "failure" = "failure" /\ trail = Path[t] THEN 1 ELSE 0)
    BY <1>1, <1>4, <2>3
  <2>5. sent'["fail"] <= sent["fail"] + (IF "failure" = "failure" THEN 1 ELSE 0)
    BY <1>2, <1>5, <1>7, Sends
  <2>6. sent'["exception"] + Incompletes'
          <= sent["exception"] + Incompletes + (IF "failure" = "exception" THEN 1 ELSE 0)
    <3>1. sent'["exception"] = sent["exception"] /\ Incompletes' = Incompletes
      BY <1>2, <1>5, <1>7, Sends DEF Incompletes
    <3>2. QED
      BY <1>2, <3>1
  <2>7. shown' \in [Tests -> Seq(Note)] /\ child' = [buffer |-> <<>>]
    BY <1>1, <1>4
  <2>8. QED
    BY <1>1, <1>2, <2>2, <2>3, <2>4, <2>5, <2>6, <2>7, SeenLoudly
<1>8. QED
  BY <1>6, <1>7

\* a failure or exception that test t shows on its path, and what it may send
LEMMA SeenTest ==
  ASSUME NEW depth, NEW height \in Nat, IsTree(depth, height), RunInv, RunInv', AtPath, SeenInv, Told,
         NEW t \in Tests, code[t] \in Running, pc # "stopped",
         NEW r \in {"fail", "exception"}, NEW m \in Messages \cup {<<>>}, Records(t, r, m),
         UNCHANGED <<parent, reports>>, child' = [buffer |-> <<>>],
         file' = file \o Append(<<>>, Flag(IF r = "fail" THEN "failure" ELSE "exception", trail)),
         UNCHANGED sent \/ Send(t, r)
  PROVE  SeenInv'
<1> DEFINE what == IF r = "fail" THEN "failure" ELSE "exception"
<1>1. trail = Path[t] /\ trail \in Names
  BY RunsAtItsPath
<1>2. \A u \in Tests : trail = Path[u] <=> u = t
  <2>1. \A u \in Tests : LastOf(Path[u]) = u
    BY PathType DEF Named
  <2>2. QED
    BY <1>1, <2>1
<1>3. /\ parent = [buffer |-> parent.buffer] /\ parent.buffer \in Seq(PlainLine) /\ <<>> \in Seq(PlainLine)
      /\ \A u \in Tests : Count(shown[u], FailNotes) \in Nat
  BY Memory DEF SeenInv
<1>4. TypeInv /\ TypeInv' /\ sent \in [Results -> Nat] /\ sent' \in [Results -> Nat]
      /\ Incompletes \in Nat /\ r \in Results /\ "fail" \in Results /\ "exception" \in Results
  BY CountType DEF RunInv, PathInv, TypeInv, ChannelOK, BookOK, Incompletes, Results
<1>5. /\ shown' \in [Tests -> Seq(Note)]
      /\ \A u \in Tests : Count(shown'[u], FailNotes)
           = Count(shown[u], FailNotes) + (IF r = "fail" /\ u = t THEN 1 ELSE 0)
  BY <1>4, Notes
<1>6. \A u \in Tests : Count(shown'[u], FailNotes)
        = Count(shown[u], FailNotes) + (IF what = "failure" /\ trail = Path[u] THEN 1 ELSE 0)
  BY <1>2, <1>5
<1>7. \A k \in Results : sent'[k] <= sent[k] + (IF k = r THEN 1 ELSE 0) /\ (k # r => sent'[k] = sent[k])
  BY <1>4, Sends
<1>8. sent'["fail"] <= sent["fail"] + (IF what = "failure" THEN 1 ELSE 0)
  BY <1>4, <1>7
<1>9. sent'["exception"] + Incompletes' <= sent["exception"] + Incompletes + (IF what = "exception" THEN 1 ELSE 0)
  <2>1. Incompletes' = Incompletes
    BY DEF Incompletes
  <2>2. sent'["exception"] <= sent["exception"] + (IF what = "exception" THEN 1 ELSE 0)
    BY <1>4, <1>7
  <2>3. QED
    BY <1>4, <2>1, <2>2
<1>10. what \in {"failure", "exception"} /\ parent' = [buffer |-> parent.buffer]
  BY <1>3
<1> HIDE DEF what
<1>11. file' = file \o Append(<<>>, Flag(what, trail))
  BY DEF what
<1>12. QED
  BY <1>1, <1>3, <1>4, <1>5, <1>6, <1>8, <1>9, <1>10, <1>11, SeenLoudly

LEMMA SeenCode ==
  ASSUME NEW depth, NEW height \in Nat, IsTree(depth, height), RunInv, RunInv', AtPath, SeenInv, Told,
         NEW t \in Tests, TestStep(t)
  PROVE  SeenInv'
<1> DEFINE b == parent.buffer
<1>1. /\ Child = State(<<>>, file) /\ parent = [buffer |-> b] /\ b \in Seq(PlainLine)
      /\ child = [buffer |-> <<>>] /\ file \in Seq(TextLine) /\ shown \in [Tests -> Seq(Note)]
      /\ \A u \in Tests : Count(shown[u], FailNotes) \in Nat
  BY Memory DEF SeenInv
<1>2. /\ TypeInv /\ sent \in [Results -> Nat]
      /\ "fail" \in Results /\ "exception" \in Results /\ "pass" \in Results /\ "completion" \in Results
  BY DEF RunInv, PathInv, TypeInv, ChannelOK, Results
<1>3. file \o <<>> = file
  BY <1>1, EmptyEnds
<1>4. ~Hung(child) /\ \A own : ~Hung(own)
  BY DEF Told, Hung
<1>5. Texts \subseteq Messages \cup {<<>>} /\ <<>> \in Messages \cup {<<>>}
  BY DEF Texts
<1> HIDE DEF b
\* nothing is shown or sent that counts
<1>6. ASSUME UNCHANGED <<parent, reports>>, child' = [buffer |-> <<>>], file' = file,
             shown' \in [Tests -> Seq(Note)],
             \A u \in Tests : Count(shown'[u], FailNotes) = Count(shown[u], FailNotes),
             UNCHANGED sent \/ \E r \in {"pass", "completion"} : Send(t, r)
      PROVE  SeenInv'
  <2>1. sent'["fail"] = sent["fail"] /\ sent'["exception"] = sent["exception"]
    BY <1>2, <1>6, Sends
  <2>2. Incompletes' = Incompletes /\ parent' = [buffer |-> b]
    BY <1>1, <1>6 DEF Incompletes
  <2>3. QED
    BY <1>1, <1>6, <2>1, <2>2, SeenQuietly
<1>7. CASE TestGoesOn(t)
  <2>1. UNCHANGED <<parent, child, file, shown>>
    BY <1>7 DEF TestGoesOn, Silent, output
  <2>2. UNCHANGED reports /\ (UNCHANGED sent \/ Send(t, "completion"))
    BY <1>7 DEF TestGoesOn, CodeAdvances, CodeCompletes, book, channel
  <2>3. QED
    BY <1>1, <1>6, <2>1, <2>2
<1>8. CASE TestThrows(t)
  <2>1. code[t] \in Running /\ pc # "stopped" /\ UNCHANGED <<parent, reports>> /\ Send(t, "exception")
        /\ Records(t, "exception", <<>>)
    BY <1>8 DEF TestThrows, CodeThrows, book
  <2>2. InChild(Flagged(<<>>, file, "exception", trail))
    BY <1>1, <1>8, TextShows DEF TestThrows
  <2>3. child' = [buffer |-> <<>>] /\ file' = file \o Append(<<>>, Flag("exception", trail))
    BY <2>2, StateParts DEF Flagged
  <2>4. QED
    BY <1>5, <2>1, <2>3, SeenTest
<1>9. CASE TestExits(t)
  <2>1. UNCHANGED <<parent, shown>> /\ InChild(Written(<<>>, file))
    BY <1>1, <1>9, TextOperations DEF TestExits
  <2>2. child' = [buffer |-> <<>>] /\ file' = file
    BY <1>3, <2>1, StateParts DEF Written
  <2>3. UNCHANGED <<reports, sent>>
    BY <1>9 DEF TestExits, CodeDies, Dies, Alarm, ChildEnds, book, channel
  <2>4. QED
    BY <1>1, <1>6, <2>1, <2>2, <2>3
<1>10. CASE TestReports(t, "pass", <<>>)
  <2>1. CodeSends(t, "pass") /\ Records(t, "pass", <<>>) /\ UNCHANGED parent /\ InChild(State(<<>>, file))
    <3>1. Shown(Child, trail, "pass", Len(shown[t]) + 1, <<>>) = {State(<<>>, file)}
      BY <1>1, TextShows
    <3>2. QED
      BY <1>4, <1>10, <3>1 DEF TestReports
  <2>2. child' = [buffer |-> <<>>] /\ file' = file
    BY <2>1, StateParts
  <2>3. UNCHANGED reports /\ Send(t, "pass")
    BY <2>1 DEF CodeSends, book
  <2>4. /\ shown' \in [Tests -> Seq(Note)]
        /\ \A u \in Tests : Count(shown'[u], FailNotes)
             = Count(shown[u], FailNotes) + (IF "pass" = "fail" /\ u = t THEN 1 ELSE 0)
    BY <1>2, <1>5, <2>1, Notes
  <2>5. \A u \in Tests : Count(shown'[u], FailNotes) = Count(shown[u], FailNotes)
    BY <1>1, <2>4
  <2>6. QED
    BY <1>6, <2>1, <2>2, <2>3, <2>4, <2>5
<1>11. ASSUME NEW m \in Texts, TestReports(t, "fail", m) PROVE SeenInv'
  <2>1. CodeSends(t, "fail") /\ Records(t, "fail", m) /\ UNCHANGED parent
        /\ InChild(Flagged(<<>>, file, "failure", trail))
    <3>1. Shown(Child, trail, "fail", Len(shown[t]) + 1, m) = {Flagged(<<>>, file, "failure", trail)}
      BY <1>1, TextShows
    <3>2. QED
      BY <1>4, <1>11, <3>1 DEF TestReports
  <2>2. child' = [buffer |-> <<>>] /\ file' = file \o Append(<<>>, Flag("failure", trail))
    BY <2>1, StateParts DEF Flagged
  <2>3. code[t] \in Running /\ pc # "stopped" /\ UNCHANGED reports /\ Send(t, "fail")
    BY <1>11, <2>1 DEF TestReports, CodeSends, book
  <2>4. QED
    BY <1>5, <2>1, <2>2, <2>3, SeenTest
<1>12. ASSUME NEW how \in Signals, TestKilled(t, how) PROVE SeenInv'
  <2>1. UNCHANGED <<parent, child, shown, reports, sent>> /\ file' \in Remains(Child)
    BY <1>12 DEF TestKilled, CodeDies, Dies, book
  <2>2. Remains(Child) = {file, file \o <<>>}
    BY <1>1, TextOperations
  <2>3. file' = file
    BY <1>3, <2>1, <2>2
  <2>4. QED
    BY <1>1, <1>6, <2>1, <2>3
<1>13. ASSUME NEW how \in Signals, NEW m \in Texts, TestKilledReporting(t, how, m) PROVE SeenInv'
  <2>1. /\ UNCHANGED <<parent, child, reports, sent>> /\ Records(t, "fail", m)
        /\ code[t] \in Running /\ pc # "stopped"
        /\ \E st \in Shown(Child, trail, "fail", Len(shown[t]) + 1, m) : file' \in Remains(st)
    BY <1>13 DEF TestKilledReporting, CodeDies, Dies, book
  <2> DEFINE new == file \o Append(<<>>, Flag("failure", trail))
  <2>2. Shown(Child, trail, "fail", Len(shown[t]) + 1, m) = {State(<<>>, new)}
    <3>1. Shown(Child, trail, "fail", Len(shown[t]) + 1, m) = {Flagged(<<>>, file, "failure", trail)}
      BY <1>1, TextShows
    <3>2. QED
      BY <3>1 DEF Flagged
  <2>3. file' \in {new, new \o <<>>}
    <3>1. Remains(State(<<>>, new)) = {new, new \o <<>>}
      BY TextOperations
    <3>2. QED
      BY <2>1, <2>2, <3>1
  <2>4. new \o <<>> = new
    <3>1. trail \in Names
      BY <2>1, RunsAtItsPath
    <3>2. Flag("failure", trail) \in TextLine
      BY <3>1 DEF Flag, TextLine, ShownLine
    <3>3. new \in Seq(TextLine)
      BY <1>1, <3>2, AppendProperties, ConcatProperties
    <3>4. QED
      BY <3>3, EmptyEnds
  <2>5. QED
    BY <1>1, <1>5, <2>1, <2>3, <2>4, SeenTest
<1>14. QED
  BY <1>7, <1>8, <1>9, <1>10, <1>11, <1>12, <1>13 DEF TestStep

LEMMA SeenStep ==
  ASSUME NEW depth, NEW height \in Nat, IsTree(depth, height), RunInv, RunInv', AtPath, SeenInv, Told,
         [ReportNext]_allvars
  PROVE  SeenInv'
<1>1. CASE UNCHANGED allvars
  BY <1>1 DEF allvars, output, vars, main, book, channel, SeenInv, PlainMemory, Seen, Incompletes, Count
<1>2. QED
  BY <1>1, SeenMain, SeenFixture, SeenCode DEF ReportNext

\* the report begins with a line on the run, or with nothing
LEMMA TextBegins ==
  ASSUME ReportInit, Told
  PROVE  \E f \in Seq(PlainLine) :
           /\ parent = [buffer |-> <<>>] /\ child = parent /\ file = f
           /\ \A j \in 1..Len(f) : f[j].line = "running"
<1> DEFINE line == [line |-> "running", path |-> <<Root>>]
<1>1. trail = <<Root>> /\ <<Root>> \in Names /\ Len(<<Root>>) = 1
  BY TreeAssumption DEF ReportInit, Init, Names, Named
<1>2. CASE kind = "text"
  <2>1. /\ parent = Verbose!start_suite(Verbose!create, <<Root>>).own /\ child = parent
        /\ file = Verbose!start_suite(Verbose!create, <<Root>>).file
    BY <1>2 DEF ReportInit, Begin, SuiteStarted
  <2>2. Verbose!create = State(<<>>, <<>>)
    BY DEF Verbose!create, State
  <2>3. Verbose!start_suite(Verbose!create, <<Root>>) = Verbose!Flush(State(Append(<<>>, line), <<>>))
    BY <1>1, <2>2, Buffered DEF Verbose!start_suite, Verbose!printer
  <2>4. Verbose!Flush(State(Append(<<>>, line), <<>>))
          = [own |-> [buffer |-> <<>>], file |-> <<>> \o Append(<<>>, line)]
    BY DEF Verbose!Flush, State
  <2>5. <<>> \o Append(<<>>, line) = <<line>> /\ <<line>> \in Seq(PlainLine) /\ <<line>>[1].line = "running"
    <3>1. line \in PlainLine
      BY <1>1 DEF PlainLine
    <3>2. <<>> \o Append(<<>>, line) = Append(<<>> \o <<>>, line) /\ <<>> \o <<>> = <<>>
      BY <3>1, ConcatAppend, EmptyEnds
    <3>3. QED
      BY <3>1, <3>2
  <2>6. parent = [buffer |-> <<>>] /\ child = parent /\ file = <<line>>
    BY <2>1, <2>3, <2>4, <2>5
  <2>7. \A j \in 1..Len(<<line>>) : <<line>>[j].line = "running"
    OBVIOUS
  <2>8. QED
    BY <2>5, <2>6, <2>7
<1>3. CASE kind = "quiet"
  <2>1. /\ parent = Quiet!start_suite(Verbose!create, <<Root>>).own /\ child = parent
        /\ file = Quiet!start_suite(Verbose!create, <<Root>>).file
    BY <1>3 DEF ReportInit, Begin, SuiteStarted
  <2>2. Quiet!start_suite(Verbose!create, <<Root>>) = [own |-> [buffer |-> <<>>], file |-> <<>> \o <<>>]
    BY <1>1 DEF Quiet!start_suite, Verbose!create, Quiet!Flush
  <2>3. <<>> \o <<>> = <<>> /\ <<>> \in Seq(PlainLine)
    BY EmptyEnds
  <2>4. parent = [buffer |-> <<>>] /\ child = parent /\ file = <<>>
    BY <2>1, <2>2, <2>3
  <2>5. \A j \in 1..Len(<<>>) : <<>>[j].line = "running"
    OBVIOUS
  <2>6. QED
    BY <2>3, <2>4, <2>5
<1>4. QED
  BY <1>2, <1>3 DEF Told

LEMMA SeenInit == ASSUME ReportInit, Told PROVE SeenInv
<1>1. /\ shown = [t \in Tests |-> <<>>] /\ \A r \in Results : sent[r] = 0 /\ reports = <<>>
  BY DEF ReportInit, Init
<1>2. PICK f \in Seq(PlainLine) : parent = [buffer |-> <<>>] /\ child = parent /\ file = f
  BY TextBegins
<1>3. PlainMemory
  <2>1. <<>> \in Seq(Note) /\ <<>> \in Seq(PlainLine) /\ f \in Seq(TextLine)
    BY DEF TextLine
  <2>2. QED
    BY <1>1, <1>2, <2>1 DEF PlainMemory
<1>4. ASSUME NEW R, R \cap PlainLine = {} PROVE Count(file, R) = 0
  <2>1. {j \in 1..Len(f) : f[j] \in R} = {}
    BY <1>4, ElementOfSeq
  <2>2. QED
    BY <1>2, <2>1, FS_EmptySet DEF Count
<1>5. /\ Like("failure") \cap PlainLine = {} /\ Like("exception") \cap PlainLine = {}
      /\ \A t \in Tests : About(t) \cap PlainLine = {}
  BY LineKinds DEF Like, About
<1>6. /\ Incompletes = 0 /\ \A t \in Tests : Count(shown[t], FailNotes) = 0
      /\ sent["fail"] = 0 /\ sent["exception"] = 0
  BY <1>1, CountEmpty DEF Incompletes, Results
<1>7. QED
  BY <1>3, <1>4, <1>5, <1>6 DEF SeenInv, Seen

\* The user of the text reporter sees every failure and exception that is counted,
\* with the path of its test, whatever is killed: for any finite tree of suites and tests.
THEOREM CountedIsSeen ==
  ASSUME NEW depth, NEW height \in Nat, IsTree(depth, height)
  PROVE  ReportSpec => []NothingCountedUnseen
<1> DEFINE Inv == Told => RunInv /\ AtPath /\ SeenInv
<1>1. ReportInit => Inv
  BY RunInit, AtPathInit, SeenInit DEF ReportInit
<1>2. Inv /\ [ReportNext]_allvars => Inv'
  <2> SUFFICES ASSUME Inv, [ReportNext]_allvars, Told' PROVE (RunInv /\ AtPath /\ SeenInv)'
    OBVIOUS
  <2>1. kind' = kind
    BY KindStays
  <2>2. Told /\ Plain
    BY <2>1 DEF Told, Plain
  <2>3. RunInv' /\ AtPath'
    BY <2>2, RunStep, RunSteps, AtPathStep DEF RunInv
  <2>4. SeenInv'
    BY <2>2, <2>3, SeenStep
  <2>5. QED
    BY <2>3, <2>4
<1>3. Inv => NothingCountedUnseen
  BY SeenTells DEF NothingCountedUnseen
<1>4. QED
  BY <1>1, <1>2, <1>3, PTL DEF ReportSpec

-----------------------------------------------------------------------------
(* What the lines on suites add up to                                      *)

LEMMA InLineType == ASSUME NEW l \in TextLine, NEW k \in Kinds PROVE InLine(l, k) \in Nat
<1>1. CASE l.line = "suite"
  <2>1. l.counts \in [Kinds -> Nat]
    BY <1>1 DEF TextLine, ShownLine, PlainLine, Counts
  <2>2. QED
    BY <1>1, <2>1 DEF InLine
<1>2. QED
  BY <1>1 DEF InLine

\* AddedUp is defined by recursion over the lines
LEMMA UpIs ==
  ASSUME NEW s \in Seq(TextLine), NEW k \in Kinds
  PROVE  \E F \in [0..Len(s) -> Nat] :
           /\ F[0] = 0 /\ \A n \in 1..Len(s) : F[n] = F[n - 1] + InLine(s[n], k)
           /\ AddedUp(s, k) = F[Len(s)]
<1> DEFINE N == Len(s)
           I == [i \in 0..N |-> Nat]
           g == [q \in (1..N) \X Nat |-> q[2] + InLine(s[q[1]], k)]
           Is(F) == F = [n \in 0..N |-> IF n = 0 THEN 0 ELSE F[n - 1] + InLine(s[n], k)]
<1>1. N \in Nat /\ 0 \in I[0]
  OBVIOUS
<1>2. \A n \in 1..N : InLine(s[n], k) \in Nat
  BY ElementOfSeq, InLineType
<1>3. Leads(g, N, I)
  BY <1>1, <1>2 DEF Leads
<1>4. PICK F : Recurs(F, N, 0, g) /\ Within(F, N, I)
  <2> HIDE DEF I, g, N
  <2>1. QED
    BY <1>1, <1>3, RecursionExists
<1>5. F \in [0..N -> Nat] /\ F[0] = 0 /\ \A n \in 1..N : F[n] = F[n - 1] + InLine(s[n], k)
  <2>1. F = [i \in 0..N |-> F[i]] /\ F[0] = 0 /\ \A i \in 0..N : F[i] \in Nat
    BY <1>4 DEF Recurs, Within
  <2>2. \A n \in 1..N : F[n] = g[<<n, F[n - 1]>>]
    BY <1>4 DEF Recurs
  <2>3. ASSUME NEW n \in 1..N PROVE F[n] = F[n - 1] + InLine(s[n], k)
    <3>1. n - 1 \in 0..N
      OBVIOUS
    <3>2. <<n, F[n - 1]>> \in (1..N) \X Nat
      BY <2>1, <3>1
    <3>3. QED
      BY <2>2, <3>2
  <2>4. QED
    BY <2>1, <2>3
<1>6. Is(F)
  BY <1>5
<1>7. AddedUp(s, k) = (CHOOSE G : Is(G))[N]
  BY DEF AddedUp
<1>8. Is(CHOOSE G : Is(G))
  <2> HIDE DEF Is
  <2>1. QED
    BY <1>6
<1>9. (CHOOSE G : Is(G)) = F
  <2> DEFINE H == CHOOSE G : Is(G)
             Same == {n \in 0..N : H[n] = F[n]}
  <2>1. H = [n \in 0..N |-> IF n = 0 THEN 0 ELSE H[n - 1] + InLine(s[n], k)]
    BY <1>8
  <2> HIDE DEF H
  <2>2. 0 \in Same
    BY <1>1, <1>5, <2>1
  <2>3. ASSUME NEW n \in 1..N, n - 1 \in Same PROVE n \in Same
    <3>1. H[n] = H[n - 1] + InLine(s[n], k)
      BY <2>1
    <3>2. QED
      BY <1>5, <2>3, <3>1
  <2>4. 0..N \subseteq Same
    <3> HIDE DEF Same
    <3>1. QED
      BY <1>1, <2>2, <2>3, Stepwise
  <2>5. H = F
    <3>1. DOMAIN H = 0..N
      BY <2>1
    <3>2. H = [n \in 0..N |-> H[n]]
      BY <2>1
    <3>3. \A n \in 0..N : H[n] = F[n]
      BY <2>4
    <3> HIDE DEF Same
    <3>4. QED
      BY <1>5, <3>2, <3>3
  <2>6. QED
    BY <2>5 DEF H
<1>10. QED
  BY <1>5, <1>7, <1>9

LEMMA UpEmpty == ASSUME NEW k \in Kinds PROVE AddedUp(<<>>, k) = 0
<1>1. <<>> \in Seq(TextLine) /\ Len(<<>>) = 0
  OBVIOUS
<1>2. QED
  BY <1>1, UpIs

LEMMA UpConcat ==
  ASSUME NEW s \in Seq(TextLine), NEW b \in Seq(TextLine), NEW k \in Kinds
  PROVE  /\ AddedUp(s \o b, k) = AddedUp(s, k) + AddedUp(b, k)
         /\ AddedUp(s, k) \in Nat /\ AddedUp(b, k) \in Nat
<1> DEFINE m == Len(s)
           n == Len(b)
<1>1. /\ m \in Nat /\ n \in Nat /\ s \o b \in Seq(TextLine) /\ Len(s \o b) = m + n
      /\ \A i \in 1..m : (s \o b)[i] = s[i]
      /\ \A i \in 1..n : (s \o b)[m + i] = b[i]
  <2>1. /\ m \in Nat /\ n \in Nat /\ s \o b \in Seq(TextLine) /\ Len(s \o b) = m + n
        /\ \A i \in 1..m : (s \o b)[i] = s[i]
        /\ \A i \in 1..(m + n) : i > m => (s \o b)[i] = b[i - m]
    BY ConcatProperties
  <2>2. ASSUME NEW i \in 1..n PROVE (s \o b)[m + i] = b[i]
    <3>1. m + i \in 1..(m + n) /\ m + i > m /\ (m + i) - m = i
      BY <2>1
    <3>2. QED
      BY <2>1, <3>1
  <2>3. QED
    BY <2>1, <2>2
<1>2. PICK F \in [0..m -> Nat] :
        /\ F[0] = 0 /\ \A i \in 1..m : F[i] = F[i - 1] + InLine(s[i], k)
        /\ AddedUp(s, k) = F[m]
  BY UpIs
<1>3. PICK G \in [0..n -> Nat] :
        /\ G[0] = 0 /\ \A i \in 1..n : G[i] = G[i - 1] + InLine(b[i], k)
        /\ AddedUp(b, k) = G[n]
  BY UpIs
<1>4. PICK H \in [0..(m + n) -> Nat] :
        /\ H[0] = 0 /\ \A i \in 1..(m + n) : H[i] = H[i - 1] + InLine((s \o b)[i], k)
        /\ AddedUp(s \o b, k) = H[m + n]
  <2> DEFINE sb == s \o b
  <2>1. sb \in Seq(TextLine) /\ Len(sb) = m + n
    BY <1>1
  <2> HIDE DEF sb
  <2>2. \E Ups \in [0..Len(sb) -> Nat] :
          /\ Ups[0] = 0 /\ \A i \in 1..Len(sb) : Ups[i] = Ups[i - 1] + InLine(sb[i], k)
          /\ AddedUp(sb, k) = Ups[Len(sb)]
    BY <2>1, UpIs
  <2>3. QED
    BY <2>1, <2>2 DEF sb
<1> HIDE DEF m, n
<1> DEFINE Head1 == {i \in 0..m : H[i] = F[i]}
           Tail1 == {i \in 0..n : H[m + i] = F[m] + G[i]}
<1>5. m \in Head1
  <2>1. 0 \in Head1
    BY <1>1, <1>2, <1>4
  <2>2. ASSUME NEW i \in 1..m, i - 1 \in Head1 PROVE i \in Head1
    <3>1. i \in 1..(m + n)
      BY <1>1
    <3>2. H[i] = H[i - 1] + InLine((s \o b)[i], k) /\ F[i] = F[i - 1] + InLine(s[i], k)
      BY <1>2, <1>4, <3>1
    <3>3. (s \o b)[i] = s[i] /\ H[i - 1] = F[i - 1]
      BY <1>1, <2>2
    <3>4. QED
      BY <3>2, <3>3
  <2> HIDE DEF Head1
  <2>3. 0..m \subseteq Head1
    BY <1>1, <2>1, <2>2, Stepwise
  <2>4. QED
    BY <1>1, <2>3
<1>6. n \in Tail1
  <2>1. 0 \in Tail1
    BY <1>1, <1>2, <1>3, <1>5
  <2>2. ASSUME NEW i \in 1..n, i - 1 \in Tail1 PROVE i \in Tail1
    <3>1. m + i \in 1..(m + n) /\ (m + i) - 1 = m + (i - 1) /\ i - 1 \in 0..n
          /\ m \in 0..m /\ i \in 0..n /\ m + i \in 0..(m + n)
      BY <1>1
    <3>2. H[m + i] = H[m + (i - 1)] + InLine((s \o b)[m + i], k) /\ G[i] = G[i - 1] + InLine(b[i], k)
      BY <1>3, <1>4, <3>1
    <3>3. H[m + (i - 1)] = F[m] + G[i - 1]
      BY <2>2
    <3>4. (s \o b)[m + i] = b[i]
      BY <1>1
    <3>5. F[m] \in Nat /\ G[i - 1] \in Nat /\ G[i] \in Nat /\ H[m + i] \in Nat
      BY <3>1
    <3>6. H[m + i] = F[m] + G[i]
      <4> DEFINE x == InLine(b[i], k)
      <4>1. H[m + i] = (F[m] + G[i - 1]) + x /\ G[i] = G[i - 1] + x
        BY <3>2, <3>3, <3>4
      <4>2. x \in Int
        <5>1. b[i] \in TextLine
          BY <1>1, ElementOfSeq DEF n
        <5>2. QED
          BY <5>1, InLineType
      <4> HIDE DEF x
      <4>3. QED
        BY <3>5, <4>1, <4>2
    <3>7. QED
      BY <3>6
  <2> HIDE DEF Tail1
  <2>3. 0..n \subseteq Tail1
    BY <1>1, <2>1, <2>2, Stepwise
  <2>4. QED
    BY <1>1, <2>3
<1>7. F[m] \in Nat /\ G[n] \in Nat
  BY <1>1, <1>2, <1>3
<1>8. QED
  BY <1>2, <1>3, <1>4, <1>6, <1>7

LEMMA UpAppend ==
  ASSUME NEW s \in Seq(TextLine), NEW l \in TextLine, NEW k \in Kinds
  PROVE  /\ AddedUp(Append(s, l), k) = AddedUp(s, k) + InLine(l, k)
         /\ AddedUp(s, k) \in Nat
<1>1. <<l>> \in Seq(TextLine) /\ Len(<<l>>) = 1 /\ <<l>>[1] = l
  OBVIOUS
<1>2. s \o <<l>> = Append(s, l)
  BY AppendIsConcat
<1>3. AddedUp(<<l>>, k) = InLine(l, k)
  <2>1. PICK F \in [0..1 -> Nat] :
          /\ F[0] = 0 /\ \A n \in 1..1 : F[n] = F[n - 1] + InLine(<<l>>[n], k)
          /\ AddedUp(<<l>>, k) = F[1]
    BY <1>1, UpIs
  <2>2. F[1] = 0 + InLine(l, k)
    <3>1. 1 \in 1..1 /\ 1 - 1 = 0
      OBVIOUS
    <3>2. QED
      BY <1>1, <2>1, <3>1
  <2>3. F[1] \in Nat
    BY <2>1
  <2>4. InLine(l, k) \in Nat
    BY InLineType
  <2>5. QED
    BY <2>1, <2>2, <2>4
<1>4. QED
  BY <1>1, <1>2, <1>3, UpConcat

\* what a step may write, apart from the end of a suite
LEMMA TextSteps ==
  ASSUME RunInv, PlainMemory, Told, [ReportNext]_allvars
  PROVE  \/ FinishesSuite
         \/ UNCHANGED <<parent, file>>
         \/ pc # "stopped" /\ parent' = [buffer |-> <<>>] /\ file' = file \o parent.buffer
         \/ pc # "stopped" /\ \E e \in ShownLine :
              \/ parent' = [buffer |-> <<>>] /\ file' = file \o Append(parent.buffer, e)
              \/ UNCHANGED parent /\ file' = file \o Append(<<>>, e)
<1> DEFINE b == parent.buffer
           Goal == \/ FinishesSuite
                   \/ UNCHANGED <<parent, file>>
                   \/ pc # "stopped" /\ parent' = [buffer |-> <<>>] /\ file' = file \o b
                   \/ pc # "stopped" /\ \E e \in ShownLine :
                        \/ parent' = [buffer |-> <<>>] /\ file' = file \o Append(b, e)
                        \/ UNCHANGED parent /\ file' = file \o Append(<<>>, e)
<1> SUFFICES Goal
  OBVIOUS
<1>1. /\ Parent = State(b, file) /\ Child = State(<<>>, file) /\ parent = [buffer |-> b]
      /\ file \in Seq(TextLine) /\ b \in Seq(PlainLine)
  BY Memory
<1>2. TypeInv /\ trail \in Names
  BY DEF RunInv, PathInv, TypeInv, MainOK, Names, Named
<1>3. \A what \in {"failure", "exception"} : Flag(what, trail) \in ShownLine
  BY <1>2 DEF Flag, ShownLine
<1>4. file \o <<>> = file /\ \A e \in ShownLine : (file \o Append(<<>>, e)) \o <<>> = file \o Append(<<>>, e)
  <2>1. ASSUME NEW e \in ShownLine PROVE file \o Append(<<>>, e) \in Seq(TextLine)
    <3>1. e \in TextLine
      BY DEF TextLine
    <3>2. QED
      BY <1>1, <3>1, AppendProperties, ConcatProperties
  <2>2. QED
    BY <1>1, <2>1, EmptyEnds
<1>5. ~Hung(child) /\ \A own : ~Hung(own)
  BY DEF Told, Hung
<1> HIDE DEF b
<1>6. CASE MainGoesOn
  <2>1. CASE StartsSuite
    <3>1. Len(trail') # 1
      BY <1>2, <2>1, PlainSuite, AppendProperties DEF Told, Plain, StartSubSuite, Names, Named, TypeInv, MainOK, RunInv, PathInv, PathOK
    <3>2. SuiteStarted(Parent, trail') = State(b, file)
      BY <1>1, <3>1, TextSuites
    <3>3. QED
      BY <1>1, <2>1, <3>2, StateParts, PlainSuite DEF Told, Plain
  <2>2. CASE SkipsTest
    <3>1. TestStarted(Parent, Entry) = State(b, file)
      BY <1>1, TextOperations
    <3>2. QED
      BY <1>1, <2>2, <3>1, StateParts DEF SkipsTest
  <2>3. CASE Forks
    <3>1. Flushed(TestStarted(Parent, Entry)) = Written(b, file)
      BY <1>1, TextOperations
    <3>2. parent' = [buffer |-> <<>>] /\ file' = file \o b /\ pc # "stopped"
      BY <2>3, <3>1, StateParts DEF Forks, Written, RunTest, AtTest
    <3>3. QED
      BY <3>2
  <2>4. CASE Finishes
    <3>1. InParent(TestFinished(Parent, trail, Reported, counters')) /\ pc # "stopped"
      BY <2>4 DEF Finishes, FinishTest
    <3>2. CASE Reported \in {"skipped", "completed"}
      <4>1. TestFinished(Parent, trail, Reported, counters') = State(b, file)
        BY <1>1, <3>2, TextFinished
      <4>2. QED
        BY <1>1, <3>1, <4>1, StateParts
    <3>3. CASE Reported \notin {"skipped", "completed"}
      <4>1. TestFinished(Parent, trail, Reported, counters') = Flagged(b, file, "exception", trail)
        BY <1>1, <3>3, TextFinished
      <4>2. parent' = [buffer |-> <<>>] /\ file' = file \o Append(b, Flag("exception", trail))
        BY <3>1, <4>1, StateParts DEF Flagged
      <4>3. QED
        BY <1>3, <3>1, <4>2
    <3>4. QED
      BY <3>2, <3>3
  <2>5. CASE Silent
    BY <2>5 DEF Silent, output
  <2>6. QED
    BY <1>6, <2>1, <2>2, <2>3, <2>4, <2>5 DEF MainGoesOn
<1>7. ASSUME NEW r \in {"pass", "fail"}, NEW m, FixtureReports(r, m) PROVE Goal
  <2>1. PICK st \in Shown(Parent, trail, r, 0, m) : InParent(st)
    BY <1>7 DEF FixtureReports
  <2>2. CASE r = "pass"
    <3>1. Shown(Parent, trail, r, 0, m) = {State(b, file)}
      BY <1>1, <2>2, TextShows
    <3>2. st = State(b, file)
      BY <3>1
    <3>3. QED
      BY <1>1, <2>1, <3>2, StateParts
  <2>3. CASE r = "fail"
    <3>1. Shown(Parent, trail, r, 0, m) = {Flagged(b, file, "failure", trail)}
      BY <1>1, <2>3, TextShows
    <3>2. st = Flagged(b, file, "failure", trail)
      BY <3>1
    <3>3. parent' = [buffer |-> <<>>] /\ file' = file \o Append(b, Flag("failure", trail))
      BY <2>1, <3>2, StateParts DEF Flagged
    <3>4. pc # "stopped"
      BY <1>7 DEF FixtureReports
    <3>5. QED
      BY <1>3, <3>3, <3>4
  <2>4. QED
    BY <2>2, <2>3
<1>8. ASSUME NEW t \in Tests, TestStep(t) PROVE Goal
  <2>1. CASE TestGoesOn(t)
    BY <2>1 DEF TestGoesOn, Silent, output
  <2>2. CASE TestThrows(t)
    <3>1. InChild(Flagged(<<>>, file, "exception", trail))
      BY <1>1, <2>2, TextShows DEF TestThrows
    <3>2. UNCHANGED parent /\ pc # "stopped"
      BY <2>2 DEF TestThrows, CodeThrows
    <3>3. file' = file \o Append(<<>>, Flag("exception", trail))
      BY <3>1, StateParts DEF Flagged
    <3>4. QED
      BY <1>3, <3>2, <3>3
  <2>3. CASE TestExits(t)
    <3>1. UNCHANGED parent /\ InChild(Written(<<>>, file))
      BY <1>1, <2>3, TextOperations DEF TestExits
    <3>2. file' = file
      BY <1>4, <3>1, StateParts DEF Written
    <3>3. QED
      BY <3>1, <3>2
  <2>4. CASE TestReports(t, "pass", <<>>)
    <3>1. Shown(Child, trail, "pass", Len(shown[t]) + 1, <<>>) = {State(<<>>, file)}
      BY <1>1, TextShows
    <3>2. UNCHANGED parent /\ InChild(State(<<>>, file))
      BY <2>4, <3>1 DEF TestReports
    <3>3. QED
      BY <3>2, StateParts
  <2>5. ASSUME NEW m \in Texts, TestReports(t, "fail", m) PROVE Goal
    <3>1. Shown(Child, trail, "fail", Len(shown[t]) + 1, m) = {Flagged(<<>>, file, "failure", trail)}
      BY <1>1, TextShows
    <3>2. UNCHANGED parent /\ InChild(Flagged(<<>>, file, "failure", trail)) /\ pc # "stopped"
      BY <2>5, <3>1 DEF TestReports
    <3>3. file' = file \o Append(<<>>, Flag("failure", trail))
      BY <3>2, StateParts DEF Flagged
    <3>4. QED
      BY <1>3, <3>2, <3>3
  <2>6. ASSUME NEW how \in Signals, TestKilled(t, how) PROVE Goal
    <3>1. Remains(Child) = {file, file \o <<>>}
      BY <1>1, TextOperations
    <3>2. UNCHANGED parent /\ file' \in Remains(Child)
      BY <2>6 DEF TestKilled
    <3>3. QED
      BY <1>4, <3>1, <3>2
  <2>7. ASSUME NEW how \in Signals, NEW m \in Texts, TestKilledReporting(t, how, m) PROVE Goal
    <3> DEFINE new == file \o Append(<<>>, Flag("failure", trail))
    <3>1. Shown(Child, trail, "fail", Len(shown[t]) + 1, m) = {Flagged(<<>>, file, "failure", trail)}
      BY <1>1, TextShows
    <3>2. UNCHANGED parent /\ pc # "stopped" /\ file' \in Remains(Flagged(<<>>, file, "failure", trail))
      BY <2>7, <3>1 DEF TestKilledReporting, CodeDies
    <3>3. Remains(State(<<>>, new)) = {new, new \o <<>>}
      BY TextOperations
    <3>4. file' = new
      BY <1>3, <1>4, <3>2, <3>3 DEF Flagged
    <3>5. QED
      BY <1>3, <3>2, <3>4
  <2>8. QED
    BY <1>8, <2>1, <2>2, <2>3, <2>4, <2>5, <2>6, <2>7 DEF TestStep
<1>9. CASE UNCHANGED allvars
  BY <1>9 DEF allvars, output
<1>10. QED
  BY <1>6, <1>7, <1>8, <1>9 DEF ReportNext

\* only the end of a suite changes the totals, and only that of the root ends the run
LEMMA OnlySuitesBook ==
  ASSUME Told, [ReportNext]_allvars, ~FinishesSuite
  PROVE  total' = total /\ (status' \in {"success", "failure"} => status' = status)
<1>1. Forking
  BY ReportAssumption DEF Forking
<1>2. ASSUME NEW t \in Tests, TestStep(t) PROVE UNCHANGED <<total, status>>
  BY <1>1, <1>2 DEF TestStep, TestGoesOn, TestThrows, TestExits, TestReports, TestKilled, TestKilledReporting,
     CodeAdvances, CodeCompletes, CodeThrows, CodeSends, CodeDies, Alarm, ChildEnds, Dies, main, book, vars, Hung, Told
<1>3. ASSUME NEW r, NEW m, FixtureReports(r, m) PROVE UNCHANGED <<total, status>>
  BY <1>3, PlainFixture DEF Told, Plain, FixtureAsserts, main, book
<1>4. ASSUME MainGoesOn PROVE UNCHANGED <<total, status>>
  BY <1>4, PlainSuite DEF Told, Plain, MainGoesOn, SkipsTest, Forks, Finishes, StartSubSuite, SkipTest, RunTest,
     FinishTest, EnterSubSuite, TeardownReturns, PassEntry, StartOwnTests, IgnoreCtrlC, ReadResult, EndSuite, WaitForChild,
     StartTest, Goto, main, book
<1>5. QED
  BY <1>2, <1>3, <1>4 DEF ReportNext, allvars, vars, main, book

\* the lines on suites, written or not, add up to the totals
Adds == kind = "text" => \A k \in Kinds : total[k] = AddedUp(file, k) + AddedUp(parent.buffer, k)

\* when the run ends the last line is on the terminal
Ended ==
  status \in {"success", "failure"} =>
    parent.buffer = <<>> /\ file # <<>> /\ \E path : file[Len(file)] = LastLine(path, total)

AddsInv == Adds /\ Ended

LEMMA AddsTell ==
  ASSUME RunInv, SeenInv, AddsInv PROVE LinesAddUp
<1> SUFFICES ASSUME Told, status \in {"success", "failure"}
             PROVE  LET last == file[Len(file)]
                    IN  /\ last.line = "completed"
                        /\ (status = "success") <=> (Wrong(last.counts) = 0)
                        /\ kind = "text" => \A k \in Kinds : last.counts[k] = AddedUp(file, k)
  BY DEF LinesAddUp
<1> DEFINE last == file[Len(file)]
<1>1. Undisturbed /\ OnlyRunnerExits /\ ~Helper /\ ~Single
  BY ReportAssumption DEF Undisturbed, OnlyRunnerExits, Forking
<1>2. status = Verdict(total)
  BY <1>1 DEF RunInv, SumInv, SumOK
<1>3. total["fail"] \in Nat /\ total["exception"] \in Nat
  BY DEF RunInv, PathInv, TypeInv, BookOK, Kinds, Results
<1>4. last.line = "completed" /\ last.counts = total
  <2>1. PICK path : last = LastLine(path, total)
    BY DEF AddsInv, Ended
  <2>2. LastLine(path, total).line = "completed" /\ LastLine(path, total).counts = total
    BY DEF LastLine
  <2> HIDE DEF last
  <2>3. QED
    BY <2>1, <2>2
<1>5. (status = "success") <=> (Wrong(total) = 0)
  BY <1>1, <1>2, <1>3 DEF Verdict, Wrong
<1>6. ASSUME kind = "text", NEW k \in Kinds PROVE total[k] = AddedUp(file, k)
  <2>1. total[k] = AddedUp(file, k) + AddedUp(<<>>, k)
    BY <1>6 DEF AddsInv, Adds, Ended
  <2>2. AddedUp(<<>>, k) = 0 /\ AddedUp(file, k) \in Nat
    <3>1. file \in Seq(TextLine) /\ <<>> \in Seq(TextLine)
      BY Memory DEF SeenInv
    <3>2. QED
      BY <3>1, UpEmpty, UpConcat
  <2>3. QED
    BY <2>1, <2>2
<1>7. QED
  BY <1>4, <1>5, <1>6

LEMMA AddsInit == ASSUME ReportInit, Told PROVE AddsInv
<1>1. status = "running" /\ total = NoCounts
  BY DEF ReportInit, Init
<1>2. PICK f \in Seq(PlainLine) : /\ parent = [buffer |-> <<>>] /\ file = f
                                  /\ \A j \in 1..Len(f) : f[j].line = "running"
  BY TextBegins
<1>3. ASSUME NEW k \in Kinds PROVE AddedUp(file, k) = 0 /\ AddedUp(<<>>, k) = 0 /\ total[k] = 0
  <2>1. file \in Seq(TextLine)
    BY <1>2 DEF TextLine
  <2>2. PICK F \in [0..Len(file) -> Nat] :
          /\ F[0] = 0 /\ \A n \in 1..Len(file) : F[n] = F[n - 1] + InLine(file[n], k)
          /\ AddedUp(file, k) = F[Len(file)]
    BY <2>1, UpIs
  <2> DEFINE Zero == {n \in 0..Len(file) : F[n] = 0}
  <2>3. 0 \in Zero /\ Len(file) \in Nat
    BY <2>1, <2>2
  <2>4. ASSUME NEW n \in 1..Len(file), n - 1 \in Zero PROVE n \in Zero
    <3>1. InLine(file[n], k) = 0
      BY <1>2 DEF InLine
    <3>2. QED
      BY <2>2, <2>4, <3>1
  <2>5. Len(file) \in Zero
    <3> HIDE DEF Zero
    <3>1. 0..Len(file) \subseteq Zero
      BY <2>3, <2>4, Stepwise
    <3>2. QED
      BY <2>3, <3>1
  <2>6. QED
    BY <1>1, <2>2, <2>5, UpEmpty DEF NoCounts
<1>4. QED
  BY <1>1, <1>2, <1>3 DEF AddsInv, Adds, Ended

LEMMA AddsSuite ==
  ASSUME RunInv, RunInv', SeenInv, AddsInv, Told, FinishesSuite
  PROVE  AddsInv'
<1> DEFINE b == parent.buffer
           st == SuiteFinished(Parent, trail, counters', total')
           c == IF HasLine(trail, counters') THEN Append(b, SuiteLineOf(trail, counters')) ELSE b
           l == IF Len(trail) = 1 THEN LastLine(trail, total') ELSE MarkLine(trail, counters')
           p == IF kind = "text" THEN (IF Len(trail) = 1 THEN Append(c, LastLine(trail, total')) ELSE c)
                                 ELSE Append(b, l)
<1>1. Parent = State(b, file) /\ b \in Seq(PlainLine) /\ file \in Seq(TextLine) /\ <<>> \in Seq(PlainLine)
  BY Memory DEF SeenInv
<1>2. counters' \in Counts /\ total' \in Counts /\ total \in Counts /\ trail \in Names /\ counters \in Counts
  BY DEF RunInv, PathInv, TypeInv, BookOK, MainOK, Counts, Names, Named
<1>3. /\ SuiteLineOf(trail, counters') \in PlainLine /\ LastLine(trail, total') \in PlainLine
      /\ MarkLine(trail, counters') \in PlainLine
  BY <1>2 DEF SuiteLineOf, LastLine, MarkLine, PlainLine, Marks
<1>4. st = State(p, file)
  <2> HIDE DEF st, b, c, l
  <2>1. CASE kind = "text"
    BY <1>1, <2>1, TextSuites DEF st, c
  <2>2. CASE kind # "text"
    BY <1>1, <2>2, TextSuites DEF st, l, Told
  <2>3. QED
    BY <2>1, <2>2
<1>5. c \in Seq(PlainLine) /\ p \in Seq(PlainLine)
  <2>1. c \in Seq(PlainLine)
    BY <1>1, <1>3, AppendProperties
  <2>2. l \in PlainLine
    BY <1>3
  <2> HIDE DEF c, l, b
  <2>3. QED
    BY <1>1, <1>3, <2>1, <2>2, AppendProperties
<1>6. FinishSuite /\ InParent(IF Len(stack) = 1 THEN Flushed(st) ELSE st) /\ UNCHANGED kind
  BY DEF FinishesSuite, st
<1>7. Len(trail) = Len(stack) /\ Len(stack) \in Nat
  BY <1>6 DEF RunInv, PathInv, PathOK, FinishSuite, InTest, TypeInv, MainOK
\* the lines so far add up
<1>8. ASSUME kind = "text", NEW k \in Kinds PROVE total'[k] = AddedUp(file, k) + AddedUp(p, k)
  <2>1. total'[k] = total[k] + counters'[k] /\ total[k] = AddedUp(file, k) + AddedUp(b, k)
    BY <1>6, <1>8 DEF FinishSuite, Booked, AddsInv, Adds
  <2>2. AddedUp(file, k) \in Nat /\ AddedUp(b, k) \in Nat /\ counters'[k] \in Nat /\ b \in Seq(TextLine)
    <3>1. b \in Seq(TextLine)
      BY <1>1 DEF TextLine
    <3>2. QED
      BY <1>1, <1>2, <3>1, UpConcat DEF Counts
  <2>3. AddedUp(c, k) = AddedUp(b, k) + counters'[k]
    <3>1. CASE HasLine(trail, counters')
      <4>1. SuiteLineOf(trail, counters') \in TextLine
        BY <1>3 DEF TextLine
      <4>2. InLine(SuiteLineOf(trail, counters'), k) = counters'[k]
        BY DEF InLine, SuiteLineOf
      <4>3. AddedUp(Append(b, SuiteLineOf(trail, counters')), k) = AddedUp(b, k) + counters'[k]
        BY <2>2, <4>1, <4>2, UpAppend
      <4>4. QED
        BY <3>1, <4>3
    <3>2. CASE ~HasLine(trail, counters')
      <4>1. counters'[k] = 0
        BY <1>2, <3>2 DEF HasLine, Counts
      <4>2. QED
        BY <2>2, <3>2, <4>1
    <3>3. QED
      BY <3>1, <3>2
  <2>4. AddedUp(p, k) = AddedUp(c, k)
    <3>1. CASE Len(trail) = 1
      <4>1. LastLine(trail, total') \in TextLine /\ c \in Seq(TextLine)
        BY <1>3, <1>5 DEF TextLine
      <4>2. InLine(LastLine(trail, total'), k) = 0
        BY DEF InLine, LastLine
      <4> HIDE DEF c
      <4>3. AddedUp(Append(c, LastLine(trail, total')), k) = AddedUp(c, k)
        BY <4>1, <4>2, UpAppend
      <4>4. QED
        BY <1>8, <3>1, <4>3
    <3>2. CASE Len(trail) # 1
      BY <1>8, <3>2
    <3>3. QED
      BY <3>1, <3>2
  <2> HIDE DEF p, c, b
  <2>5. QED
    BY <2>1, <2>2, <2>3, <2>4
<1>9. ASSUME Len(stack) = 1
      PROVE  p # <<>> /\ p[Len(p)] = LastLine(trail, total')
  <2>1. Len(trail) = 1
    BY <1>7, <1>9
  <2>2. \E q \in Seq(PlainLine) : p = Append(q, LastLine(trail, total'))
    BY <1>1, <1>5, <2>1
  <2> HIDE DEF p
  <2>3. QED
    BY <1>3, <2>2, AppendProperties
<1> HIDE DEF p, st, b
<1>10. CASE Len(stack) = 1
  <2>1. InParent(Written(p, file))
    BY <1>4, <1>6, <1>10, TextOperations
  <2>2. parent' = [buffer |-> <<>>] /\ file' = file \o p
    BY <2>1, StateParts DEF Written
  <2>3. p \in Seq(TextLine) /\ <<>> \in Seq(TextLine)
    BY <1>5 DEF TextLine
  <2>4. Adds'
    <3>1. ASSUME kind = "text", NEW k \in Kinds
          PROVE  total'[k] = AddedUp(file', k) + AddedUp(<<>>, k)
      BY <1>1, <1>8, <2>2, <2>3, <3>1, UpConcat, UpEmpty
    <3>2. QED
      BY <1>6, <2>2, <3>1 DEF Adds
  <2>5. file' # <<>> /\ file'[Len(file')] = LastLine(trail, total')
    <3>1. /\ Len(file) \in Nat /\ Len(p) \in Nat \ {0} /\ Len(file') = Len(file) + Len(p)
          /\ \A i \in 1..(Len(file) + Len(p)) : i > Len(file) => file'[i] = p[i - Len(file)]
      BY <1>1, <1>9, <1>10, <2>2, <2>3, ConcatProperties, EmptySeq
    <3>2. Len(file') \in 1..(Len(file) + Len(p)) /\ Len(file') > Len(file) /\ Len(file') - Len(file) = Len(p)
      BY <3>1
    <3>3. file'[Len(file')] = p[Len(p)]
      BY <3>1, <3>2
    <3>4. file' # <<>>
      BY <3>1, <3>2
    <3>5. QED
      BY <1>9, <1>10, <3>3, <3>4
  <2>6. QED
    BY <2>2, <2>4, <2>5 DEF AddsInv, Ended
<1>11. CASE Len(stack) # 1
  <2>1. parent' = [buffer |-> p] /\ file' = file
    BY <1>4, <1>6, <1>11, StateParts
  <2>2. status' \notin {"success", "failure"}
    <3>1. Undisturbed /\ OnlyRunnerExits /\ ~Helper
      BY ReportAssumption DEF Undisturbed, OnlyRunnerExits, Forking
    <3>2. QED
      BY <1>6, <1>11, <3>1 DEF FinishSuite, RunInv, SumInv, SumOK
  <2>3. QED
    BY <1>6, <1>8, <2>1, <2>2 DEF AddsInv, Adds, Ended
<1>12. QED
  BY <1>10, <1>11

LEMMA AddsStep ==
  ASSUME RunInv, RunInv', SeenInv, AddsInv, Told, [ReportNext]_allvars
  PROVE  AddsInv'
<1> DEFINE b == parent.buffer
<1>1. /\ parent = [buffer |-> b] /\ b \in Seq(PlainLine) /\ file \in Seq(TextLine)
      /\ b \in Seq(TextLine) /\ <<>> \in Seq(TextLine)
  BY Memory DEF SeenInv, TextLine
<1>2. CASE FinishesSuite
  BY <1>2, AddsSuite
<1>3. CASE ~FinishesSuite
  <2>1. total' = total /\ (status' \in {"success", "failure"} => status' = status) /\ kind' = kind
    BY <1>3, OnlySuitesBook, KindStays
  <2>2. status \in {"success", "failure"} => pc = "stopped"
    <3>1. Undisturbed /\ OnlyRunnerExits /\ ~Helper
      BY ReportAssumption DEF Undisturbed, OnlyRunnerExits, Forking
    <3>2. QED
      BY <3>1 DEF RunInv, SumInv, SumOK
  <2> HIDE DEF b
  <2>3. CASE UNCHANGED <<parent, file>>
    <3>1. Adds'
      BY <2>1, <2>3 DEF AddsInv, Adds
    <3>2. Ended'
      BY <2>1, <2>3 DEF AddsInv, Ended
    <3>3. QED
      BY <3>1, <3>2 DEF AddsInv
  <2>4. ASSUME pc # "stopped", NEW c \in Seq(TextLine), NEW w \in Seq(TextLine), file' = file \o w,
               parent' = [buffer |-> c],
               \A k \in Kinds : AddedUp(w, k) + AddedUp(c, k) = AddedUp(b, k)
        PROVE  AddsInv'
    <3>1. Ended'
      BY <2>1, <2>2, <2>4 DEF Ended
    <3>2. ASSUME kind = "text", NEW k \in Kinds PROVE total'[k] = AddedUp(file', k) + AddedUp(c, k)
      <4>1. total[k] = AddedUp(file, k) + AddedUp(b, k)
        BY <3>2 DEF AddsInv, Adds, b
      <4>2. AddedUp(file', k) = AddedUp(file, k) + AddedUp(w, k)
        BY <1>1, <2>4, UpConcat
      <4>3. AddedUp(file, k) \in Nat /\ AddedUp(w, k) \in Nat /\ AddedUp(c, k) \in Nat
        BY <1>1, UpConcat
      <4>4. QED
        BY <2>1, <2>4, <4>1, <4>2, <4>3
    <3>3. QED
      BY <2>1, <2>4, <3>1, <3>2 DEF AddsInv, Adds
  <2>5. ASSUME NEW k \in Kinds
        PROVE  /\ AddedUp(<<>>, k) = 0 /\ AddedUp(b, k) \in Nat
               /\ \A e \in ShownLine : AddedUp(Append(b, e), k) = AddedUp(b, k) /\ AddedUp(Append(<<>>, e), k) = 0
    <3>1. AddedUp(<<>>, k) = 0 /\ AddedUp(b, k) \in Nat
      BY <1>1, UpEmpty, UpConcat
    <3>2. ASSUME NEW e \in ShownLine
          PROVE  AddedUp(Append(b, e), k) = AddedUp(b, k) /\ AddedUp(Append(<<>>, e), k) = 0
      <4>1. e \in TextLine /\ InLine(e, k) = 0
        BY DEF TextLine, ShownLine, InLine
      <4>2. /\ AddedUp(Append(b, e), k) = AddedUp(b, k) + InLine(e, k)
            /\ AddedUp(Append(<<>>, e), k) = AddedUp(<<>>, k) + InLine(e, k)
        BY <1>1, <4>1, UpAppend
      <4>3. QED
        BY <3>1, <4>1, <4>2
    <3>3. QED
      BY <3>1, <3>2
  <2>6. CASE pc # "stopped" /\ parent' = [buffer |-> <<>>] /\ file' = file \o b
    <3>1. \A k \in Kinds : AddedUp(b, k) + AddedUp(<<>>, k) = AddedUp(b, k)
      BY <2>5
    <3>2. QED
      BY <1>1, <2>4, <2>6, <3>1
  <2>7. ASSUME pc # "stopped", NEW e \in ShownLine,
               parent' = [buffer |-> <<>>] /\ file' = file \o Append(b, e)
        PROVE  AddsInv'
    <3>1. Append(b, e) \in Seq(TextLine)
      BY <1>1, AppendProperties DEF TextLine
    <3>2. ASSUME NEW k \in Kinds PROVE AddedUp(Append(b, e), k) + AddedUp(<<>>, k) = AddedUp(b, k)
      <4>1. AddedUp(Append(b, e), k) = AddedUp(b, k) /\ AddedUp(<<>>, k) = 0 /\ AddedUp(b, k) \in Nat
        BY <2>5
      <4>2. QED
        BY <4>1
    <3>3. QED
      BY <1>1, <2>4, <2>7, <3>1, <3>2
  <2>8. ASSUME pc # "stopped", NEW e \in ShownLine, UNCHANGED parent /\ file' = file \o Append(<<>>, e)
        PROVE  AddsInv'
    <3>1. Append(<<>>, e) \in Seq(TextLine)
      BY <1>1, AppendProperties DEF TextLine
    <3>2. ASSUME NEW k \in Kinds PROVE AddedUp(Append(<<>>, e), k) + AddedUp(b, k) = AddedUp(b, k)
      <4>1. AddedUp(Append(<<>>, e), k) = 0 /\ AddedUp(b, k) \in Nat
        BY <2>5
      <4>2. QED
        BY <4>1
    <3>3. parent' = [buffer |-> b]
      BY <1>1, <2>8
    <3>4. QED
      BY <1>1, <2>4, <2>8, <3>1, <3>2, <3>3
  <2>9. \/ UNCHANGED <<parent, file>>
        \/ pc # "stopped" /\ parent' = [buffer |-> <<>>] /\ file' = file \o b
        \/ pc # "stopped" /\ \E e \in ShownLine :
             \/ parent' = [buffer |-> <<>>] /\ file' = file \o Append(b, e)
             \/ UNCHANGED parent /\ file' = file \o Append(<<>>, e)
    BY <1>3, TextSteps DEF b, SeenInv
  <2>10. QED
    BY <2>3, <2>6, <2>7, <2>8, <2>9
<1>4. QED
  BY <1>2, <1>3

\* The line on the whole run adds up those on the suites, and the exit status
\* says the same: for any finite tree of suites and tests.
THEOREM LastLineAddsUp ==
  ASSUME NEW depth, NEW height \in Nat, IsTree(depth, height)
  PROVE  ReportSpec => []LinesAddUp
<1> DEFINE Inv == Told => RunInv /\ AtPath /\ SeenInv /\ AddsInv
<1>1. ReportInit => Inv
  BY RunInit, AtPathInit, SeenInit, AddsInit DEF ReportInit
<1>2. Inv /\ [ReportNext]_allvars => Inv'
  <2> SUFFICES ASSUME Inv, [ReportNext]_allvars, Told' PROVE (RunInv /\ AtPath /\ SeenInv /\ AddsInv)'
    OBVIOUS
  <2>1. Told /\ Plain
    BY KindStays DEF Told, Plain
  <2>2. RunInv' /\ AtPath'
    BY <2>1, RunStep, RunSteps, AtPathStep DEF RunInv
  <2>3. SeenInv' /\ AddsInv'
    BY <2>1, <2>2, SeenStep, AddsStep
  <2>4. QED
    BY <2>2, <2>3
<1>3. Inv => LinesAddUp
  <2>1. ~Told => LinesAddUp
    BY DEF LinesAddUp
  <2>2. QED
    BY <2>1, AddsTell
<1>4. QED
  BY <1>1, <1>2, <1>3, PTL DEF ReportSpec

-----------------------------------------------------------------------------
(* What the CUTE reporter writes                                           *)

Verdicts == {"success", "failure", "error"}
CuteLine == [line : {"beginning", "starting", "ending"} \cup Verdicts, name : Named]
Say(l, n) == [line |-> l, name |-> n]
Memo(c, p, b) == [error_count |-> c, previous_error |-> p, buffer |-> b]
CuteState(m, f) == [own |-> m, file |-> f]
IsMemo(m) == m = Memo(m.error_count, m.previous_error, m.buffer) /\ m.buffer \in Seq(CuteLine)

CuteMemory == IsMemo(parent) /\ IsMemo(child) /\ file \in Seq(CuteLine)

LEMMA MemoParts ==
  ASSUME NEW c, NEW p, NEW b, NEW f
  PROVE  /\ Memo(c, p, b).error_count = c /\ Memo(c, p, b).previous_error = p /\ Memo(c, p, b).buffer = b
         /\ CuteState(Memo(c, p, b), f).own = Memo(c, p, b) /\ CuteState(Memo(c, p, b), f).file = f
BY DEF Memo, CuteState

LEMMA OwnIs == ASSUME NEW o, NEW f, NEW new PROVE [CuteState(o, f) EXCEPT !.own = new] = CuteState(new, f)
BY DEF CuteState

LEMMA CutePrints ==
  ASSUME NEW c, NEW p, NEW b, NEW f, NEW l, NEW n
  PROVE  Cute!printer(CuteState(Memo(c, p, b), f), l, n) = CuteState(Memo(c, p, Append(b, Say(l, n))), f)
<1> DEFINE old == Memo(c, p, b)
           st  == CuteState(old, f)
           new == Append(b, Say(l, n))
<1>1. st.own = old /\ old.buffer = b
  BY MemoParts
<1>2. [old EXCEPT !.buffer = new] = Memo(c, p, new)
  BY DEF Memo
<1>3. [st EXCEPT !.own = Memo(c, p, new)] = CuteState(Memo(c, p, new), f)
  BY OwnIs
<1>4. new = Append(b, [line |-> l, name |-> n])
  BY DEF Say
<1> HIDE DEF old, st, new
<1>5. Cute!printer(st, l, n) = [st EXCEPT !.own = [old EXCEPT !.buffer = new]]
  BY <1>1, <1>4 DEF Cute!printer
<1>6. QED
  BY <1>2, <1>3, <1>5 DEF st, old, new

\* as values of the flag; the provers take TRUE and FALSE for formulas
Yes == TRUE
No  == FALSE

Raised(st) == [st EXCEPT !.own.previous_error = Yes]

LEMMA CuteFlags ==
  ASSUME NEW c, NEW p, NEW b, NEW f
  PROVE  Raised(CuteState(Memo(c, p, b), f)) = CuteState(Memo(c, Yes, b), f)
<1> DEFINE old == Memo(c, p, b)
           st  == CuteState(old, f)
<1>1. st.own = old
  BY MemoParts
<1>2. ASSUME NEW q PROVE [old EXCEPT !.previous_error = q] = Memo(c, q, b)
  BY DEF Memo
<1>3. [st EXCEPT !.own = Memo(c, Yes, b)] = CuteState(Memo(c, Yes, b), f)
  BY OwnIs
<1> HIDE DEF old, st
<1>4. Raised(st) = [st EXCEPT !.own = [old EXCEPT !.previous_error = Yes]]
  BY <1>1 DEF Raised
<1>5. [old EXCEPT !.previous_error = Yes] = Memo(c, Yes, b)
  BY <1>2
<1>6. QED
  BY <1>3, <1>4, <1>5 DEF st, old

Forgotten(st, e) == [st EXCEPT !.own.error_count = e, !.own.previous_error = No]

LEMMA CuteForgets ==
  ASSUME NEW c, NEW p, NEW b, NEW f, NEW e
  PROVE  Forgotten(CuteState(Memo(c, p, b), f), e) = CuteState(Memo(e, No, b), f)
<1> DEFINE old == Memo(c, p, b)
           st  == CuteState(old, f)
           mid == CuteState(Memo(e, p, b), f)
<1>1. st.own = old /\ mid.own = Memo(e, p, b)
  BY MemoParts
<1>2. [old EXCEPT !.error_count = e] = Memo(e, p, b)
  BY DEF Memo
<1>3. ASSUME NEW q PROVE [Memo(e, p, b) EXCEPT !.previous_error = q] = Memo(e, q, b)
  BY DEF Memo
<1>4. [st EXCEPT !.own = Memo(e, p, b)] = mid /\ [mid EXCEPT !.own = Memo(e, No, b)] = CuteState(Memo(e, No, b), f)
  BY OwnIs
<1> HIDE DEF old, st, mid
<1>5. [Memo(e, p, b) EXCEPT !.previous_error = No] = Memo(e, No, b)
  BY <1>3
<1>6. [st EXCEPT !.own.error_count = e] = mid
  BY <1>1, <1>2, <1>4
<1>7. Forgotten(st, e) = [mid EXCEPT !.own = [Memo(e, p, b) EXCEPT !.previous_error = No]]
  BY <1>1, <1>6 DEF Forgotten
<1>8. QED
  BY <1>4, <1>5, <1>7 DEF st, old

LEMMA CuteFlushes ==
  ASSUME kind = "cute", NEW c, NEW p, NEW b, NEW f
  PROVE  Flushed(CuteState(Memo(c, p, b), f)) = CuteState(Memo(c, p, <<>>), f \o b)
<1> DEFINE st == CuteState(Memo(c, p, b), f)
           to == CuteState(Memo(c, p, <<>>), f \o b)
<1>1. st.own = Memo(c, p, b) /\ st.file = f /\ Memo(c, p, b).buffer = b
  BY MemoParts
<1>2. [Memo(c, p, b) EXCEPT !.buffer = <<>>] = Memo(c, p, <<>>)
  BY DEF Memo
<1>3. to = [own |-> Memo(c, p, <<>>), file |-> f \o b]
  BY DEF CuteState
<1> HIDE DEF st, to
<1>4. Cute!Flush(st) = to
  BY <1>1, <1>2, <1>3 DEF Cute!Flush
<1>5. Flushed(st) = Cute!Flush(st)
  BY DEF Flushed
<1>6. QED
  BY <1>4, <1>5 DEF st, to

LEMMA CuteRemains ==
  ASSUME kind = "cute", NEW c, NEW p, NEW b, NEW f
  PROVE  Remains(CuteState(Memo(c, p, b), f)) = {f, f \o b}
<1> DEFINE st == CuteState(Memo(c, p, b), f)
           to == CuteState(Memo(c, p, <<>>), f \o b)
<1>1. st.file = f /\ to.file = f \o b
  BY DEF CuteState
<1>2. Flushed(st) = to
  BY CuteFlushes
<1> HIDE DEF st, to
<1>3. Remains(st) = {st.file, Flushed(st).file}
  BY DEF Remains, Cute!Killed, Flushed
<1>4. QED
  BY <1>1, <1>2, <1>3 DEF st

LEMMA CuteStarts ==
  ASSUME kind = "cute", NEW c, NEW p, NEW b, NEW f, NEW n
  PROVE  TestStarted(CuteState(Memo(c, p, b), f), n)
           = CuteState(Memo(Wrong(counters), No, Append(b, Say("starting", n))), f)
<1> DEFINE st == CuteState(Memo(c, p, b), f)
           e  == Wrong(counters)
<1>1. Forgotten(st, e) = CuteState(Memo(e, No, b), f)
  BY CuteForgets
<1>2. Cute!printer(CuteState(Memo(e, No, b), f), "starting", n)
        = CuteState(Memo(e, No, Append(b, Say("starting", n))), f)
  BY CutePrints
<1> HIDE DEF st, e
<1>3. TestStarted(st, n) = Cute!start_test(st, n, e)
  BY DEF TestStarted, e
<1>4. Cute!start_test(st, n, e) = Cute!printer(Forgotten(st, e), "starting", n)
  BY DEF Cute!start_test, Forgotten, No
<1>5. QED
  BY <1>1, <1>2, <1>3, <1>4 DEF st, e

\* what a suite prints
LEMMA CuteSuites ==
  ASSUME kind = "cute", NEW c, NEW p, NEW b, NEW f, NEW path, NEW sums, NEW totals
  PROVE  /\ SuiteStarted(CuteState(Memo(c, p, b), f), path)
              = CuteState(Memo(c, p, Append(b, Say("beginning", LastOf(path)))), f)
         /\ SuiteFinished(CuteState(Memo(c, p, b), f), path, sums, totals)
              = CuteState(Memo(c, p, Append(b, Say("ending", LastOf(path)))), f)
<1> DEFINE st == CuteState(Memo(c, p, b), f)
           x  == LastOf(path)
<1>1. /\ Cute!printer(st, "beginning", x) = CuteState(Memo(c, p, Append(b, Say("beginning", x))), f)
      /\ Cute!printer(st, "ending", x) = CuteState(Memo(c, p, Append(b, Say("ending", x))), f)
  BY CutePrints
<1> HIDE DEF st
<1>2. SuiteStarted(st, path) = Cute!printer(st, "beginning", x)
  BY DEF SuiteStarted, Cute!start_suite
<1>3. SuiteFinished(st, path, sums, totals) = Cute!printer(st, "ending", x)
  BY DEF SuiteFinished, Cute!finish_suite
<1>4. QED
  BY <1>1, <1>2, <1>3 DEF st

LEMMA CuteErrs ==
  ASSUME kind = "cute", NEW c, NEW p, NEW b, NEW f, NEW path, NEW n
  PROVE  IncompleteShown(CuteState(Memo(c, p, b), f), path, n)
           = CuteState(Memo(c, p, Append(b, Say("error", LastOf(path)))), f)
<1> DEFINE st == CuteState(Memo(c, p, b), f)
           x  == LastOf(path)
<1>1. Cute!printer(st, "error", x) = CuteState(Memo(c, p, Append(b, Say("error", x))), f)
  BY CutePrints
<1> HIDE DEF st
<1>2. IncompleteShown(st, path, n) = Cute!printer(st, "error", x)
  BY DEF IncompleteShown, Cute!failed_to_complete
<1>3. QED
  BY <1>1, <1>2 DEF st

\* of the failures of a test only the first is printed, of passes none
LEMMA CuteFails ==
  ASSUME kind = "cute", NEW c, NEW p, NEW b, NEW f, NEW path, NEW n, NEW m
  PROVE  /\ Shown(CuteState(Memo(c, p, b), f), path, "pass", n, m) = {CuteState(Memo(c, p, b), f)}
         /\ Shown(CuteState(Memo(c, p, b), f), path, "fail", n, m)
              = {IF p THEN CuteState(Memo(c, p, b), f)
                 ELSE CuteState(Memo(c, Yes, Append(b, Say("failure", LastOf(path)))), f)}
<1> DEFINE st == CuteState(Memo(c, p, b), f)
           x  == LastOf(path)
<1>1. st.own.previous_error = p
  BY MemoParts
<1>2. Raised(st) = CuteState(Memo(c, Yes, b), f)
  BY CuteFlags
<1>3. Cute!printer(CuteState(Memo(c, Yes, b), f), "failure", x)
        = CuteState(Memo(c, Yes, Append(b, Say("failure", x))), f)
  BY CutePrints
<1> HIDE DEF st
<1>4. Shown(st, path, "fail", n, m) = {Cute!show_fail(st, x)} /\ Shown(st, path, "pass", n, m) = {st}
  BY DEF Shown
<1>5. Cute!show_fail(st, x) = IF p THEN st ELSE Cute!printer(Raised(st), "failure", x)
  BY <1>1 DEF Cute!show_fail, Raised, Yes
<1>6. QED
  BY <1>2, <1>3, <1>4, <1>5 DEF st

\* the buffer at the end of a test, of which reporter_finish_test() says how
LastLines(c, b, how, n, wrong) ==
  LET said == IF how \in {"skipped", "completed"} THEN b ELSE Append(b, Say("error", n))
  IN  IF c = wrong THEN Append(said, Say("success", n)) ELSE said

LEMMA CuteFinishes ==
  ASSUME kind = "cute", NEW c, NEW p, NEW b, NEW f, NEW path, NEW how, NEW sums
  PROVE  TestFinished(CuteState(Memo(c, p, b), f), path, how, sums)
           = CuteState(Memo(c, p, LastLines(c, b, how, LastOf(path), Wrong(sums))), f)
<1> DEFINE st == CuteState(Memo(c, p, b), f)
           x  == LastOf(path)
           said == IF how \in {"skipped", "completed"} THEN b ELSE Append(b, Say("error", x))
           s  == CuteState(Memo(c, p, said), f)
<1>1. SkipShown(st) = st
  BY DEF SkipShown
<1>2. IncompleteShown(st, path, 0) = CuteState(Memo(c, p, Append(b, Say("error", x))), f)
  BY CuteErrs
<1>3. s.own.error_count = c
  BY MemoParts
<1>4. Cute!printer(s, "success", x) = CuteState(Memo(c, p, Append(said, Say("success", x))), f)
  BY CutePrints
<1>5. s = IF how \in {"skipped", "completed"} THEN st ELSE IncompleteShown(st, path, 0)
  BY <1>2
<1> HIDE DEF st, s, said
<1>6. TestFinished(st, path, how, sums) = Cute!finish_test(s, x, Wrong(sums))
  BY <1>1, <1>5 DEF TestFinished
<1>7. Cute!finish_test(s, x, Wrong(sums))
        = IF c = Wrong(sums) THEN CuteState(Memo(c, p, Append(said, Say("success", x))), f) ELSE s
  BY <1>3, <1>4 DEF Cute!finish_test
<1>8. TestFinished(st, path, how, sums) = CuteState(Memo(c, p, LastLines(c, b, how, x, Wrong(sums))), f)
  BY <1>6, <1>7 DEF s, said, LastLines
<1>9. QED
  BY <1>8 DEF st

-----------------------------------------------------------------------------
(* Lines of one test after its first                                       *)

\* what precedes and includes line i ends with lines on t, the first its start
Began(s, i, t) == \E j \in 1..i : s[j] = Say("starting", t) /\ \A k \in (j + 1)..i : s[k].name = t
Open(s, t)     == Began(s, Len(s), t)
Blocked(s)     == \A i \in 1..Len(s) :
                    s[i].line \in Verdicts /\ s[i].name \in Tests => Began(s, i - 1, s[i].name)
OnlyOn(w, t)       == \A i \in 1..Len(w) : w[i].name = t

LEMMA BeganKept ==
  ASSUME NEW s, NEW w, NEW i \in Nat, NEW t, \A k \in 1..i : w[k] = s[k], Began(s, i, t)
  PROVE  Began(w, i, t)
<1>1. PICK j \in 1..i : s[j] = Say("starting", t) /\ \A k \in (j + 1)..i : s[k].name = t
  BY DEF Began
<1>2. w[j] = Say("starting", t)
  BY <1>1
<1>3. ASSUME NEW k \in (j + 1)..i PROVE w[k].name = t
  <2>1. k \in 1..i
    OBVIOUS
  <2>2. QED
    BY <1>1, <2>1
<1>4. QED
  BY <1>2, <1>3 DEF Began

LEMMA BlockedConcat ==
  ASSUME NEW s \in Seq(CuteLine), NEW w \in Seq(CuteLine), NEW t,
         Blocked(s), Open(s, t), OnlyOn(w, t)
  PROVE  Blocked(s \o w) /\ Open(s \o w, t)
<1> DEFINE sw == s \o w
           m  == Len(s)
           n  == Len(w)
<1>1. /\ m \in Nat /\ n \in Nat /\ Len(sw) = m + n
      /\ \A i \in 1..m : sw[i] = s[i]
      /\ \A i \in 1..(m + n) : i > m => sw[i] = w[i - m]
  BY ConcatProperties
<1>2. ASSUME NEW i \in 1..(m + n), i > m PROVE sw[i].name = t
  <2>1. i - m \in 1..n
    BY <1>1, <1>2
  <2>2. QED
    BY <1>1, <1>2, <2>1 DEF OnlyOn
<1>3. PICK j \in 1..m : s[j] = Say("starting", t) /\ \A k \in (j + 1)..m : s[k].name = t
  BY DEF Open, Began
<1> HIDE DEF sw, m, n
<1>4. ASSUME NEW i \in m..(m + n) PROVE Began(sw, i, t)
  <2>1. j \in 1..i /\ sw[j] = Say("starting", t)
    BY <1>1, <1>3
  <2>2. ASSUME NEW k \in (j + 1)..i PROVE sw[k].name = t
    <3>1. CASE k <= m
      <4>1. k \in (j + 1)..m /\ k \in 1..m
        BY <1>1, <1>3, <3>1
      <4>2. QED
        BY <1>1, <1>3, <4>1
    <3>2. CASE k > m
      <4>1. k \in 1..(m + n)
        BY <1>1, <1>3, <3>2
      <4>2. QED
        BY <1>2, <3>2, <4>1
    <3>3. QED
      BY <1>1, <1>3, <3>1, <3>2
  <2>3. QED
    BY <2>1, <2>2 DEF Began
<1>5. ASSUME NEW i \in 1..(m + n), sw[i].line \in Verdicts, sw[i].name \in Tests
      PROVE  Began(sw, i - 1, sw[i].name)
  <2>1. CASE i <= m
    <3>1. i \in 1..m /\ sw[i] = s[i] /\ i - 1 \in Nat
      BY <1>1, <2>1
    <3>2. Began(s, i - 1, s[i].name)
      BY <1>5, <3>1 DEF Blocked, m
    <3>3. \A k \in 1..(i - 1) : sw[k] = s[k]
      BY <1>1, <3>1
    <3>4. QED
      BY <3>1, <3>2, <3>3, BeganKept
  <2>2. CASE i > m
    <3>1. sw[i].name = t /\ i - 1 \in m..(m + n)
      BY <1>1, <1>2, <2>2
    <3>2. QED
      BY <1>4, <3>1
  <2>3. QED
    BY <1>1, <2>1, <2>2
<1>6. Blocked(sw)
  BY <1>1, <1>5 DEF Blocked
<1>7. Open(sw, t)
  BY <1>1, <1>4 DEF Open
<1>8. QED
  BY <1>6, <1>7 DEF sw

LEMMA BlockedAppend ==
  ASSUME NEW s \in Seq(CuteLine), NEW l \in CuteLine,
         Blocked(s), l.line \in Verdicts /\ l.name \in Tests => Open(s, l.name)
  PROVE  Blocked(Append(s, l))
<1> DEFINE a == Append(s, l)
           m == Len(s)
<1>1. m \in Nat /\ Len(a) = m + 1 /\ a[m + 1] = l /\ \A i \in 1..m : a[i] = s[i]
  BY AppendProperties
<1>2. Open(s, l.name) => Began(s, m, l.name)
  BY DEF Open
<1> HIDE DEF a, m
<1>3. ASSUME NEW i \in 1..(m + 1), a[i].line \in Verdicts, a[i].name \in Tests
      PROVE  Began(a, i - 1, a[i].name)
  <2>1. CASE i <= m
    <3>1. i \in 1..m /\ a[i] = s[i] /\ i - 1 \in Nat
      BY <1>1, <2>1
    <3>2. Began(s, i - 1, s[i].name)
      BY <1>3, <3>1 DEF Blocked, m
    <3>3. \A k \in 1..(i - 1) : a[k] = s[k]
      BY <1>1, <3>1
    <3>4. QED
      BY <3>1, <3>2, <3>3, BeganKept
  <2>2. CASE i = m + 1
    <3>1. i - 1 = m /\ a[i] = l
      BY <1>1, <2>2
    <3>2. Began(s, m, l.name)
      BY <1>2, <1>3, <3>1
    <3>3. QED
      BY <1>1, <3>1, <3>2, BeganKept
  <2>3. QED
    BY <1>1, <2>1, <2>2
<1>4. QED
  BY <1>1, <1>3 DEF Blocked, a

LEMMA OpenStarts ==
  ASSUME NEW s \in Seq(CuteLine), NEW t \in Named PROVE Open(Append(s, Say("starting", t)), t)
<1> DEFINE l == Say("starting", t)
           a == Append(s, l)
           m == Len(s)
<1>1. l \in CuteLine
  BY DEF Say, CuteLine
<1> HIDE DEF l
<1>2. m \in Nat /\ Len(a) = m + 1 /\ a[m + 1] = l
  BY <1>1, AppendProperties
<1>3. m + 1 \in 1..(m + 1) /\ \A k \in (m + 2)..(m + 1) : FALSE
  BY <1>2
<1>4. QED
  BY <1>2, <1>3 DEF Open, Began, l

LEMMA OpenAppend ==
  ASSUME NEW s \in Seq(CuteLine), NEW l \in CuteLine, NEW t, Blocked(s), Open(s, t), l.name = t
  PROVE  Blocked(Append(s, l)) /\ Open(Append(s, l), t)
<1>1. <<l>> \in Seq(CuteLine) /\ OnlyOn(<<l>>, t)
  BY DEF OnlyOn
<1>2. s \o <<l>> = Append(s, l)
  OBVIOUS
<1>3. QED
  BY <1>1, <1>2, BlockedConcat

-----------------------------------------------------------------------------
(* What each step of the run prints                                        *)

Prints(m, l, n) == Memo(m.error_count, m.previous_error, Append(m.buffer, Say(l, n)))
Drained(m)      == Memo(m.error_count, m.previous_error, <<>>)
Fails1(m, n)    == IF m.previous_error THEN m ELSE Memo(m.error_count, Yes, Append(m.buffer, Say("failure", n)))

LEMMA CuteParts ==
  ASSUME CuteMemory
  PROVE  /\ Parent = CuteState(Memo(parent.error_count, parent.previous_error, parent.buffer), file)
         /\ Child = CuteState(Memo(child.error_count, child.previous_error, child.buffer), file)
         /\ parent = Memo(parent.error_count, parent.previous_error, parent.buffer)
         /\ child = Memo(child.error_count, child.previous_error, child.buffer)
         /\ parent.buffer \in Seq(CuteLine) /\ child.buffer \in Seq(CuteLine) /\ file \in Seq(CuteLine)
<1>1. /\ parent = Memo(parent.error_count, parent.previous_error, parent.buffer)
      /\ child = Memo(child.error_count, child.previous_error, child.buffer)
      /\ parent.buffer \in Seq(CuteLine) /\ child.buffer \in Seq(CuteLine) /\ file \in Seq(CuteLine)
  BY DEF CuteMemory, IsMemo
<1>2. Parent = CuteState(parent, file) /\ Child = CuteState(child, file)
  BY DEF Parent, Child, CuteState
<1>3. QED
  BY <1>1, <1>2

LEMMA CuteStateIs ==
  ASSUME NEW m, NEW f
  PROVE  /\ InParent(CuteState(m, f)) <=> parent' = m /\ file' = f
         /\ InChild(CuteState(m, f)) <=> child' = m /\ file' = f
  BY DEF InParent, InChild, CuteState

LEMMA CuteSuiteSteps ==
  ASSUME kind = "cute", CuteMemory
  PROVE  /\ StartsSuite => parent' = Prints(parent, "beginning", LastOf(trail')) /\ UNCHANGED <<child, file>>
         /\ FinishesSuite =>
              /\ UNCHANGED child
              /\ \/ parent' = Prints(parent, "ending", LastOf(trail)) /\ UNCHANGED file
                 \/ /\ parent' = Drained(parent)
                    /\ file' = file \o Append(parent.buffer, Say("ending", LastOf(trail)))
<1> DEFINE c == parent.error_count
           p == parent.previous_error
           b == parent.buffer
<1>1. Parent = CuteState(Memo(c, p, b), file)
  BY CuteParts
<1>2. ASSUME StartsSuite
      PROVE  parent' = Prints(parent, "beginning", LastOf(trail')) /\ UNCHANGED <<child, file>>
  <2>1. InParent(SuiteStarted(Parent, trail')) /\ UNCHANGED child
    BY <1>2, PlainSuite DEF Plain
  <2>2. SuiteStarted(Parent, trail') = CuteState(Memo(c, p, Append(b, Say("beginning", LastOf(trail')))), file)
    BY <1>1, CuteSuites
  <2>3. QED
    BY <2>1, <2>2, CuteStateIs DEF Prints
<1>3. ASSUME FinishesSuite
      PROVE  /\ UNCHANGED child
             /\ \/ parent' = Prints(parent, "ending", LastOf(trail)) /\ UNCHANGED file
                \/ /\ parent' = Drained(parent)
                   /\ file' = file \o Append(parent.buffer, Say("ending", LastOf(trail)))
  <2> DEFINE st == SuiteFinished(Parent, trail, counters', total')
             nb == Append(b, Say("ending", LastOf(trail)))
  <2>1. UNCHANGED child /\ (InParent(st) \/ InParent(Flushed(st)))
    BY <1>3 DEF FinishesSuite
  <2>2. st = CuteState(Memo(c, p, nb), file)
    BY <1>1, CuteSuites
  <2>3. Flushed(CuteState(Memo(c, p, nb), file)) = CuteState(Memo(c, p, <<>>), file \o nb)
    BY CuteFlushes
  <2> HIDE DEF st, nb
  <2>4. \/ parent' = Memo(c, p, nb) /\ file' = file
        \/ parent' = Memo(c, p, <<>>) /\ file' = file \o nb
    BY <2>1, <2>2, <2>3, CuteStateIs
  <2>5. QED
    BY <2>1, <2>4 DEF nb, Prints, Drained
<1>4. QED
  BY <1>2, <1>3

LEMMA CuteTestSteps ==
  ASSUME kind = "cute", CuteMemory
  PROVE  /\ SkipsTest =>
              /\ parent' = Memo(Wrong(counters), No, Append(parent.buffer, Say("starting", Entry)))
              /\ UNCHANGED <<child, file>>
         /\ Forks =>
              /\ parent' = Memo(Wrong(counters), No, <<>>) /\ child' = parent'
              /\ file' = file \o Append(parent.buffer, Say("starting", Entry))
         /\ Finishes =>
              /\ parent' = Memo(parent.error_count, parent.previous_error,
                                LastLines(parent.error_count, parent.buffer, Reported, LastOf(trail), Wrong(counters')))
              /\ UNCHANGED <<child, file>>
<1> DEFINE c == parent.error_count
           p == parent.previous_error
           b == parent.buffer
           w == Wrong(counters)
           nb == Append(b, Say("starting", Entry))
<1>1. Parent = CuteState(Memo(c, p, b), file)
  BY CuteParts
<1>2. TestStarted(Parent, Entry) = CuteState(Memo(w, No, nb), file)
  BY <1>1, CuteStarts
<1>3. Flushed(CuteState(Memo(w, No, nb), file)) = CuteState(Memo(w, No, <<>>), file \o nb)
  BY CuteFlushes
<1>4. TestFinished(Parent, trail, Reported, counters')
        = CuteState(Memo(c, p, LastLines(c, b, Reported, LastOf(trail), Wrong(counters'))), file)
  BY <1>1, CuteFinishes
<1> HIDE DEF nb, w
<1>5. SkipsTest => parent' = Memo(w, No, nb) /\ UNCHANGED <<child, file>>
  BY <1>2, CuteStateIs DEF SkipsTest
<1>6. Forks => parent' = Memo(w, No, <<>>) /\ child' = parent' /\ file' = file \o nb
  BY <1>2, <1>3, CuteStateIs DEF Forks
<1>7. Finishes => /\ parent' = Memo(c, p, LastLines(c, b, Reported, LastOf(trail), Wrong(counters')))
                  /\ UNCHANGED <<child, file>>
  BY <1>4, CuteStateIs DEF Finishes
<1>8. QED
  BY <1>5, <1>6, <1>7 DEF w, nb

LEMMA CuteFixtureSteps ==
  ASSUME kind = "cute", CuteMemory, NEW r \in {"pass", "fail"}, NEW m, FixtureReports(r, m)
  PROVE  /\ FixtureAsserts(r) /\ UNCHANGED <<child, file>>
         /\ parent' = IF r = "pass" THEN parent ELSE Fails1(parent, LastOf(trail))
<1> DEFINE c == parent.error_count
           p == parent.previous_error
           b == parent.buffer
           nb == Append(b, Say("failure", LastOf(trail)))
<1>1. Parent = CuteState(Memo(c, p, b), file) /\ parent = Memo(c, p, b)
  BY CuteParts
<1>2. UNCHANGED child
  BY PlainFixture DEF Plain
<1>3. PICK st \in Shown(Parent, trail, r, 0, m) : FixtureAsserts(r) /\ InParent(st) /\ UNCHANGED child
  BY <1>2, PlainFixture DEF Plain
<1>4. CASE r = "pass"
  <2>1. Shown(Parent, trail, r, 0, m) = {CuteState(Memo(c, p, b), file)}
    BY <1>1, <1>4, CuteFails
  <2>2. InParent(CuteState(Memo(c, p, b), file))
    BY <1>3, <2>1
  <2>3. QED
    BY <1>1, <1>3, <1>4, <2>2, CuteStateIs
<1>5. CASE r = "fail"
  <2>1. Shown(Parent, trail, r, 0, m)
          = {IF p THEN CuteState(Memo(c, p, b), file) ELSE CuteState(Memo(c, Yes, nb), file)}
    BY <1>1, <1>5, CuteFails
  <2> HIDE DEF nb
  <2>2. st = IF p THEN CuteState(Memo(c, p, b), file) ELSE CuteState(Memo(c, Yes, nb), file)
    BY <1>3, <2>1
  <2>3. CASE p
    <3>1. InParent(CuteState(Memo(c, p, b), file))
      BY <1>3, <2>2, <2>3
    <3>2. parent' = parent /\ file' = file
      BY <1>1, <3>1, CuteStateIs
    <3>3. QED
      BY <1>3, <1>5, <2>3, <3>2 DEF Fails1
  <2>4. CASE ~p
    <3>1. InParent(CuteState(Memo(c, Yes, nb), file))
      BY <1>3, <2>2, <2>4
    <3>2. parent' = Memo(c, Yes, nb) /\ file' = file
      BY <3>1, CuteStateIs
    <3>3. QED
      BY <1>3, <1>5, <2>4, <3>2 DEF Fails1, nb
  <2>5. QED
    BY <2>3, <2>4
<1>6. QED
  BY <1>4, <1>5

LEMMA CuteCodeSteps ==
  ASSUME kind = "cute", CuteMemory, NEW t \in Tests
  PROVE  /\ TestGoesOn(t) => UNCHANGED <<parent, child, file>>
         /\ TestThrows(t) => /\ CodeThrows(t) /\ UNCHANGED <<parent, file>>
                             /\ child' = Prints(child, "error", LastOf(trail))
         /\ TestExits(t) => /\ UNCHANGED parent /\ child' = Drained(child)
                            /\ file' = file \o child.buffer
<1> DEFINE c == child.error_count
           p == child.previous_error
           b == child.buffer
           nb == Append(b, Say("error", LastOf(trail)))
<1>1. Child = CuteState(Memo(c, p, b), file)
  BY CuteParts
<1>2. IncompleteShown(Child, trail, Len(shown[t]) + 1) = CuteState(Memo(c, p, nb), file)
  BY <1>1, CuteErrs
<1>3. Flushed(Child) = CuteState(Memo(c, p, <<>>), file \o b)
  BY <1>1, CuteFlushes
<1> HIDE DEF nb
<1>4. TestThrows(t) => CodeThrows(t) /\ UNCHANGED <<parent, file>> /\ child' = Memo(c, p, nb)
  BY <1>2, CuteStateIs DEF TestThrows
<1>5. ASSUME TestExits(t) PROVE UNCHANGED parent /\ child' = Memo(c, p, <<>>) /\ file' = file \o b
  <2>1. UNCHANGED parent /\ InChild(Flushed(Child))
    BY <1>5 DEF TestExits
  <2>2. InChild(CuteState(Memo(c, p, <<>>), file \o b))
    BY <1>3, <2>1
  <2>3. QED
    BY <2>1, <2>2, CuteStateIs
<1>6. TestGoesOn(t) => UNCHANGED <<parent, child, file>>
  BY DEF TestGoesOn, Silent, output
<1>7. QED
  BY <1>4, <1>5, <1>6 DEF nb, Prints, Drained

LEMMA CuteReports ==
  ASSUME kind = "cute", CuteMemory, NEW t \in Tests, NEW r \in {"pass", "fail"}, NEW m, TestReports(t, r, m)
  PROVE  /\ CodeSends(t, r) /\ UNCHANGED <<parent, file>>
         /\ child' = IF r = "pass" THEN child ELSE Fails1(child, LastOf(trail))
<1> DEFINE c == child.error_count
           p == child.previous_error
           b == child.buffer
           n == Len(shown[t]) + 1
           nb == Append(b, Say("failure", LastOf(trail)))
<1>1. Child = CuteState(Memo(c, p, b), file) /\ child = Memo(c, p, b)
  BY CuteParts
<1>2. \A own : ~Hung(own)
  BY DEF Hung
<1>3. PICK st \in Shown(Child, trail, r, n, m) : CodeSends(t, r) /\ InChild(st) /\ UNCHANGED parent
  BY <1>2 DEF TestReports
<1>4. CASE r = "pass"
  <2>1. Shown(Child, trail, r, n, m) = {CuteState(Memo(c, p, b), file)}
    BY <1>1, <1>4, CuteFails
  <2>2. InChild(CuteState(Memo(c, p, b), file))
    BY <1>3, <2>1
  <2>3. QED
    BY <1>1, <1>3, <1>4, <2>2, CuteStateIs
<1>5. CASE r = "fail"
  <2>1. Shown(Child, trail, r, n, m)
          = {IF p THEN CuteState(Memo(c, p, b), file) ELSE CuteState(Memo(c, Yes, nb), file)}
    BY <1>1, <1>5, CuteFails
  <2> HIDE DEF nb
  <2>2. st = IF p THEN CuteState(Memo(c, p, b), file) ELSE CuteState(Memo(c, Yes, nb), file)
    BY <1>3, <2>1
  <2>3. CASE p
    <3>1. InChild(CuteState(Memo(c, p, b), file))
      BY <1>3, <2>2, <2>3
    <3>2. child' = child /\ file' = file
      BY <1>1, <3>1, CuteStateIs
    <3>3. QED
      BY <1>3, <1>5, <2>3, <3>2 DEF Fails1
  <2>4. CASE ~p
    <3>1. InChild(CuteState(Memo(c, Yes, nb), file))
      BY <1>3, <2>2, <2>4
    <3>2. child' = Memo(c, Yes, nb) /\ file' = file
      BY <3>1, CuteStateIs
    <3>3. QED
      BY <1>3, <1>5, <2>4, <3>2 DEF Fails1, nb
  <2>5. QED
    BY <2>3, <2>4
<1>6. QED
  BY <1>4, <1>5

\* a process that is killed leaves all or nothing of what it printed
LEMMA CuteKills ==
  ASSUME kind = "cute", CuteMemory, NEW t \in Tests, NEW how, NEW m,
         TestKilled(t, how) \/ TestKilledReporting(t, how, m)
  PROVE  /\ CodeDies(t, how) /\ UNCHANGED <<parent, child>>
         /\ file' \in {file, file \o child.buffer, file \o Fails1(child, LastOf(trail)).buffer}
         /\ TestKilled(t, how) => UNCHANGED shown /\ file' \in {file, file \o child.buffer}
<1> DEFINE c == child.error_count
           p == child.previous_error
           b == child.buffer
           n == Len(shown[t]) + 1
           nb == Append(b, Say("failure", LastOf(trail)))
<1>1. Child = CuteState(Memo(c, p, b), file) /\ child = Memo(c, p, b)
  BY CuteParts
<1>2. Remains(CuteState(Memo(c, p, b), file)) = {file, file \o b}
  BY CuteRemains
<1> HIDE DEF nb
<1>3. Remains(CuteState(Memo(c, Yes, nb), file)) = {file, file \o nb}
  BY CuteRemains
<1>4. Memo(c, Yes, nb).buffer = nb
  BY DEF Memo
<1>5. Shown(Child, trail, "fail", n, m)
        = {IF p THEN CuteState(Memo(c, p, b), file) ELSE CuteState(Memo(c, Yes, nb), file)}
  BY <1>1, CuteFails DEF nb
<1>6. ASSUME TestKilled(t, how)
      PROVE  CodeDies(t, how) /\ UNCHANGED <<parent, child, shown>> /\ file' \in {file, file \o b}
  BY <1>1, <1>2, <1>6 DEF TestKilled
<1>7. ASSUME TestKilledReporting(t, how, m)
      PROVE  CodeDies(t, how) /\ UNCHANGED <<parent, child>> /\ file' \in {file, file \o b, file \o Fails1(child, LastOf(trail)).buffer}
  <2>1. CodeDies(t, how) /\ UNCHANGED <<parent, child>>
    BY <1>7 DEF TestKilledReporting
  <2>2. PICK st \in Shown(Child, trail, "fail", n, m) : file' \in Remains(st)
    BY <1>7 DEF TestKilledReporting
  <2>3. st = IF p THEN CuteState(Memo(c, p, b), file) ELSE CuteState(Memo(c, Yes, nb), file)
    BY <1>5, <2>2
  <2>4. CASE p
    <3>1. Remains(st) = {file, file \o b}
      BY <1>2, <2>3, <2>4
    <3>2. QED
      BY <2>1, <2>2, <3>1
  <2>5. CASE ~p
    <3>1. Remains(st) = {file, file \o nb}
      BY <1>3, <2>3, <2>5
    <3>2. Fails1(child, LastOf(trail)) = Memo(c, Yes, nb)
      BY <2>5 DEF Fails1, nb
    <3>3. Fails1(child, LastOf(trail)).buffer = nb
      BY <1>4, <3>2
    <3>4. QED
      BY <2>1, <2>2, <3>1, <3>3
  <2>6. QED
    BY <2>4, <2>5
<1>8. QED
  BY <1>6, <1>7

-----------------------------------------------------------------------------
(* Verdicts stand behind the start of their test                           *)

NoneLeft == pc = "stopped" => \A t \in Tests : ~Alive(t)

CuteInv ==
  /\ CuteMemory
  /\ Blocked(CuteLines)
  /\ InTest => Open(CuteLines, Entry)
  \* nothing of the main process is unwritten while a test may write
  /\ AtFork => parent.buffer = <<>> /\ OnlyOn(child.buffer, Entry)
  /\ NoneLeft

LEMMA NameOnTrail ==
  ASSUME RunInv, pc # "stopped"
  PROVE  /\ LastOf(trail) \in Named
         /\ InTest => LastOf(trail) = Entry /\ Entry \in Tests
         /\ ~InTest => LastOf(trail) \in Suites
<1>1. MainOK /\ PathOK /\ stack # <<>> /\ trail \in Seq(Suites \cup Tests)
  BY DEF RunInv, PathInv, TypeInv, MainOK
<1>2. Len(stack) \in Nat \ {0} /\ Top \in FrameSet
  BY <1>1, TopType
<1>3. ASSUME InTest PROVE LastOf(trail) = Entry /\ Entry \in Tests
  <2>1. Len(trail) = Len(stack) + 1 /\ trail[Len(stack) + 1] = Entry
    BY <1>1, <1>3 DEF PathOK
  <2>2. QED
    BY <1>1, <1>3, <2>1 DEF LastOf, MainOK
<1>4. ASSUME ~InTest PROVE LastOf(trail) \in Suites
  <2>1. Len(trail) = Len(stack) /\ trail[Len(stack)] = Top.suite
    BY <1>1, <1>2, <1>4 DEF PathOK, Top
  <2>2. Top.suite \in Suites
    BY <1>2 DEF FrameSet
  <2>3. QED
    BY <2>1, <2>2 DEF LastOf
<1>5. QED
  BY <1>3, <1>4 DEF Named

LEMMA OnlyTest ==
  ASSUME RunInv, NoneLeft, NEW t \in Tests, Alive(t)
  PROVE  pc # "stopped" /\ AtFork /\ t = Entry /\ InTest /\ LastOf(trail) = Entry
<1>1. pc # "stopped"
  BY DEF NoneLeft
<1>2. Forking /\ ~Helper
  BY ReportAssumption DEF Forking
<1>3. ~Misled
  BY <1>2, ReportAssumption DEF RunInv, SumInv, SumOK, Misled, Undisturbed, OnlyRunnerExits
<1>4. AtFork /\ t = Entry
  BY <1>1, <1>2, <1>3 DEF RunInv, SumInv, PipeInv, WaitInv, WaitOK
<1>5. InTest
  BY <1>4 DEF AtFork, InTest
<1>6. QED
  BY <1>1, <1>4, <1>5, NameOnTrail

LEMMA SayType ==
  ASSUME NEW l \in {"beginning", "starting", "ending"} \cup Verdicts, NEW n \in Named
  PROVE  Say(l, n) \in CuteLine /\ Say(l, n).line = l /\ Say(l, n).name = n
BY DEF Say, CuteLine

LEMMA MemoType == ASSUME NEW c, NEW p, NEW b \in Seq(CuteLine) PROVE IsMemo(Memo(c, p, b)) /\ Memo(c, p, b).buffer = b
<1>1. Memo(c, p, b).error_count = c /\ Memo(c, p, b).previous_error = p /\ Memo(c, p, b).buffer = b
  BY DEF Memo
<1>2. QED
  BY <1>1 DEF IsMemo

LEMMA LineAdded ==
  ASSUME NEW f \in Seq(CuteLine), NEW b \in Seq(CuteLine), NEW l \in CuteLine
  PROVE  /\ Append(b, l) \in Seq(CuteLine) /\ f \o b \in Seq(CuteLine) /\ f \o Append(b, l) \in Seq(CuteLine)
         /\ f \o Append(b, l) = Append(f \o b, l)
         /\ (f \o Append(b, l)) \o <<>> = Append(f \o b, l)
<1>1. Append(b, l) \in Seq(CuteLine) /\ f \o b \in Seq(CuteLine)
  BY AppendProperties, ConcatProperties
<1>2. f \o Append(b, l) \in Seq(CuteLine)
  BY <1>1, ConcatProperties
<1>3. f \o Append(b, l) = Append(f \o b, l)
  BY ConcatAppend
<1>4. (f \o Append(b, l)) \o <<>> = f \o Append(b, l)
  BY <1>2, EmptyEnds
<1>5. QED
  BY <1>1, <1>2, <1>3, <1>4

\* a step of the main process outside of tests that prints a line which is no verdict on one
LEMMA BlockedMain ==
  ASSUME RunInv, CuteInv, NEW l \in CuteLine, l.line \in Verdicts => l.name \notin Tests,
         child' = child, NEW c, NEW p,
         \/ parent' = Memo(c, p, Append(parent.buffer, l)) /\ file' = file
         \/ parent' = Memo(c, p, <<>>) /\ file' = file \o Append(parent.buffer, l),
         ~InTest', NoneLeft'
  PROVE  CuteInv'
<1> DEFINE b == parent.buffer
<1>1. b \in Seq(CuteLine) /\ file \in Seq(CuteLine) /\ IsMemo(child)
  BY CuteParts DEF CuteInv, CuteMemory
<1> HIDE DEF b
<1>2. /\ Append(b, l) \in Seq(CuteLine) /\ file \o b \in Seq(CuteLine) /\ file \o Append(b, l) \in Seq(CuteLine)
      /\ file \o Append(b, l) = Append(file \o b, l) /\ (file \o Append(b, l)) \o <<>> = Append(file \o b, l)
      /\ <<>> \in Seq(CuteLine)
  BY <1>1, LineAdded
<1>3. CuteLines = file \o b
  BY DEF CuteLines, b
<1>4. CuteMemory' /\ CuteLines' = Append(CuteLines, l)
  <2>1. CASE parent' = Memo(c, p, Append(b, l)) /\ file' = file
    <3>1. IsMemo(parent') /\ parent'.buffer = Append(b, l)
      BY <1>2, <2>1, MemoType
    <3>2. QED
      BY <1>1, <1>2, <1>3, <2>1, <3>1 DEF CuteMemory, CuteLines
  <2>2. CASE parent' = Memo(c, p, <<>>) /\ file' = file \o Append(b, l)
    <3>1. IsMemo(parent') /\ parent'.buffer = <<>>
      BY <1>2, <2>2, MemoType
    <3>2. QED
      BY <1>1, <1>2, <1>3, <2>2, <3>1 DEF CuteMemory, CuteLines
  <2>3. QED
    BY <2>1, <2>2 DEF b
<1>5. Blocked(CuteLines')
  BY <1>2, <1>3, <1>4, BlockedAppend DEF CuteInv
<1>6. ~AtFork'
  BY DEF AtFork, InTest
<1>7. QED
  BY <1>4, <1>5, <1>6 DEF CuteInv

LEMMA NameOnTrailNext == (RunInv /\ pc # "stopped" => LastOf(trail) \in Named)'
<1>1. RunInv /\ pc # "stopped" => LastOf(trail) \in Named
  BY NameOnTrail
<1>2. QED
  BY <1>1, PTL

LEMMA BlockedSuites ==
  ASSUME kind = "cute", RunInv, RunInv', CuteInv, StartsSuite \/ FinishesSuite PROVE CuteInv'
<1>1. CuteMemory /\ TypeInv /\ TypeInv'
  BY DEF CuteInv, RunInv, PathInv
<1>2. ~InTest' /\ pc \in {"setup", "reading_suite"} /\ UNCHANGED code
  BY PlainSuite DEF Plain, FinishesSuite, StartSubSuite, FinishSuite, InTest, procs
<1>3. NoneLeft'
  <2>1. \A t \in Tests : ~Alive(t)
    BY <1>2, OnlyTest DEF CuteInv, AtFork
  <2>2. QED
    BY <1>2, <2>1 DEF NoneLeft, Alive
<1>4. CASE StartsSuite
  <2>1. parent' = Prints(parent, "beginning", LastOf(trail')) /\ UNCHANGED <<child, file>>
    BY <1>1, <1>4, CuteSuiteSteps
  <2>2. LastOf(trail') \in Named
    <3>1. pc' # "stopped"
      BY <1>4, PlainSuite DEF Plain, StartSubSuite
    <3>2. (RunInv /\ pc # "stopped" => LastOf(trail) \in Named)'
      BY NameOnTrailNext
    <3>3. QED
      BY <3>1, <3>2 DEF LastOf
  <2>3. Say("beginning", LastOf(trail')) \in CuteLine /\ Say("beginning", LastOf(trail')).line = "beginning"
    BY <2>2, SayType
  <2>4. "beginning" \notin Verdicts
    BY DEF Verdicts
  <2>5. QED
    BY <1>2, <1>3, <2>1, <2>3, <2>4, BlockedMain DEF Prints
<1>5. CASE FinishesSuite
  <2> DEFINE l == Say("ending", LastOf(trail))
  <2>1. /\ UNCHANGED child
        /\ \/ parent' = Prints(parent, "ending", LastOf(trail)) /\ UNCHANGED file
           \/ parent' = Drained(parent) /\ file' = file \o Append(parent.buffer, l)
    BY <1>1, <1>5, CuteSuiteSteps
  <2>2. LastOf(trail) \in Named
    BY <1>2, NameOnTrail
  <2>3. l \in CuteLine /\ l.line = "ending" /\ "ending" \notin Verdicts
    BY <2>2, SayType DEF Verdicts
  <2> HIDE DEF l
  <2>4. \/ parent' = Memo(parent.error_count, parent.previous_error, Append(parent.buffer, l)) /\ file' = file
        \/ parent' = Memo(parent.error_count, parent.previous_error, <<>>) /\ file' = file \o Append(parent.buffer, l)
    BY <2>1 DEF Prints, Drained, l
  <2>5. QED
    BY <1>2, <1>3, <2>1, <2>3, <2>4, BlockedMain
<1>6. QED
  BY <1>4, <1>5

LEMMA BlockedFixtures ==
  ASSUME kind = "cute", RunInv, RunInv', CuteInv, NEW r \in {"pass", "fail"}, NEW m, FixtureReports(r, m)
  PROVE  CuteInv'
<1>1. CuteMemory
  BY DEF CuteInv
<1>2. FixtureAsserts(r) /\ UNCHANGED <<child, file>>
      /\ parent' = IF r = "pass" THEN parent ELSE Fails1(parent, LastOf(trail))
  BY <1>1, CuteFixtureSteps
<1>3. pc \in {"setup", "teardown"} /\ UNCHANGED <<pc, code, stack>>
  BY <1>2 DEF FixtureAsserts, main, procs
<1>4. ~InTest /\ ~InTest' /\ ~AtFork' /\ NoneLeft'
  BY <1>3 DEF InTest, AtFork, NoneLeft
<1>5. CASE parent' = parent
  BY <1>2, <1>4, <1>5 DEF CuteInv, CuteMemory, CuteLines
<1>6. CASE parent' # parent
  <2>1. LastOf(trail) \in Suites /\ LastOf(trail) \in Named
    BY <1>3, <1>4, NameOnTrail
  <2>2. parent' = Memo(parent.error_count, Yes, Append(parent.buffer, Say("failure", LastOf(trail))))
    BY <1>2, <1>6 DEF Fails1
  <2>3. Say("failure", LastOf(trail)) \in CuteLine /\ Say("failure", LastOf(trail)).name \notin Tests
    <3>1. "failure" \in {"beginning", "starting", "ending"} \cup Verdicts
      BY DEF Verdicts
    <3>2. QED
      BY <2>1, <3>1, SayType, TreeAssumption
  <2>4. QED
    BY <1>2, <1>4, <2>2, <2>3, BlockedMain
<1>7. QED
  BY <1>5, <1>6

\* the start of a test, forked or not
LEMMA BlockedStarts ==
  ASSUME kind = "cute", RunInv, RunInv', CuteInv, SkipsTest \/ Forks PROVE CuteInv'
<1> DEFINE b == parent.buffer
           l == Say("starting", Entry)
<1>1. CuteMemory /\ b \in Seq(CuteLine) /\ file \in Seq(CuteLine) /\ IsMemo(child)
  BY CuteParts DEF CuteInv, CuteMemory
<1>2. Entry \in Tests /\ Entry' = Entry /\ pc' # "stopped" /\ (SkipsTest => ~AtFork')
  BY DEF SkipsTest, Forks, SkipTest, RunTest, AtTest, StartTest, Entry, Top, AtFork
<1>3. Entry \in Named /\ l \in CuteLine
  BY <1>2, SayType DEF Named
<1>4. /\ Append(b, l) \in Seq(CuteLine) /\ file \o b \in Seq(CuteLine) /\ file \o Append(b, l) \in Seq(CuteLine)
      /\ file \o Append(b, l) = Append(file \o b, l) /\ (file \o Append(b, l)) \o <<>> = Append(file \o b, l)
      /\ <<>> \in Seq(CuteLine)
  BY <1>1, <1>3, LineAdded
<1>5. Blocked(Append(CuteLines, l)) /\ Open(Append(CuteLines, l), Entry)
  <2>1. CuteLines \in Seq(CuteLine) /\ Blocked(CuteLines)
    BY <1>4 DEF CuteLines, CuteInv
  <2>2. l.line = "starting" /\ "starting" \notin Verdicts
    BY DEF Say, Verdicts
  <2>3. QED
    BY <1>3, <2>1, <2>2, BlockedAppend, OpenStarts
<1> HIDE DEF b, l
<1>6. CASE SkipsTest
  <2>1. parent' = Memo(Wrong(counters), No, Append(b, l)) /\ UNCHANGED <<child, file>>
    BY <1>1, <1>6, CuteTestSteps DEF b, l
  <2>2. IsMemo(parent') /\ parent'.buffer = Append(b, l)
    BY <1>4, <2>1, MemoType
  <2>3. CuteLines' = Append(CuteLines, l)
    BY <1>4, <2>1, <2>2 DEF CuteLines, b
  <2>4. QED
    BY <1>1, <1>2, <1>5, <1>6, <2>1, <2>2, <2>3 DEF CuteInv, CuteMemory, NoneLeft
<1>7. CASE Forks
  <2>1. parent' = Memo(Wrong(counters), No, <<>>) /\ child' = parent' /\ file' = file \o Append(b, l)
    BY <1>1, <1>7, CuteTestSteps DEF b, l
  <2>2. IsMemo(parent') /\ parent'.buffer = <<>>
    BY <1>4, <2>1, MemoType
  <2>3. CuteLines' = Append(CuteLines, l)
    BY <1>4, <2>1, <2>2 DEF CuteLines, b
  <2>4. OnlyOn(child'.buffer, Entry)
    BY <2>1, <2>2 DEF OnlyOn
  <2>5. QED
    BY <1>2, <1>4, <1>5, <2>1, <2>2, <2>3, <2>4 DEF CuteInv, CuteMemory, NoneLeft
<1>8. QED
  BY <1>6, <1>7

LEMMA BlockedFinishes ==
  ASSUME kind = "cute", RunInv, RunInv', CuteInv, Finishes PROVE CuteInv'
<1> DEFINE b == parent.buffer
           c == parent.error_count
           e == Say("error", Entry)
           s == Say("success", Entry)
           nb == LastLines(c, b, Reported, Entry, Wrong(counters'))
<1>1. CuteMemory /\ b \in Seq(CuteLine) /\ file \in Seq(CuteLine) /\ IsMemo(child)
  BY CuteParts DEF CuteInv, CuteMemory
<1>2. pc = "reading" /\ ~InTest' /\ pc' # "stopped" /\ InTest
  BY DEF Finishes, FinishTest, InTest
<1>3. LastOf(trail) = Entry /\ Entry \in Tests
  BY <1>2, NameOnTrail
<1>4. parent' = Memo(c, parent.previous_error, nb) /\ UNCHANGED <<child, file>>
  BY <1>1, <1>3, CuteTestSteps
<1>5. e \in CuteLine /\ s \in CuteLine /\ e.name = Entry /\ s.name = Entry
  <2>1. "error" \in {"beginning", "starting", "ending"} \cup Verdicts
        /\ "success" \in {"beginning", "starting", "ending"} \cup Verdicts
    BY DEF Verdicts
  <2>2. QED
    BY <1>3, <2>1, SayType DEF Named
<1>6. nb \in {b, Append(b, e), Append(b, s), Append(Append(b, e), s)}
  BY DEF LastLines
<1> HIDE DEF b, e, s, nb, c
<1>7. CuteLines = file \o b /\ CuteLines \in Seq(CuteLine) /\ Blocked(CuteLines) /\ Open(CuteLines, Entry)
  <2>1. file \o b \in Seq(CuteLine)
    BY <1>1, <1>5, LineAdded
  <2>2. QED
    BY <1>2, <2>1 DEF CuteInv, CuteLines, b
<1>8. ASSUME NEW l \in CuteLine, l.name = Entry, NEW d \in Seq(CuteLine), Blocked(file \o d), Open(file \o d, Entry)
      PROVE  /\ Append(d, l) \in Seq(CuteLine)
             /\ Blocked(file \o Append(d, l)) /\ Open(file \o Append(d, l), Entry)
  <2>1. Append(d, l) \in Seq(CuteLine) /\ file \o d \in Seq(CuteLine) /\ file \o Append(d, l) = Append(file \o d, l)
    BY <1>1, <1>8, LineAdded
  <2>2. QED
    BY <1>8, <2>1, OpenAppend
<1>9. nb \in Seq(CuteLine) /\ Blocked(file \o nb)
  <2>1. Append(b, e) \in Seq(CuteLine) /\ Blocked(file \o Append(b, e)) /\ Open(file \o Append(b, e), Entry)
    BY <1>1, <1>5, <1>7, <1>8
  <2>2. Append(b, s) \in Seq(CuteLine) /\ Blocked(file \o Append(b, s))
    BY <1>1, <1>5, <1>7, <1>8
  <2>3. Append(Append(b, e), s) \in Seq(CuteLine) /\ Blocked(file \o Append(Append(b, e), s))
    BY <1>5, <1>8, <2>1
  <2>4. QED
    BY <1>1, <1>6, <1>7, <2>1, <2>2, <2>3
<1>10. IsMemo(parent') /\ parent'.buffer = nb
  BY <1>4, <1>9, MemoType
<1>11. CuteMemory' /\ Blocked(CuteLines')
  BY <1>1, <1>4, <1>9, <1>10 DEF CuteMemory, CuteLines
<1>12. ~AtFork'
  BY <1>2 DEF AtFork, InTest
<1>13. QED
  BY <1>2, <1>11, <1>12 DEF CuteInv, NoneLeft

LEMMA BlockedSilently ==
  ASSUME RunInv, CuteInv, MainGoesOn, Silent,
         ~(StartsSuite \/ SkipsTest \/ Forks \/ Finishes \/ FinishesSuite)
  PROVE  CuteInv'
<1>1. \/ EnterSubSuite \/ TeardownReturns \/ PassEntry \/ StartOwnTests
      \/ IgnoreCtrlC \/ ReadResult \/ EndSuite
      \/ \E z \in Tests \X Dead : WaitForChild(z)
  BY DEF MainGoesOn
<1>2. UNCHANGED <<parent, child, file>>
  BY DEF Silent, output
<1>3. pc' # "stopped"
  BY <1>1 DEF EnterSubSuite, TeardownReturns, PassEntry, StartOwnTests, IgnoreCtrlC, ReadResult, EndSuite,
     WaitForChild, Goto, main, InLoop
<1>4. /\ InTest' => InTest /\ UNCHANGED stack
      /\ AtFork' => AtFork
  BY <1>1 DEF EnterSubSuite, TeardownReturns, PassEntry, StartOwnTests, IgnoreCtrlC, ReadResult, EndSuite,
     WaitForChild, Goto, main, InTest, AtFork, InLoop
<1>5. InTest' => Entry' = Entry
  BY <1>4 DEF Entry, Top
<1>6. AtFork' => InTest'
  BY DEF AtFork, InTest
<1>7. CuteLines' = CuteLines
  BY <1>2 DEF CuteLines
<1>8. QED
  BY <1>2, <1>3, <1>4, <1>5, <1>6, <1>7 DEF CuteInv, CuteMemory, NoneLeft

\* a step of the process of the test under way
LEMMA BlockedCode ==
  ASSUME RunInv, CuteInv, NEW t \in Tests, Alive(t), UNCHANGED <<pc, stack, parent>>,
         NEW w \in Seq(CuteLine), OnlyOn(w, t), file' = file \o w,
         NEW c, NEW p, NEW b \in Seq(CuteLine), OnlyOn(b, t), child' = Memo(c, p, b)
  PROVE  CuteInv'
<1>1. pc # "stopped" /\ AtFork /\ t = Entry /\ InTest
  BY OnlyTest DEF CuteInv
<1>2. Entry' = Entry /\ (AtFork' <=> AtFork) /\ (InTest' <=> InTest)
  BY DEF Entry, Top, AtFork, InTest
<1>3. parent.buffer = <<>> /\ IsMemo(parent) /\ file \in Seq(CuteLine) /\ Blocked(CuteLines) /\ Open(CuteLines, t)
  BY <1>1, CuteParts DEF CuteInv, CuteMemory
<1>4. CuteLines = file /\ file \o w \in Seq(CuteLine) /\ (file \o w) \o <<>> = file \o w
  <2>1. file \o w \in Seq(CuteLine)
    BY <1>3, ConcatProperties
  <2>2. (file \o w) \o <<>> = file \o w /\ file \o <<>> = file
    BY <1>3, <2>1, EmptyEnds
  <2>3. QED
    BY <1>3, <2>1, <2>2 DEF CuteLines
<1>5. CuteLines' = CuteLines \o w
  BY <1>3, <1>4 DEF CuteLines
<1>6. Blocked(CuteLines') /\ Open(CuteLines', t)
  BY <1>3, <1>4, <1>5, BlockedConcat
<1>7. IsMemo(child') /\ child'.buffer = b
  BY MemoType
<1>8. CuteMemory'
  BY <1>3, <1>4, <1>7 DEF CuteMemory
<1>9. NoneLeft'
  BY <1>1 DEF NoneLeft
<1>10. QED
  BY <1>1, <1>2, <1>3, <1>6, <1>7, <1>8, <1>9 DEF CuteInv

LEMMA BlockedTest ==
  ASSUME kind = "cute", RunInv, CuteInv, NEW t \in Tests, TestStep(t) PROVE CuteInv'
<1> DEFINE b == child.buffer
           c == child.error_count
           p == child.previous_error
           Goal == \E w, nb \in Seq(CuteLine) : \E nc, np :
                     /\ OnlyOn(w, t) /\ OnlyOn(nb, t) /\ file' = file \o w /\ child' = Memo(nc, np, nb)
<1>1. /\ CuteMemory /\ b \in Seq(CuteLine) /\ file \in Seq(CuteLine) /\ child = Memo(c, p, b)
      /\ <<>> \in Seq(CuteLine) /\ file \o <<>> = file
  BY CuteParts, EmptyEnds DEF CuteInv
<1>2. Forking
  BY ReportAssumption DEF Forking
<1>3. Alive(t) /\ UNCHANGED <<pc, stack>>
  BY <1>2 DEF TestStep, TestGoesOn, TestThrows, TestExits, TestReports, TestKilled, TestKilledReporting,
     CodeAdvances, CodeCompletes, CodeThrows, CodeSends, CodeDies, Alarm, ChildEnds, Dies, main, Alive, Running, Dead,
     Hung
<1>4. AtFork /\ t = Entry /\ LastOf(trail) = t
  BY <1>3, OnlyTest DEF CuteInv
<1>5. OnlyOn(b, t) /\ OnlyOn(<<>>, t)
  BY <1>4 DEF CuteInv, OnlyOn
<1>6. ASSUME NEW l \in {"failure", "error"}
      PROVE  Append(b, Say(l, t)) \in Seq(CuteLine) /\ OnlyOn(Append(b, Say(l, t)), t)
  <2>1. Say(l, t) \in CuteLine /\ Say(l, t).name = t
    BY SayType DEF Named, Verdicts
  <2>2. QED
    BY <1>1, <1>5, <2>1, AppendProperties DEF OnlyOn
<1> HIDE DEF b, c, p
<1>7. CASE TestGoesOn(t)
  <2>1. UNCHANGED <<parent, child, file>>
    BY <1>1, <1>7, CuteCodeSteps
  <2>2. Goal
    BY <1>1, <1>5, <2>1
  <2>3. QED
    BY <1>3, <2>1, <2>2, BlockedCode
<1>8. CASE TestThrows(t)
  <2>1. UNCHANGED <<parent, file>> /\ child' = Prints(child, "error", t)
    BY <1>1, <1>4, <1>8, CuteCodeSteps
  <2>2. child' = Memo(c, p, Append(b, Say("error", t)))
    BY <2>1 DEF Prints, b, c, p
  <2>3. Goal
    BY <1>1, <1>5, <1>6, <2>1, <2>2
  <2>4. QED
    BY <1>3, <2>1, <2>3, BlockedCode
<1>9. CASE TestExits(t)
  <2>1. UNCHANGED parent /\ child' = Drained(child) /\ file' = file \o b
    BY <1>1, <1>9, CuteCodeSteps DEF b
  <2>2. child' = Memo(c, p, <<>>)
    BY <2>1 DEF Drained, c, p
  <2>3. Goal
    BY <1>1, <1>5, <2>1, <2>2
  <2>4. QED
    BY <1>3, <2>1, <2>3, BlockedCode
<1>10. Fails1(child, t) \in {child, Memo(c, Yes, Append(b, Say("failure", t)))}
  BY DEF Fails1, b, c
<1>11. ASSUME NEW r \in {"pass", "fail"}, NEW m, TestReports(t, r, m) PROVE CuteInv'
  <2>1. UNCHANGED <<parent, file>> /\ (child' = child \/ child' = Fails1(child, t))
    BY <1>1, <1>4, <1>11, CuteReports
  <2>2. child' = Memo(c, p, b) \/ child' = Memo(c, Yes, Append(b, Say("failure", t)))
    BY <1>1, <1>10, <2>1
  <2>3. Goal
    BY <1>1, <1>5, <1>6, <2>1, <2>2
  <2>4. QED
    BY <1>3, <2>1, <2>3, BlockedCode
<1>12. ASSUME NEW how, NEW m, TestKilled(t, how) \/ TestKilledReporting(t, how, m) PROVE CuteInv'
  <2>1. /\ UNCHANGED <<parent, child>>
        /\ file' \in {file, file \o b, file \o Fails1(child, t).buffer}
    BY <1>1, <1>4, <1>12, CuteKills DEF b
  <2>2. Fails1(child, t).buffer \in {b, Append(b, Say("failure", t))}
    <3>1. \A d : Memo(c, Yes, d).buffer = d
      BY DEF Memo
    <3>2. child.buffer = b
      BY DEF b
    <3> DEFINE d == Append(b, Say("failure", t))
    <3>3. Memo(c, Yes, d).buffer = d
      BY <3>1
    <3> HIDE DEF d
    <3>4. CASE Fails1(child, t) = child
      BY <3>2, <3>4
    <3>5. CASE Fails1(child, t) = Memo(c, Yes, d)
      BY <3>3, <3>5 DEF d
    <3>6. QED
      BY <1>10, <3>4, <3>5 DEF d
  <2>3. Goal
    BY <1>1, <1>5, <1>6, <2>1, <2>2
  <2>4. QED
    BY <1>3, <2>1, <2>3, BlockedCode
<1>13. QED
  BY <1>7, <1>8, <1>9, <1>11, <1>12 DEF TestStep

LEMMA CuteInvStep ==
  ASSUME kind = "cute", RunInv, RunInv', CuteInv, [ReportNext]_allvars PROVE CuteInv'
<1>1. CASE MainGoesOn
  BY <1>1, BlockedSuites, BlockedStarts, BlockedFinishes, BlockedSilently DEF MainGoesOn
<1>2. CASE UNCHANGED allvars
  BY <1>2 DEF allvars, vars, output, main, procs, CuteInv, CuteMemory, CuteLines, InTest, AtFork, NoneLeft, Alive,
     Entry, Top
<1>3. QED
  BY <1>1, <1>2, BlockedFixtures, BlockedTest DEF ReportNext

LEMMA CuteBegins ==
  ASSUME kind = "cute", NEW c, NEW p, NEW b, NEW f, NEW path
  PROVE  SuiteStarted(CuteState(Memo(c, p, b), f), path)
           = CuteState(Memo(c, p, Append(b, Say("beginning", LastOf(path)))), f)
BY CuteSuites

LEMMA CuteInvInit == ASSUME ReportInit, kind = "cute" PROVE CuteInv
<1> DEFINE l == Say("beginning", Root)
<1>1. PICK previous \in BOOLEAN : /\ parent = SuiteStarted(Cute!create(previous), <<Root>>).own
                                  /\ child = parent
                                  /\ file = SuiteStarted(Cute!create(previous), <<Root>>).file
  BY DEF ReportInit, Begin
<1>2. Cute!create(previous) = CuteState(Memo(0, previous, <<>>), <<>>)
  BY DEF Cute!create, CuteState, Memo
<1>3. SuiteStarted(CuteState(Memo(0, previous, <<>>), <<>>), <<Root>>)
        = CuteState(Memo(0, previous, Append(<<>>, Say("beginning", LastOf(<<Root>>)))), <<>>)
  <2> DEFINE zero == 0
             none == <<>>
             path == <<Root>>
  <2> HIDE DEF zero, none, path
  <2>1. kind = "cute"
    OBVIOUS
  <2>2. SuiteStarted(CuteState(Memo(zero, previous, none), none), path)
          = CuteState(Memo(zero, previous, Append(none, Say("beginning", LastOf(path)))), none)
    BY <2>1, CuteBegins
  <2>3. QED
    BY <2>2 DEF zero, none, path
<1>4. LastOf(<<Root>>) = Root
  BY DEF LastOf
<1>5. l \in CuteLine /\ l.line = "beginning" /\ "beginning" \notin Verdicts
  BY SayType, TreeAssumption DEF Named, Verdicts
<1> HIDE DEF l
<1>6. parent = Memo(0, previous, Append(<<>>, l)) /\ file = <<>> /\ child = parent
  <2>1. SuiteStarted(Cute!create(previous), <<Root>>) = CuteState(Memo(0, previous, Append(<<>>, l)), <<>>)
    BY <1>2, <1>3, <1>4 DEF l
  <2>2. QED
    BY <1>1, <2>1 DEF CuteState
<1>7. /\ <<>> \in Seq(CuteLine) /\ Append(<<>>, l) \in Seq(CuteLine)
      /\ <<>> \o Append(<<>>, l) = Append(<<>> \o <<>>, l) /\ <<>> \o <<>> \in Seq(CuteLine)
  BY <1>5, LineAdded
<1>8. Blocked(<<>> \o <<>>)
  BY EmptyEnds DEF Blocked
<1>9. IsMemo(parent) /\ parent.buffer = Append(<<>>, l)
  BY <1>6, <1>7, MemoType
<1>10. Blocked(CuteLines)
  BY <1>5, <1>6, <1>7, <1>8, <1>9, BlockedAppend DEF CuteLines
<1>11. CuteMemory
  BY <1>6, <1>7, <1>9 DEF CuteMemory
<1>12. ~InTest /\ ~AtFork /\ pc # "stopped"
  BY DEF ReportInit, Init, InTest, AtFork
<1>13. QED
  BY <1>10, <1>11, <1>12 DEF CuteInv, NoneLeft

LEMMA CuteTells == CuteInv => CuteBlocks
<1> SUFFICES ASSUME CuteInv, NEW i \in DOMAIN CuteLines,
                    CuteLines[i].line \in Verdicts, CuteLines[i].name \in Tests
             PROVE  \E j \in 1..(i - 1) :
                      /\ CuteLines[j] = [line |-> "starting", name |-> CuteLines[i].name]
                      /\ \A k \in (j + 1)..(i - 1) : CuteLines[k].name = CuteLines[i].name
  BY DEF CuteBlocks, Verdicts
<1>1. CuteLines \in Seq(CuteLine)
  BY CuteParts, ConcatProperties DEF CuteInv, CuteLines
<1>2. Began(CuteLines, i - 1, CuteLines[i].name)
  BY <1>1 DEF CuteInv, Blocked
<1>3. QED
  BY <1>2 DEF Began, Say

\* What the processes of a run write into the stream for CUTE does not mix: each
\* verdict on a test stands between the start of this test and the next line of
\* another, whatever is killed and however much is buffered, in any suite tree.
THEOREM VerdictsStandInPlace == ReportSpec => []CuteBlocks
<1> DEFINE Inv == kind = "cute" => RunInv /\ CuteInv
<1>1. ReportInit => Inv
  BY RunInit, CuteInvInit
<1>2. Inv /\ [ReportNext]_allvars => Inv'
  <2> SUFFICES ASSUME Inv, [ReportNext]_allvars, kind' = "cute" PROVE (RunInv /\ CuteInv)'
    OBVIOUS
  <2>1. kind = "cute" /\ Plain
    BY KindStays DEF Plain
  <2>2. RunInv'
    BY <2>1, RunStep
  <2>3. CuteInv'
    BY <2>1, <2>2, CuteInvStep
  <2>4. QED
    BY <2>2, <2>3
<1>3. Inv => CuteBlocks
  BY CuteTells DEF CuteBlocks
<1>4. QED
  BY <1>1, <1>2, <1>3, PTL DEF ReportSpec

-----------------------------------------------------------------------------
(* A test is run once                                                      *)

\* each test is in one place of the tree, and Order is the walk over it
Listed(subs, own) == IsWalk(subs, own) /\ OnceEach

Begun(t)  == IsReported(t) \/ (InTest /\ t = Entry)
Starts    == SkipsTest \/ Forks
CodeIs(t, phases) == \E c \in phases : code' = [code EXCEPT ![t] = c]

OnceInv(subs, own) == RunInv /\ OrderInv(subs, own) /\ NoneLeft

LEMMA StartsFresh ==
  ASSUME NEW subs, NEW own, Listed(subs, own), OnceInv(subs, own), Starts
  PROVE  /\ Entry \in Tests /\ ~Begun(Entry) /\ ~InTest
         /\ \A t \in Tests : ~Alive(t)
<1>1. AtTest
  BY DEF Starts, SkipsTest, Forks, SkipTest, RunTest
<1>2. ~InTest /\ pc \notin {"stopped", "teardown"}
  BY <1>1 DEF AtTest, InTest
<1>3. ~IsReported(Entry)
  BY <1>1, <1>2, NotYet DEF AtTest, Listed, OnceInv
<1>4. \A t \in Tests : ~Alive(t)
  BY <1>2, OnlyTest DEF OnceInv
<1>5. QED
  BY <1>1, <1>2, <1>3, <1>4 DEF AtTest, Begun

\* the steps of test code leave the walk and the book alone
LEMMA CodeKeepsMain ==
  ASSUME NEW t \in Tests, TestStep(t), Plain
  PROVE  UNCHANGED <<pc, stack, trail, status, counters, total, reports, parent>> /\ Alive(t)
<1>1. Forking
  BY ReportAssumption DEF Forking
<1>2. UNCHANGED <<main, book>> /\ Alive(t)
  BY <1>1 DEF TestStep, TestGoesOn, TestThrows, TestExits, TestReports, TestKilled, TestKilledReporting,
     CodeAdvances, CodeCompletes, CodeThrows, CodeSends, CodeDies, Alarm, ChildEnds, Dies, vars, Hung, Plain,
     Alive, Running, Dead
<1>3. UNCHANGED parent
  BY DEF TestStep, TestGoesOn, TestThrows, TestExits, TestReports, TestKilled, TestKilledReporting, Silent, output
<1>4. QED
  BY <1>2, <1>3 DEF main, book

Living == Phases \ (Dead \cup {"none"})

\* and of the code of the tests they touch their own
LEMMA CodeOfTheTest ==
  ASSUME RunInv, Plain, NEW t \in Tests
  PROVE  /\ TestGoesOn(t) \/ TestThrows(t) => CodeIs(t, Living)
         /\ TestExits(t) => CodeIs(t, {"exited"})
         /\ \A r \in {"pass", "fail"} : \A m : TestReports(t, r, m) => UNCHANGED code
         /\ \A how \in Signals : \A m : TestKilled(t, how) \/ TestKilledReporting(t, how, m) => CodeIs(t, Signals)
<1>1. Forking
  BY ReportAssumption DEF Forking
<1>2. NextPhase(t) \in Living /\ "exiting" \in Living
  BY DEF NextPhase, Living, Phases, Running, Dead
<1>3. TestGoesOn(t) \/ TestThrows(t) => CodeIs(t, Living)
  BY <1>1, <1>2 DEF CodeIs, TestGoesOn, TestThrows, CodeAdvances, CodeCompletes, CodeThrows
<1>4. TestExits(t) => CodeIs(t, {"exited"})
  BY <1>1 DEF CodeIs, TestExits, CodeDies, Alarm, ChildEnds, Dies
<1>5. ASSUME NEW r \in {"pass", "fail"}, NEW m, TestReports(t, r, m) PROVE UNCHANGED code
  BY <1>5 DEF TestReports, CodeSends, procs, Hung, Plain
<1>6. ASSUME NEW how \in Signals, NEW m, TestKilled(t, how) \/ TestKilledReporting(t, how, m)
      PROVE  CodeIs(t, Signals)
  BY <1>1, <1>6 DEF CodeIs, TestKilled, TestKilledReporting, CodeDies, Dies
<1>7. QED
  BY <1>3, <1>4, <1>5, <1>6

LEMMA CodeElsewhere ==
  ASSUME RunInv, NEW t \in Tests, NEW phases, CodeIs(t, phases)
  PROVE  code'[t] \in phases /\ \A u \in Tests : u # t => code'[u] = code[u]
<1>1. code \in [Tests -> Phases]
  BY DEF RunInv, PathInv, TypeInv, ProcsOK
<1>2. QED
  BY <1>1 DEF CodeIs

LEMMA ReportAdded ==
  ASSUME TypeInv, FinishTest
  PROVE  LET rep == [test |-> Entry, how |-> Reported]
         IN  /\ rep \in Report /\ reports \in Seq(Report) /\ reports' = Append(reports, rep)
             /\ Len(reports') = Len(reports) + 1 /\ Len(reports) \in Nat
             /\ reports'[Len(reports) + 1] = rep
             /\ \A j \in 1..Len(reports) : reports'[j] = reports[j]
<1> DEFINE rep == [test |-> Entry, how |-> Reported]
<1>1. rep \in Report
  BY DEF FinishTest, TypeInv, MainOK, InTest, Report, Reported
<1>2. reports \in Seq(Report) /\ reports' = Append(reports, rep)
  BY DEF FinishTest, TypeInv, BookOK
<1> HIDE DEF rep
<1>3. QED
  BY <1>1, <1>2, AppendProperties, LenProperties DEF rep

\* who has begun
LEMMA BegunSteps ==
  ASSUME Plain, RunInv, NoneLeft, [ReportNext]_allvars, NEW t \in Tests
  PROVE  /\ Starts => (Begun(t)' <=> Begun(t) \/ t = Entry)
         /\ ~Starts => (Begun(t)' <=> Begun(t))
<1>1. ASSUME Starts PROVE Begun(t)' <=> Begun(t) \/ t = Entry
  <2>1. UNCHANGED <<stack, reports>> /\ InTest' /\ ~InTest
    BY <1>1 DEF Starts, SkipsTest, Forks, SkipTest, RunTest, StartTest, AtTest, book, InTest
  <2>2. QED
    BY <2>1 DEF Begun, IsReported, Entry, Top
<1>2. ASSUME Finishes PROVE Begun(t)' <=> Begun(t)
  <2>1. InTest /\ ~InTest' /\ FinishTest
    BY <1>2 DEF Finishes, FinishTest, InTest
  <2>2. IsReported(t)' <=> IsReported(t) \/ t = Entry
    BY <2>1, ReportAdded DEF IsReported, RunInv, PathInv
  <2>3. QED
    BY <2>1, <2>2 DEF Begun
<1>3. ASSUME UNCHANGED reports, InTest' <=> InTest, InTest => UNCHANGED stack PROVE Begun(t)' <=> Begun(t)
  BY <1>3 DEF Begun, IsReported, Entry, Top
<1>4. ASSUME NEW u \in Tests, TestStep(u) PROVE Begun(t)' <=> Begun(t)
  BY <1>4, <1>3, CodeKeepsMain DEF InTest
<1>5. ASSUME NEW r, NEW m, FixtureReports(r, m) PROVE Begun(t)' <=> Begun(t)
  BY <1>5, <1>3, PlainFixture DEF FixtureAsserts, main, book, InTest
<1>6. CASE StartsSuite \/ FinishesSuite
  BY <1>6, <1>3, PlainSuite DEF FinishesSuite, StartSubSuite, FinishSuite, InTest, Starts, SkipsTest, Forks,
     SkipTest, RunTest, AtTest
<1>7. CASE EnterSubSuite \/ TeardownReturns \/ PassEntry \/ StartOwnTests \/ EndSuite
  BY <1>7, <1>3, <1>1 DEF EnterSubSuite, TeardownReturns, PassEntry, StartOwnTests, EndSuite, InLoop, Goto, book, InTest,
     Starts
<1>8. CASE IgnoreCtrlC \/ ReadResult \/ \E z \in Tests \X Dead : WaitForChild(z)
  BY <1>8, <1>3, <1>1 DEF IgnoreCtrlC, ReadResult, WaitForChild, Goto, main, book, InTest, Starts
<1>9. ASSUME UNCHANGED allvars PROVE Begun(t)' <=> Begun(t)
  BY <1>9, <1>3 DEF allvars, vars, main, book, InTest
<1>10. CASE ~Starts
  BY <1>2, <1>4, <1>5, <1>6, <1>7, <1>8, <1>9, <1>10 DEF ReportNext, MainGoesOn, Starts
<1>11. QED
  BY <1>1, <1>10

LEMMA OnceStep ==
  ASSUME NEW subs, NEW own, Listed(subs, own), Plain, OnceInv(subs, own), [ReportNext]_allvars
  PROVE  OnceInv(subs, own)'
<1>1. RunInv' /\ OrderInv(subs, own)'
  BY RunStep, RunSteps, OrderStep, ReportAssumption DEF OnceInv, Listed, OnlyRunnerExits, Forking
<1>2. ASSUME NEW t \in Tests, TestStep(t) PROVE NoneLeft'
  <2>1. pc # "stopped" /\ UNCHANGED pc
    BY <1>2, CodeKeepsMain, OnlyTest DEF OnceInv
  <2>2. QED
    BY <2>1 DEF NoneLeft
<1>3. ASSUME UNCHANGED <<pc, code>> PROVE NoneLeft'
  BY <1>3 DEF NoneLeft, OnceInv, Alive
<1>4. ASSUME NEW r, NEW m, FixtureReports(r, m) PROVE NoneLeft'
  BY <1>3, <1>4, PlainFixture DEF FixtureAsserts, main, procs
<1>5. ASSUME FinishesSuite PROVE NoneLeft'
  <2>1. ~AtFork /\ UNCHANGED code
    BY <1>5 DEF FinishesSuite, FinishSuite, procs, AtFork
  <2>2. \A t \in Tests : ~Alive(t)
    BY <2>1, OnlyTest DEF OnceInv
  <2>3. QED
    BY <2>1, <2>2 DEF NoneLeft, Alive
<1>6. ASSUME MainGoesOn, ~FinishesSuite PROVE NoneLeft'
  <2>1. pc' # "stopped"
    BY <1>6, PlainSuite DEF MainGoesOn, SkipsTest, Forks, Finishes, StartSubSuite, SkipTest, RunTest, FinishTest,
       StartTest, EnterSubSuite, TeardownReturns, PassEntry, StartOwnTests, EndSuite, InLoop, Goto, IgnoreCtrlC,
       ReadResult, WaitForChild, main
  <2>2. QED
    BY <2>1 DEF NoneLeft
<1>7. NoneLeft'
  <2>1. UNCHANGED allvars => UNCHANGED <<pc, code>>
    BY DEF allvars, vars, main, procs
  <2>2. QED
    BY <1>2, <1>3, <1>4, <1>5, <1>6, <2>1 DEF ReportNext
<1>8. QED
  BY <1>1, <1>7 DEF OnceInv

LEMMA OnceInit ==
  ASSUME NEW subs, NEW own, Listed(subs, own), ReportInit
  PROVE  OnceInv(subs, own)
BY RunInit, OrderInit DEF ReportInit, Listed, OnceInv, NoneLeft, Init

-----------------------------------------------------------------------------
(* The records of the CDash reporter on a test                             *)

Stati    == {"passed", "failed", "incomplete"}
Record   == [status : Stati, name : Named]
Rec(s, n) == [status |-> s, name |-> n]
Taken(f, r, n) == IF r.name = n THEN Append(f, r.status) ELSE f

LEMMA TakenType ==
  ASSUME NEW r \in Record, NEW n, NEW f \in Seq(Stati) PROVE Taken(f, r, n) \in Seq(Stati)
BY AppendProperties DEF Record, Taken

LEMMA StatusesAre ==
  ASSUME NEW s \in Seq(Record), NEW n
  PROVE  \E F \in [0..Len(s) -> Seq(Stati)] :
           /\ F[0] = <<>> /\ \A i \in 1..Len(s) : F[i] = Taken(F[i - 1], s[i], n)
           /\ StatusesOf(s, n) = F[Len(s)]
<1> DEFINE N == Len(s)
           I == [i \in 0..N |-> Seq(Stati)]
           g == [q \in (1..N) \X Seq(Stati) |-> Taken(q[2], s[q[1]], n)]
           Is(F) == F = [i \in 0..N |-> IF i = 0 THEN <<>>
                                        ELSE IF s[i].name = n THEN Append(F[i - 1], s[i].status) ELSE F[i - 1]]
<1>1. N \in Nat /\ 0 \in 0..N /\ <<>> \in I[0]
  OBVIOUS
<1>2. \A i \in 1..N : \A f \in Seq(Stati) : Taken(f, s[i], n) \in Seq(Stati)
  BY ElementOfSeq, TakenType
<1>3. Leads(g, N, I)
  BY <1>1, <1>2 DEF Leads
<1>4. PICK F : Recurs(F, N, <<>>, g) /\ Within(F, N, I)
  <2> HIDE DEF I, g, N
  <2>1. QED
    BY <1>1, <1>3, RecursionExists
<1>5. F \in [0..N -> Seq(Stati)] /\ F[0] = <<>> /\ \A i \in 1..N : F[i] = Taken(F[i - 1], s[i], n)
  <2>1. F = [i \in 0..N |-> F[i]] /\ F[0] = <<>> /\ \A i \in 0..N : F[i] \in Seq(Stati)
    BY <1>4 DEF Recurs, Within
  <2>2. \A i \in 1..N : F[i] = g[<<i, F[i - 1]>>]
    BY <1>4 DEF Recurs
  <2>3. ASSUME NEW i \in 1..N PROVE F[i] = Taken(F[i - 1], s[i], n)
    <3>1. i - 1 \in 0..N
      OBVIOUS
    <3>2. <<i, F[i - 1]>> \in (1..N) \X Seq(Stati)
      BY <2>1, <3>1
    <3>3. QED
      BY <2>2, <3>2
  <2>4. QED
    BY <2>1, <2>3
<1>6. Is(F)
  <2>1. ASSUME NEW i \in 0..N
        PROVE  F[i] = IF i = 0 THEN <<>> ELSE IF s[i].name = n THEN Append(F[i - 1], s[i].status) ELSE F[i - 1]
    <3>1. CASE i = 0
      BY <1>5, <3>1
    <3>2. CASE i # 0
      <4>1. i \in 1..N
        BY <1>1, <3>2
      <4>2. F[i] = Taken(F[i - 1], s[i], n)
        BY <1>5, <4>1
      <4>3. QED
        BY <3>2, <4>2, Zenon DEF Taken
    <3>3. QED
      BY <3>1, <3>2
  <2>2. F = [i \in 0..N |-> F[i]]
    BY <1>5
  <2> HIDE DEF N
  <2>3. QED
    BY <2>1, <2>2, Zenon
<1>7. StatusesOf(s, n) = (CHOOSE G : Is(G))[N]
  BY DEF StatusesOf
<1>8. Is(CHOOSE G : Is(G))
  <2> HIDE DEF Is
  <2>1. QED
    BY <1>6
<1>9. (CHOOSE G : Is(G)) = F
  <2> DEFINE H == CHOOSE G : Is(G)
             Same == {i \in 0..N : H[i] = F[i]}
  <2>1. H = [i \in 0..N |-> IF i = 0 THEN <<>>
                            ELSE IF s[i].name = n THEN Append(H[i - 1], s[i].status) ELSE H[i - 1]]
    BY <1>8, Zenon
  <2> HIDE DEF H
  <2>2. 0 \in Same
    BY <1>1, <1>5, <2>1
  <2>3. ASSUME NEW i \in 1..N, i - 1 \in Same PROVE i \in Same
    <3>1. H[i] = Taken(H[i - 1], s[i], n)
      <4>1. i \in 0..N /\ i # 0
        BY <1>1
      <4>2. H[i] = IF i = 0 THEN <<>> ELSE IF s[i].name = n THEN Append(H[i - 1], s[i].status) ELSE H[i - 1]
        BY <2>1, <4>1, Zenon
      <4>3. QED
        BY <4>1, <4>2, Zenon DEF Taken
    <3>2. QED
      BY <1>5, <2>3, <3>1
  <2>4. 0..N \subseteq Same
    <3> HIDE DEF Same
    <3>1. QED
      BY <1>1, <2>2, <2>3, Stepwise
  <2>5. H = F
    <3>1. H = [i \in 0..N |-> H[i]]
      BY <2>1
    <3>2. \A i \in 0..N : H[i] = F[i]
      BY <2>4
    <3>3. F = [i \in 0..N |-> F[i]]
      BY <1>5
    <3>4. QED
      BY <3>1, <3>2, <3>3, Zenon
  <2>6. QED
    BY <2>5 DEF H
<1>10. QED
  BY <1>5, <1>7, <1>9

LEMMA StatusesConcat ==
  ASSUME NEW s \in Seq(Record), NEW b \in Seq(Record), NEW n
  PROVE  /\ StatusesOf(s \o b, n) = StatusesOf(s, n) \o StatusesOf(b, n)
         /\ StatusesOf(s, n) \in Seq(Stati) /\ StatusesOf(b, n) \in Seq(Stati)
<1> DEFINE m  == Len(s)
           l  == Len(b)
           sb == s \o b
<1>1. /\ m \in Nat /\ l \in Nat /\ sb \in Seq(Record) /\ Len(sb) = m + l
      /\ \A i \in 1..m : sb[i] = s[i]
      /\ \A i \in 1..l : sb[m + i] = b[i]
  <2>1. /\ m \in Nat /\ l \in Nat /\ sb \in Seq(Record) /\ Len(sb) = m + l
        /\ \A i \in 1..m : sb[i] = s[i]
        /\ \A i \in 1..(m + l) : i > m => sb[i] = b[i - m]
    BY ConcatProperties
  <2>2. ASSUME NEW i \in 1..l PROVE sb[m + i] = b[i]
    <3>1. m + i \in 1..(m + l) /\ m + i > m /\ (m + i) - m = i
      BY <2>1
    <3>2. QED
      BY <2>1, <3>1
  <2>3. QED
    BY <2>1, <2>2
<1>2. PICK F \in [0..m -> Seq(Stati)] :
        /\ F[0] = <<>> /\ \A i \in 1..m : F[i] = Taken(F[i - 1], s[i], n)
        /\ StatusesOf(s, n) = F[m]
  BY StatusesAre
<1>3. PICK G \in [0..l -> Seq(Stati)] :
        /\ G[0] = <<>> /\ \A i \in 1..l : G[i] = Taken(G[i - 1], b[i], n)
        /\ StatusesOf(b, n) = G[l]
  BY StatusesAre
<1> HIDE DEF sb
<1>4. PICK H \in [0..(m + l) -> Seq(Stati)] :
        /\ H[0] = <<>> /\ \A i \in 1..(m + l) : H[i] = Taken(H[i - 1], sb[i], n)
        /\ StatusesOf(sb, n) = H[m + l]
  <2>1. \E K \in [0..Len(sb) -> Seq(Stati)] :
          /\ K[0] = <<>> /\ \A i \in 1..Len(sb) : K[i] = Taken(K[i - 1], sb[i], n)
          /\ StatusesOf(sb, n) = K[Len(sb)]
    BY <1>1, StatusesAre
  <2>2. QED
    BY <1>1, <2>1
<1> HIDE DEF m, l
<1> DEFINE First == {i \in 0..m : H[i] = F[i]}
           Last  == {i \in 0..l : H[m + i] = F[m] \o G[i]}
<1>5. m \in First
  <2>1. 0 \in First
    BY <1>1, <1>2, <1>4
  <2>2. ASSUME NEW i \in 1..m, i - 1 \in First PROVE i \in First
    <3>1. i \in 1..(m + l)
      BY <1>1
    <3>2. H[i] = Taken(H[i - 1], sb[i], n) /\ F[i] = Taken(F[i - 1], s[i], n)
      BY <1>2, <1>4, <3>1
    <3>3. sb[i] = s[i] /\ H[i - 1] = F[i - 1]
      BY <1>1, <2>2
    <3>4. QED
      BY <3>2, <3>3
  <2> HIDE DEF First
  <2>3. 0..m \subseteq First
    BY <1>1, <2>1, <2>2, Stepwise
  <2>4. QED
    BY <1>1, <2>3
<1>6. F[m] \in Seq(Stati) /\ G[l] \in Seq(Stati)
  BY <1>1, <1>2, <1>3
<1>7. l \in Last
  <2>1. 0 \in Last
    <3>1. F[m] \o <<>> = F[m]
      BY <1>6, EmptyEnds
    <3>2. QED
      BY <1>1, <1>3, <1>5, <3>1
  <2>2. ASSUME NEW i \in 1..l, i - 1 \in Last PROVE i \in Last
    <3>1. m + i \in 1..(m + l) /\ (m + i) - 1 = m + (i - 1) /\ i - 1 \in 0..l
      BY <1>1
    <3>2. H[m + i] = Taken(H[m + (i - 1)], sb[m + i], n) /\ G[i] = Taken(G[i - 1], b[i], n)
      BY <1>3, <1>4, <3>1
    <3>3. H[m + (i - 1)] = F[m] \o G[i - 1] /\ sb[m + i] = b[i]
      BY <1>1, <2>2
    <3>4. G[i - 1] \in Seq(Stati) /\ b[i] \in Record
      BY <1>3, <3>1, ElementOfSeq DEF l
    <3>5. H[m + i] = Taken(F[m] \o G[i - 1], b[i], n)
      BY <3>2, <3>3
    <3>6. Taken(F[m] \o G[i - 1], b[i], n) = F[m] \o Taken(G[i - 1], b[i], n)
      <4>1. b[i].status \in Stati
        BY <3>4 DEF Record
      <4>2. F[m] \o Append(G[i - 1], b[i].status) = Append(F[m] \o G[i - 1], b[i].status)
        <5> DEFINE x == F[m]
                   y == G[i - 1]
                   z == b[i].status
        <5>1. x \in Seq(Stati) /\ y \in Seq(Stati) /\ z \in Stati
          BY <1>6, <3>4, <4>1
        <5> HIDE DEF x, y, z
        <5>2. x \o Append(y, z) = Append(x \o y, z)
          BY <5>1, ConcatAppend
        <5>3. QED
          BY <5>2 DEF x, y, z
      <4>3. QED
        BY <4>2, Zenon DEF Taken
    <3>7. i \in 0..l
      BY <1>1
    <3>8. H[m + i] = F[m] \o G[i]
      BY <3>2, <3>5, <3>6, Zenon
    <3>9. QED
      BY <3>7, <3>8, Zenon
  <2> HIDE DEF Last
  <2>3. 0..l \subseteq Last
    BY <1>1, <2>1, <2>2, Stepwise
  <2>4. QED
    BY <1>1, <2>3
<1>8. QED
  BY <1>2, <1>3, <1>4, <1>6, <1>7 DEF sb

LEMMA StatusesAppend ==
  ASSUME NEW s \in Seq(Record), NEW r \in Record, NEW n
  PROVE  StatusesOf(Append(s, r), n) = Taken(StatusesOf(s, n), r, n)
<1>1. Append(s, r) \in Seq(Record) /\ Len(Append(s, r)) = Len(s) + 1 /\ Len(s) \in Nat
      /\ Append(s, r)[Len(s) + 1] = r /\ \A i \in 1..Len(s) : Append(s, r)[i] = s[i]
  BY AppendProperties
<1>2. <<r>> \in Seq(Record) /\ Len(<<r>>) = 1 /\ <<r>>[1] = r
  OBVIOUS
<1>3. s \o <<r>> = Append(s, r)
  BY AppendIsConcat
<1>4. StatusesOf(<<r>>, n) = Taken(<<>>, r, n)
  <2> DEFINE one == <<r>>
  <2>1. one \in Seq(Record) /\ Len(one) = 1 /\ one[1] = r
    BY <1>2
  <2> HIDE DEF one
  <2>2. PICK F \in [0..Len(one) -> Seq(Stati)] :
          /\ F[0] = <<>> /\ \A i \in 1..Len(one) : F[i] = Taken(F[i - 1], one[i], n)
          /\ StatusesOf(one, n) = F[Len(one)]
    BY <2>1, StatusesAre
  <2>3. F[1] = Taken(F[0], r, n)
    <3>1. 1 \in 1..Len(one) /\ 1 - 1 = 0
      BY <2>1
    <3>2. QED
      BY <2>1, <2>2, <3>1
  <2>4. QED
    BY <2>1, <2>2, <2>3 DEF one
<1>5. StatusesOf(s \o <<r>>, n) = StatusesOf(s, n) \o StatusesOf(<<r>>, n) /\ StatusesOf(s, n) \in Seq(Stati)
  BY <1>2, StatusesConcat
<1>6. StatusesOf(s, n) \o Taken(<<>>, r, n) = Taken(StatusesOf(s, n), r, n)
  <2> DEFINE st == StatusesOf(s, n)
  <2>1. r.status \in Stati /\ <<>> \in Seq(Stati) /\ st \in Seq(Stati)
    BY <1>5 DEF Record
  <2> HIDE DEF st
  <2>2. st \o <<>> = st /\ st \o Append(<<>>, r.status) = Append(st \o <<>>, r.status)
    BY <2>1, EmptyEnds, ConcatAppend
  <2>3. QED
    BY <2>2 DEF Taken, st
<1>7. QED
  BY <1>3, <1>4, <1>5, <1>6

LEMMA StatusesOfOthers ==
  ASSUME NEW s \in Seq(Record), NEW n, \A i \in 1..Len(s) : s[i].name # n
  PROVE  StatusesOf(s, n) = <<>>
<1>1. PICK F \in [0..Len(s) -> Seq(Stati)] :
        /\ F[0] = <<>> /\ \A i \in 1..Len(s) : F[i] = Taken(F[i - 1], s[i], n)
        /\ StatusesOf(s, n) = F[Len(s)]
  BY StatusesAre
<1> DEFINE None == {i \in 0..Len(s) : F[i] = <<>>}
<1>2. Len(s) \in Nat /\ 0 \in None
  BY <1>1
<1>3. ASSUME NEW i \in 1..Len(s), i - 1 \in None PROVE i \in None
  <2>1. i \in 0..Len(s) /\ F[i - 1] = <<>>
    BY <1>2, <1>3
  <2>2. F[i] = Taken(F[i - 1], s[i], n) /\ s[i].name # n
    BY <1>1
  <2>3. QED
    BY <2>1, <2>2, Zenon DEF Taken
<1> HIDE DEF None
<1>4. 0..Len(s) \subseteq None
  BY <1>2, <1>3, Stepwise
<1>5. QED
  BY <1>1, <1>2, <1>4 DEF None

\* the operations
LEMMA CdashPrints ==
  ASSUME NEW b, NEW f, NEW s, NEW x PROVE Cdash!print(State(b, f), s, x) = State(Append(b, Rec(s, x)), f)
BY Buffered DEF Cdash!print, Rec

LEMMA CdashShows ==
  ASSUME kind = "cdash", NEW b, NEW f, NEW path, NEW n, NEW m
  PROVE  /\ Shown(State(b, f), path, "pass", n, m) = {State(Append(b, Rec("passed", LastOf(path))), f)}
         /\ Shown(State(b, f), path, "fail", n, m) = {State(Append(b, Rec("failed", LastOf(path))), f)}
BY CdashPrints DEF Shown, Cdash!show_pass, Cdash!show_fail

LEMMA CdashErrs ==
  ASSUME kind = "cdash", NEW b, NEW f, NEW path, NEW n
  PROVE  IncompleteShown(State(b, f), path, n) = State(Append(b, Rec("incomplete", LastOf(path))), f)
BY CdashPrints DEF IncompleteShown, Cdash!show_incomplete

LEMMA CdashFlushes ==
  ASSUME kind = "cdash", NEW b, NEW f
  PROVE  Flushed(State(b, f)) = State(<<>>, f \o b) /\ Remains(State(b, f)) = {f}
BY DEF Flushed, Remains, Cdash!Flush, Cdash!Killed, State

LEMMA CdashSuites ==
  ASSUME kind = "cdash", NEW st, NEW path PROVE SuiteStarted(st, path) = st
BY DEF SuiteStarted

LEMMA CdashEnds ==
  ASSUME kind = "cdash", NEW st, NEW path, NEW sums, NEW totals PROVE SuiteFinished(st, path, sums, totals) = st
BY DEF SuiteFinished

LEMMA CdashStarts == ASSUME kind = "cdash", NEW st, NEW t PROVE TestStarted(st, t) = st
BY DEF TestStarted

LEMMA CdashFinishes ==
  ASSUME kind = "cdash", NEW st, NEW path, NEW how, NEW sums
  PROVE  TestFinished(st, path, how, sums)
           = IF how \in {"skipped", "completed"} THEN st ELSE IncompleteShown(st, path, 0)
BY DEF TestFinished, SkipShown

IsBuffer(own) == own = [buffer |-> own.buffer] /\ own.buffer \in Seq(Record)
CdashMemory == IsBuffer(parent) /\ IsBuffer(child) /\ file \in Seq(Record) /\ shown \in [Tests -> Seq(Note)]

LEMMA CdashParts ==
  ASSUME CdashMemory
  PROVE  /\ Parent = State(parent.buffer, file) /\ Child = State(child.buffer, file)
         /\ parent = [buffer |-> parent.buffer] /\ child = [buffer |-> child.buffer]
         /\ parent.buffer \in Seq(Record) /\ child.buffer \in Seq(Record) /\ file \in Seq(Record)
<1>1. /\ parent = [buffer |-> parent.buffer] /\ child = [buffer |-> child.buffer]
      /\ parent.buffer \in Seq(Record) /\ child.buffer \in Seq(Record) /\ file \in Seq(Record)
  BY DEF CdashMemory, IsBuffer
<1>2. Parent = State(parent.buffer, file) /\ Child = State(child.buffer, file)
  BY <1>1 DEF Parent, Child, State
<1>3. QED
  BY <1>1, <1>2

Holds(own, b) == own = [buffer |-> b]

LEMMA CdashStateIs ==
  ASSUME NEW b, NEW f
  PROVE  /\ InParent(State(b, f)) <=> Holds(parent', b) /\ file' = f
         /\ InChild(State(b, f)) <=> Holds(child', b) /\ file' = f
  BY DEF InParent, InChild, State, Holds

ResultRec(r, n) == Rec(Status(r), n)

LEMMA CdashMain ==
  ASSUME kind = "cdash", CdashMemory
  PROVE  /\ StartsSuite \/ SkipsTest => UNCHANGED <<child, file>> /\ Holds(parent', parent.buffer)
         /\ Forks => /\ Holds(parent', <<>>) /\ Holds(child', <<>>) /\ file' = file \o parent.buffer
         /\ Finishes => /\ UNCHANGED <<child, file>>
                        /\ Holds(parent', IF Reported \in {"skipped", "completed"} THEN parent.buffer
                                          ELSE Append(parent.buffer, Rec("incomplete", LastOf(trail))))
         /\ FinishesSuite => /\ UNCHANGED child
                             /\ \/ Holds(parent', parent.buffer) /\ UNCHANGED file
                                \/ Holds(parent', <<>>) /\ file' = file \o parent.buffer
<1> DEFINE b == parent.buffer
<1>1. Parent = State(b, file)
  BY CdashParts
<1> HIDE DEF b
<1>2. StartsSuite => InParent(State(b, file)) /\ UNCHANGED child
  BY <1>1, CdashSuites DEF StartsSuite
<1>3. SkipsTest => InParent(State(b, file)) /\ UNCHANGED child
  BY <1>1, CdashStarts DEF SkipsTest
<1>4. Forks => InParent(State(<<>>, file \o b)) /\ child' = parent'
  <2>1. TestStarted(Parent, Entry) = State(b, file)
    BY <1>1, CdashStarts
  <2>2. Flushed(State(b, file)) = State(<<>>, file \o b)
    BY CdashFlushes
  <2>3. QED
    BY <2>1, <2>2 DEF Forks
<1>5. ASSUME Finishes
      PROVE  /\ UNCHANGED child
             /\ InParent(IF Reported \in {"skipped", "completed"} THEN State(b, file)
                         ELSE State(Append(b, Rec("incomplete", LastOf(trail))), file))
  <2>1. InParent(TestFinished(Parent, trail, Reported, counters')) /\ UNCHANGED child
    BY <1>5 DEF Finishes
  <2>2. TestFinished(State(b, file), trail, Reported, counters')
          = IF Reported \in {"skipped", "completed"} THEN State(b, file) ELSE IncompleteShown(State(b, file), trail, 0)
    BY CdashFinishes
  <2>3. IncompleteShown(State(b, file), trail, 0) = State(Append(b, Rec("incomplete", LastOf(trail))), file)
    BY CdashErrs
  <2>4. QED
    BY <1>1, <2>1, <2>2, <2>3
<1>6. ASSUME FinishesSuite
      PROVE  UNCHANGED child /\ (InParent(State(b, file)) \/ InParent(State(<<>>, file \o b)))
  <2> DEFINE st == SuiteFinished(Parent, trail, counters', total')
  <2>1. UNCHANGED child /\ (InParent(st) \/ InParent(Flushed(st)))
    BY <1>6 DEF FinishesSuite
  <2>2. st = State(b, file)
    BY <1>1, CdashEnds
  <2>3. Flushed(State(b, file)) = State(<<>>, file \o b)
    BY CdashFlushes
  <2>4. QED
    BY <2>1, <2>2, <2>3
<1>7. QED
  BY <1>2, <1>3, <1>4, <1>5, <1>6, CdashStateIs DEF b

LEMMA CdashFixture ==
  ASSUME kind = "cdash", CdashMemory, NEW r \in {"pass", "fail"}, NEW m, FixtureReports(r, m)
  PROVE  /\ FixtureAsserts(r) /\ UNCHANGED <<child, file, shown>>
         /\ Holds(parent', Append(parent.buffer, ResultRec(r, LastOf(trail))))
<1> DEFINE b == parent.buffer
<1>1. Parent = State(b, file)
  BY CdashParts
<1>2. UNCHANGED <<child, shown>>
  BY PlainFixture DEF Plain
<1>3. PICK st \in Shown(Parent, trail, r, 0, m) : FixtureAsserts(r) /\ InParent(st) /\ UNCHANGED <<child, shown>>
  BY <1>2, PlainFixture DEF Plain
<1> HIDE DEF b
<1>4. Shown(State(b, file), trail, r, 0, m) = {State(Append(b, ResultRec(r, LastOf(trail))), file)}
  BY CdashShows DEF ResultRec, Status
<1>5. InParent(State(Append(b, ResultRec(r, LastOf(trail))), file))
  BY <1>1, <1>3, <1>4
<1>6. QED
  BY <1>3, <1>5, CdashStateIs DEF b

LEMMA CdashCode ==
  ASSUME kind = "cdash", CdashMemory, NEW t \in Tests
  PROVE  /\ TestGoesOn(t) => UNCHANGED <<child, file, shown>>
         /\ TestThrows(t) => /\ Holds(child', Append(child.buffer, ResultRec("exception", LastOf(trail))))
                             /\ UNCHANGED file /\ Records(t, "exception", <<>>)
         /\ TestExits(t) => Holds(child', <<>>) /\ file' = file \o child.buffer /\ UNCHANGED shown
<1> DEFINE b == child.buffer
<1>1. Child = State(b, file)
  BY CdashParts
<1> HIDE DEF b
<1>2. TestGoesOn(t) => UNCHANGED <<child, file, shown>>
  BY DEF TestGoesOn, Silent, output
<1>3. IncompleteShown(State(b, file), trail, Len(shown[t]) + 1)
        = State(Append(b, ResultRec("exception", LastOf(trail))), file)
  <2> DEFINE k == Len(shown[t]) + 1
  <2> HIDE DEF k
  <2>1. IncompleteShown(State(b, file), trail, k) = State(Append(b, Rec("incomplete", LastOf(trail))), file)
    BY CdashErrs
  <2>2. QED
    BY <2>1 DEF ResultRec, Status, k
<1>4. TestThrows(t) => /\ InChild(State(Append(b, ResultRec("exception", LastOf(trail))), file))
                       /\ Records(t, "exception", <<>>)
  BY <1>1, <1>3 DEF TestThrows
<1>5. TestExits(t) => InChild(State(<<>>, file \o b)) /\ UNCHANGED shown
  BY <1>1, CdashFlushes DEF TestExits
<1>6. QED
  BY <1>2, <1>4, <1>5, CdashStateIs DEF b

LEMMA CdashReports ==
  ASSUME kind = "cdash", CdashMemory, NEW t \in Tests, NEW r \in {"pass", "fail"}, NEW m, TestReports(t, r, m)
  PROVE  /\ Holds(child', Append(child.buffer, ResultRec(r, LastOf(trail))))
         /\ UNCHANGED file /\ Records(t, r, m)
<1> DEFINE b == child.buffer
           n == Len(shown[t]) + 1
<1>1. Child = State(b, file)
  BY CdashParts
<1>2. \A own : ~Hung(own)
  BY DEF Hung
<1>3. PICK st \in Shown(Child, trail, r, n, m) : InChild(st) /\ Records(t, r, m)
  BY <1>2 DEF TestReports
<1> HIDE DEF b, n
<1>4. Shown(State(b, file), trail, r, n, m) = {State(Append(b, ResultRec(r, LastOf(trail))), file)}
  BY CdashShows DEF ResultRec, Status
<1>5. InChild(State(Append(b, ResultRec(r, LastOf(trail))), file))
  BY <1>1, <1>3, <1>4
<1>6. QED
  BY <1>3, <1>5, CdashStateIs DEF b

\* a killed process leaves nothing of what it printed
LEMMA CdashKills ==
  ASSUME kind = "cdash", CdashMemory, NEW t \in Tests, NEW how, NEW m,
         TestKilled(t, how) \/ TestKilledReporting(t, how, m)
  PROVE  UNCHANGED <<child, file>> /\ (UNCHANGED shown \/ Records(t, "fail", m))
<1> DEFINE b == child.buffer
           n == Len(shown[t]) + 1
<1>1. Child = State(b, file)
  BY CdashParts
<1> HIDE DEF b, n
<1>2. TestKilled(t, how) => UNCHANGED <<child, file, shown>>
  BY <1>1, CdashFlushes DEF TestKilled
<1>3. ASSUME TestKilledReporting(t, how, m) PROVE UNCHANGED <<child, file>> /\ Records(t, "fail", m)
  <2>1. UNCHANGED child /\ Records(t, "fail", m)
    BY <1>3 DEF TestKilledReporting
  <2>2. PICK st \in Shown(Child, trail, "fail", n, m) : file' \in Remains(st)
    BY <1>3 DEF TestKilledReporting, n
  <2>3. st = State(Append(b, Rec("failed", LastOf(trail))), file)
    BY <1>1, <2>2, CdashShows
  <2>4. Remains(st) = {file}
    BY <2>3, CdashFlushes
  <2>5. QED
    BY <2>1, <2>2, <2>4
<1>4. QED
  BY <1>2, <1>3

-----------------------------------------------------------------------------
(* Test.xml has the record of each assertion                               *)

Sheet      == file \o parent.buffer
ReportedOnce == \A i, j \in 1..Len(reports) : reports[i].test = reports[j].test => i = j
NotDone(t) == \E j \in 1..Len(reports) : reports[j].test = t /\ reports[j].how \in {"incomplete", "terminated"}
Missing(t) == IF NotDone(t) THEN <<"incomplete">> ELSE <<>>

\* until it ends, what a test showed is in the file and in the buffer of its process
CdashTest(t) ==
  /\ ~Begun(t) => code[t] = "none" /\ Statuses(t) = <<>> /\ StatusesOf(Sheet, t) = <<>>
  /\ Alive(t) => StatusesOf(file \o child.buffer, t) = Statuses(t)
  /\ code[t] = "exited" => StatusesOf(Sheet, t) = Statuses(t) \o Missing(t)

CdashInv ==
  /\ CdashMemory
  /\ AtFork => parent.buffer = <<>> /\ OnlyOn(child.buffer, Entry)
  /\ \A t \in Tests : CdashTest(t)
  /\ ReportedOnce

LEMMA RecordAdded ==
  ASSUME NEW f \in Seq(Record), NEW b \in Seq(Record), NEW r \in Record, NEW n
  PROVE  /\ StatusesOf(f \o Append(b, r), n) = Taken(StatusesOf(f \o b, n), r, n)
         /\ Append(b, r) \in Seq(Record)
<1> DEFINE g == f \o b
<1>1. g \in Seq(Record) /\ Append(b, r) \in Seq(Record)
  BY ConcatProperties, AppendProperties
<1>2. f \o Append(b, r) = Append(g, r)
  BY ConcatAppend
<1> HIDE DEF g
<1>3. StatusesOf(Append(g, r), n) = Taken(StatusesOf(g, n), r, n)
  BY <1>1, StatusesAppend
<1>4. QED
  BY <1>1, <1>2, <1>3 DEF g

LEMMA RecType ==
  ASSUME NEW s \in Stati, NEW n \in Named
  PROVE  Rec(s, n) \in Record /\ Rec(s, n).status = s /\ Rec(s, n).name = n
BY DEF Rec, Record

LEMMA StatusType == ASSUME NEW r PROVE Status(r) \in Stati
BY DEF Status, Stati

LEMMA StatusesType ==
  ASSUME CdashMemory, NEW t \in Tests
  PROVE  Statuses(t) \in Seq(Stati) /\ Len(Statuses(t)) = Len(shown[t]) /\ shown[t] \in Seq(Note)
<1>1. shown[t] \in Seq(Note)
  BY DEF CdashMemory
<1>2. DOMAIN shown[t] = 1..Len(shown[t]) /\ Len(shown[t]) \in Nat
  BY <1>1
<1>3. Statuses(t) \in [1..Len(shown[t]) -> Stati]
  BY <1>2, StatusType DEF Statuses
<1>4. QED
  BY <1>1, <1>2, <1>3

LEMMA StatusNoted ==
  ASSUME CdashMemory, NEW t \in Tests, NEW r \in Results, NEW m \in Messages \cup {<<>>}, Records(t, r, m)
  PROVE  /\ shown' \in [Tests -> Seq(Note)]
         /\ Statuses(t)' = Append(Statuses(t), Status(r))
         /\ \A u \in Tests : u # t => Statuses(u)' = Statuses(u)
<1> DEFINE new == [result |-> r, message |-> m]
           s   == shown[t]
<1>1. new \in Note /\ new.result = r
  BY DEF Note
<1>2. shown \in [Tests -> Seq(Note)] /\ shown' = [shown EXCEPT ![t] = Append(@, new)]
  BY DEF CdashMemory, Records
<1>3. s \in Seq(Note) /\ shown'[t] = Append(s, new) /\ \A u \in Tests : u # t => shown'[u] = shown[u]
  BY <1>2
<1> HIDE DEF new
<1>4. Append(s, new) \in Seq(Note)
  BY <1>1, <1>3, AppendProperties
<1>5. shown' \in [Tests -> Seq(Note)]
  BY <1>2, <1>4
<1>6. /\ Len(Append(s, new)) = Len(s) + 1 /\ Append(s, new)[Len(s) + 1] = new /\ Len(s) \in Nat
      /\ \A i \in 1..Len(s) : Append(s, new)[i] = s[i]
      /\ DOMAIN s = 1..Len(s) /\ DOMAIN Append(s, new) = 1..(Len(s) + 1)
  BY <1>1, <1>3, AppendProperties
<1>7. Statuses(t)' = Append(Statuses(t), Status(r))
  <2> DEFINE a == [i \in 1..(Len(s) + 1) |-> Status(Append(s, new)[i].result)]
             o == Statuses(t)
  <2>1. Statuses(t)' = a
    BY <1>3, <1>6 DEF Statuses
  <2>2. o \in Seq(Stati) /\ Len(o) = Len(s) /\ Status(r) \in Stati
    BY StatusesType, StatusType
  <2>3. \A i \in 1..Len(s) : o[i] = Status(s[i].result)
    BY <1>6 DEF Statuses
  <2>4. /\ Append(o, Status(r)) \in Seq(Stati) /\ Len(Append(o, Status(r))) = Len(s) + 1
        /\ Append(o, Status(r))[Len(s) + 1] = Status(r)
        /\ \A i \in 1..Len(s) : Append(o, Status(r))[i] = o[i]
    BY <2>2, AppendProperties
  <2>5. a \in Seq(Stati) /\ Len(a) = Len(s) + 1
    <3>1. a \in [1..(Len(s) + 1) -> Stati]
      BY StatusType
    <3>2. QED
      BY <1>6, <3>1
  <2>6. ASSUME NEW i \in 1..(Len(s) + 1) PROVE a[i] = Append(o, Status(r))[i]
    <3>1. CASE i = Len(s) + 1
      BY <1>1, <1>6, <2>4, <3>1
    <3>2. CASE i # Len(s) + 1
      <4>1. i \in 1..Len(s)
        BY <1>6, <3>2
      <4>2. QED
        BY <1>6, <2>3, <2>4, <4>1
    <3>3. QED
      BY <3>1, <3>2
  <2> HIDE DEF a, o
  <2>7. a = Append(o, Status(r))
    BY <2>4, <2>5, <2>6, SeqEqual
  <2>8. QED
    BY <2>1, <2>7 DEF o
<1>8. \A u \in Tests : u # t => Statuses(u)' = Statuses(u)
  BY <1>3 DEF Statuses
<1>9. QED
  BY <1>5, <1>7, <1>8

\* steps of the main process that add nothing to the sheet
LEMMA SheetStays ==
  ASSUME CdashInv, CdashMemory', Sheet' = Sheet, UNCHANGED <<child, shown, code, reports>>,
         UNCHANGED file \/ \A t \in Tests : ~Alive(t),
         \A t \in Tests : Begun(t) => Begun(t)',
         AtFork' => AtFork /\ UNCHANGED <<parent, stack>>
  PROVE  CdashInv'
<1>1. ASSUME NEW t \in Tests PROVE CdashTest(t)'
  <2>1. CdashTest(t) /\ Statuses(t)' = Statuses(t) /\ Missing(t)' = Missing(t)
    BY DEF CdashInv, Statuses, Missing, NotDone
  <2>2. (~Begun(t))' => ~Begun(t)
    OBVIOUS
  <2>3. Alive(t)' => Alive(t) /\ UNCHANGED file
    BY DEF Alive
  <2>4. QED
    BY <2>1, <2>2, <2>3 DEF CdashTest
<1>2. AtFork' => Entry' = Entry /\ parent'.buffer = <<>> /\ OnlyOn(child'.buffer, Entry')
  BY DEF CdashInv, Entry, Top
<1>3. ReportedOnce'
  BY DEF CdashInv, ReportedOnce
<1>4. QED
  BY <1>1, <1>2, <1>3 DEF CdashInv

\* and those that add a record
LEMMA SheetGrows ==
  ASSUME CdashMemory, NEW r \in Record, Holds(parent', Append(parent.buffer, r)), UNCHANGED <<child, file, shown>>
  PROVE  CdashMemory' /\ \A n : StatusesOf(Sheet, n)' = Taken(StatusesOf(Sheet, n), r, n)
<1> DEFINE b == parent.buffer
<1>1. b \in Seq(Record) /\ file \in Seq(Record)
  BY CdashParts
<1> HIDE DEF b
<1>2. Append(b, r) \in Seq(Record) /\ \A n : StatusesOf(file \o Append(b, r), n) = Taken(StatusesOf(file \o b, n), r, n)
  BY <1>1, RecordAdded
<1>3. parent' = [buffer |-> Append(b, r)] /\ parent'.buffer = Append(b, r)
  BY DEF Holds, b
<1>4. Sheet = file \o b /\ Sheet' = file \o Append(b, r)
  BY <1>3 DEF Sheet, b
<1>5. CdashMemory'
  BY <1>2, <1>3 DEF CdashMemory, IsBuffer
<1>6. QED
  BY <1>2, <1>4, <1>5

LEMMA StartsOnce ==
  ASSUME NEW subs, NEW own, Listed(subs, own), OnceInv(subs, own), CdashInv, Starts
  PROVE  /\ Entry \in Tests /\ ~Begun(Entry) /\ \A t \in Tests : ~Alive(t)
         /\ UNCHANGED reports
         /\ Statuses(Entry) = <<>> /\ StatusesOf(Sheet, Entry) = <<>>
<1>1. Entry \in Tests /\ ~Begun(Entry) /\ \A t \in Tests : ~Alive(t)
  BY StartsFresh
<1>2. UNCHANGED reports
  BY DEF Starts, SkipsTest, Forks, SkipTest, RunTest, book
<1>3. QED
  BY <1>1, <1>2 DEF CdashInv, CdashTest

LEMMA CdashSuiteSteps ==
  ASSUME kind = "cdash", NEW subs, NEW own, Listed(subs, own), OnceInv(subs, own), CdashInv, [ReportNext]_allvars,
         StartsSuite \/ SkipsTest \/ FinishesSuite
  PROVE  CdashInv'
<1>1. CdashMemory /\ Plain
  BY DEF CdashInv, Plain
<1>2. /\ UNCHANGED <<child, shown, code, reports>> /\ ~AtFork'
  BY <1>1, PlainSuite DEF SkipsTest, FinishesSuite, StartSubSuite, SkipTest, FinishSuite, procs, book, AtFork, StartTest
<1>3. \A t \in Tests : Begun(t) => Begun(t)'
  BY <1>1, BegunSteps DEF OnceInv
<1>4. \A t \in Tests : ~Alive(t)
  <2>1. ~AtFork
    BY DEF StartsSuite, SkipsTest, FinishesSuite, StartSubSuite, SkipTest, FinishSuite, AtTest, AtFork
  <2>2. QED
    BY <2>1, OnlyTest DEF OnceInv
<1>5. CdashMemory' /\ Sheet' = Sheet
  <2> DEFINE b == parent.buffer
  <2>1. parent = [buffer |-> b] /\ b \in Seq(Record) /\ file \in Seq(Record)
    BY <1>1, CdashParts
  <2>2. \/ Holds(parent', b) /\ UNCHANGED file
        \/ Holds(parent', <<>>) /\ file' = file \o b
    BY <1>1, CdashMain
  <2> HIDE DEF b
  <2>3. file \o b \in Seq(Record) /\ (file \o b) \o <<>> = file \o b /\ <<>> \in Seq(Record)
    BY <2>1, ConcatProperties, EmptyEnds
  <2>4. ASSUME NEW x \in Seq(Record), Holds(parent', x) PROVE parent'.buffer = x /\ IsBuffer(parent')
    BY <2>4 DEF Holds, IsBuffer
  <2>5. CASE Holds(parent', b) /\ UNCHANGED file
    BY <1>1, <1>2, <2>1, <2>4, <2>5 DEF CdashMemory, Sheet, b
  <2>6. CASE Holds(parent', <<>>) /\ file' = file \o b
    BY <1>1, <1>2, <2>3, <2>4, <2>6 DEF CdashMemory, Sheet, b
  <2>7. QED
    BY <2>2, <2>5, <2>6
<1>6. QED
  BY <1>2, <1>3, <1>4, <1>5, SheetStays

LEMMA CdashSilently ==
  ASSUME kind = "cdash", NEW subs, NEW own, OnceInv(subs, own), CdashInv, [ReportNext]_allvars,
         \/ MainGoesOn /\ Silent /\ ~(StartsSuite \/ SkipsTest \/ Forks \/ Finishes \/ FinishesSuite)
         \/ UNCHANGED allvars
  PROVE  CdashInv'
<1>1. \/ EnterSubSuite \/ TeardownReturns \/ PassEntry \/ StartOwnTests
      \/ IgnoreCtrlC \/ ReadResult \/ EndSuite
      \/ \E z \in Tests \X Dead : WaitForChild(z)
      \/ UNCHANGED allvars
  BY DEF MainGoesOn
<1>2. UNCHANGED <<parent, child, file, shown>>
  BY DEF Silent, output, allvars
<1>3. UNCHANGED <<code, reports>> /\ (AtFork' => AtFork /\ UNCHANGED stack)
  BY <1>1 DEF EnterSubSuite, TeardownReturns, PassEntry, StartOwnTests, IgnoreCtrlC, ReadResult, EndSuite,
     WaitForChild, Goto, main, AtFork, InLoop, procs, book, allvars, vars
<1>4. \A t \in Tests : Begun(t) => Begun(t)'
  BY BegunSteps DEF OnceInv, Plain
<1>5. CdashMemory' /\ Sheet' = Sheet
  BY <1>2 DEF CdashInv, CdashMemory, Sheet
<1>6. QED
  BY <1>2, <1>3, <1>4, <1>5, SheetStays

\* a test begins with the sheet written and nothing of its own on it
LEMMA CdashForks ==
  ASSUME kind = "cdash", NEW subs, NEW own, Listed(subs, own), OnceInv(subs, own), CdashInv, [ReportNext]_allvars, Forks
  PROVE  CdashInv'
<1> DEFINE b == parent.buffer
<1>1. CdashMemory /\ b \in Seq(Record) /\ file \in Seq(Record) /\ Sheet = file \o b
  BY CdashParts DEF CdashInv, Sheet
<1>2. Holds(parent', <<>>) /\ Holds(child', <<>>) /\ file' = file \o b /\ UNCHANGED shown
  BY <1>1, CdashMain DEF Forks
<1>3. /\ Entry \in Tests /\ ~Begun(Entry) /\ \A t \in Tests : ~Alive(t)
      /\ UNCHANGED reports /\ Statuses(Entry) = <<>> /\ StatusesOf(Sheet, Entry) = <<>>
  BY StartsOnce DEF Starts
<1>4. Entry' = Entry /\ CodeIs(Entry, {"setup"})
  BY DEF Forks, RunTest, StartTest, CodeIs, Entry, Top
<1>5. code'[Entry] = "setup" /\ \A u \in Tests : u # Entry => code'[u] = code[u]
  BY <1>3, <1>4, CodeElsewhere DEF OnceInv
<1>6. \A t \in Tests : Begun(t)' <=> Begun(t) \/ t = Entry
  BY BegunSteps DEF OnceInv, Starts, Plain
<1> HIDE DEF b
<1>7. file \o b \in Seq(Record) /\ (file \o b) \o <<>> = file \o b /\ <<>> \in Seq(Record)
  BY <1>1, ConcatProperties, EmptyEnds
<1>8. /\ parent'.buffer = <<>> /\ child'.buffer = <<>> /\ CdashMemory'
  BY <1>1, <1>2, <1>7 DEF Holds, IsBuffer, CdashMemory
<1>9. Sheet' = Sheet /\ file' \o child'.buffer = Sheet
  BY <1>1, <1>2, <1>7, <1>8 DEF Sheet
<1>10. ASSUME NEW t \in Tests PROVE CdashTest(t)'
  <2>1. CdashTest(t) /\ Statuses(t)' = Statuses(t) /\ Missing(t)' = Missing(t)
    BY <1>2, <1>3 DEF CdashInv, Statuses, Missing, NotDone
  <2>2. CASE t = Entry
    BY <1>3, <1>5, <1>6, <1>9, <2>1, <2>2 DEF CdashTest, Alive
  <2>3. CASE t # Entry
    <3>1. ~Alive(t)' /\ code'[t] = code[t] /\ (Begun(t)' <=> Begun(t))
      BY <1>3, <1>5, <1>6, <2>3 DEF Alive
    <3>2. QED
      BY <1>9, <2>1, <3>1 DEF CdashTest
  <2>4. QED
    BY <2>2, <2>3
<1>11. OnlyOn(child'.buffer, Entry')
  BY <1>8 DEF OnlyOn
<1>12. ReportedOnce'
  BY <1>3 DEF CdashInv, ReportedOnce
<1>13. QED
  BY <1>8, <1>10, <1>11, <1>12 DEF CdashInv

LEMMA UnderWay ==
  ASSUME NEW subs, NEW own, Listed(subs, own), OnceInv(subs, own), InTest
  PROVE  Entry \in Tests /\ ~IsReported(Entry) /\ Begun(Entry) /\ Missing(Entry) = <<>>
<1>1. HasEntry /\ Visits(Entry) /\ Entry \in Tests /\ pc \notin {"stopped", "teardown"}
  BY DEF OnceInv, OrderInv, OrderOK, InTest, TypeInv, MainOK
<1>2. ~IsReported(Entry)
  BY <1>1, NotYet DEF Listed, OnceInv
<1>3. QED
  BY <1>1, <1>2 DEF Begun, Missing, NotDone, IsReported

\* a test ends with a record more if it did not complete
LEMMA CdashReported ==
  ASSUME kind = "cdash", NEW subs, NEW own, Listed(subs, own), OnceInv(subs, own), CdashInv, [ReportNext]_allvars,
         Finishes
  PROVE  CdashInv'
<1> DEFINE bad == Reported \in {"incomplete", "terminated"}
           r   == Rec("incomplete", Entry)
<1>1. InTest /\ ~AtFork /\ ~AtFork' /\ pc # "stopped" /\ FinishTest /\ UNCHANGED <<code, shown>>
  BY DEF Finishes, FinishTest, InTest, AtFork, procs
<1>2. Entry \in Tests /\ LastOf(trail) = Entry
  BY <1>1, NameOnTrail DEF OnceInv
<1>3. ~IsReported(Entry) /\ Begun(Entry) /\ Missing(Entry) = <<>>
  BY <1>1, UnderWay
<1>4. r \in Record /\ r.status = "incomplete" /\ r.name = Entry
  BY <1>2, RecType DEF Stati, Named
<1>5. bad <=> Reported \notin {"skipped", "completed"}
  BY DEF Reported
<1>6. CdashMemory /\ UNCHANGED <<child, file>>
      /\ Holds(parent', IF bad THEN Append(parent.buffer, r) ELSE parent.buffer)
  BY <1>2, <1>5, CdashMain DEF CdashInv
<1> HIDE DEF r
<1>7. /\ CdashMemory'
      /\ \A t \in Tests : StatusesOf(Sheet, t)' = IF t = Entry /\ bad THEN Append(StatusesOf(Sheet, t), "incomplete")
                                                   ELSE StatusesOf(Sheet, t)
  <2>1. CASE bad
    <3>1. Holds(parent', Append(parent.buffer, r))
      BY <1>6, <2>1
    <3>2. CdashMemory' /\ \A n : StatusesOf(Sheet, n)' = Taken(StatusesOf(Sheet, n), r, n)
      BY <1>1, <1>4, <1>6, <3>1, SheetGrows
    <3> HIDE DEF bad
    <3>3. QED
      BY <1>4, <2>1, <3>2, Zenon DEF Taken
  <2>2. CASE ~bad
    <3>1. parent' = parent
      BY <1>6, <2>2, CdashParts DEF Holds
    <3>2. Sheet' = Sheet /\ CdashMemory'
      BY <1>1, <1>6, <3>1 DEF CdashMemory, Sheet
    <3> HIDE DEF bad
    <3>3. QED
      BY <2>2, <3>2
  <2>3. QED
    BY <2>1, <2>2
<1>8. LET rep == [test |-> Entry, how |-> Reported]
      IN  /\ Len(reports') = Len(reports) + 1 /\ Len(reports) \in Nat
          /\ reports'[Len(reports) + 1] = rep
          /\ \A j \in 1..Len(reports) : reports'[j] = reports[j]
  BY <1>1, ReportAdded DEF OnceInv, RunInv, PathInv
<1>9. \A t \in Tests : NotDone(t)' <=> NotDone(t) \/ (t = Entry /\ bad)
  BY <1>8 DEF NotDone
<1>10. ReportedOnce'
  BY <1>3, <1>8 DEF CdashInv, ReportedOnce, IsReported
<1>11. \A t \in Tests : ~Alive(t) /\ (Begun(t)' <=> Begun(t))
  <2>1. ~Starts /\ Plain
    BY <1>1 DEF Starts, SkipsTest, Forks, SkipTest, RunTest, AtTest, InTest, Plain
  <2>2. QED
    BY <1>1, <2>1, BegunSteps, OnlyTest DEF OnceInv
<1> HIDE DEF bad
<1>12. ASSUME NEW t \in Tests PROVE CdashTest(t)'
  <2>1. CdashTest(t) /\ Statuses(t)' = Statuses(t) /\ code' = code /\ ~Alive(t)'
    BY <1>1, <1>11 DEF CdashInv, Statuses, Alive
  <2>2. CASE t # Entry
    BY <1>7, <1>9, <1>11, <2>1, <2>2 DEF CdashTest, Missing
  <2>3. CASE t = Entry
    <3>1. Begun(t)'
      BY <1>3, <1>11, <2>3
    <3>2. ASSUME code[t] = "exited" PROVE StatusesOf(Sheet, t)' = Statuses(t) \o Missing(t)'
      <4> DEFINE st == Statuses(t)
      <4>1. st \in Seq(Stati) /\ st \o <<>> = st /\ st \o <<"incomplete">> = Append(st, "incomplete")
        <5>1. st \in Seq(Stati)
          BY <1>6, StatusesType
        <5> HIDE DEF st
        <5>2. "incomplete" \in Stati
          BY DEF Stati
        <5>3. QED
          BY <5>1, <5>2, EmptyEnds, AppendIsConcat
      <4>2. StatusesOf(Sheet, t) = st
        BY <1>3, <2>1, <2>3, <3>2, <4>1 DEF CdashTest
      <4> HIDE DEF st
      <4>3. Missing(t)' = IF bad THEN <<"incomplete">> ELSE <<>>
        BY <1>3, <1>9, <2>3 DEF Missing, NotDone, IsReported
      <4>4. QED
        BY <1>7, <2>3, <4>1, <4>2, <4>3 DEF st
    <3>3. QED
      BY <2>1, <3>1, <3>2 DEF CdashTest
  <2>4. QED
    BY <2>2, <2>3
<1>13. QED
  BY <1>1, <1>7, <1>10, <1>12 DEF CdashInv

LEMMA CdashFixtures ==
  ASSUME kind = "cdash", NEW subs, NEW own, OnceInv(subs, own), CdashInv, [ReportNext]_allvars,
         NEW r \in {"pass", "fail"}, NEW m, FixtureReports(r, m)
  PROVE  CdashInv'
<1> DEFINE n == LastOf(trail)
           rec == ResultRec(r, n)
<1>1. CdashMemory
  BY DEF CdashInv
<1>2. FixtureAsserts(r) /\ UNCHANGED <<child, file, shown>> /\ Holds(parent', Append(parent.buffer, rec))
  BY <1>1, CdashFixture
<1>3. pc \in {"setup", "teardown"} /\ UNCHANGED <<pc, code, reports>>
  BY <1>2 DEF FixtureAsserts, main, procs, book
<1>4. n \in Suites
  BY <1>3, NameOnTrail DEF OnceInv, InTest
<1>5. rec \in Record /\ \A t \in Tests : rec.name # t
  <2>1. n \in Named /\ n \notin Tests
    BY <1>4, TreeAssumption DEF Named
  <2>2. rec \in Record /\ rec.name = n
    BY <2>1, StatusType, RecType DEF ResultRec
  <2>3. QED
    BY <2>1, <2>2
<1> HIDE DEF rec, n
<1>6. CdashMemory' /\ \A t \in Tests : StatusesOf(Sheet, t)' = StatusesOf(Sheet, t)
  BY <1>1, <1>2, <1>5, SheetGrows DEF Taken
<1>7. \A t \in Tests : Begun(t) => Begun(t)'
  BY BegunSteps DEF OnceInv, Plain
<1>8. ~AtFork' /\ ReportedOnce'
  BY <1>3 DEF AtFork, CdashInv, ReportedOnce
<1>9. ASSUME NEW t \in Tests PROVE CdashTest(t)'
  <2>1. CdashTest(t) /\ Statuses(t)' = Statuses(t) /\ Missing(t)' = Missing(t)
    BY <1>2, <1>3 DEF CdashInv, Statuses, Missing, NotDone
  <2>2. QED
    BY <1>2, <1>3, <1>6, <1>7, <2>1 DEF CdashTest, Alive
<1>10. QED
  BY <1>6, <1>8, <1>9 DEF CdashInv

\* a step of the process of the test under way
LEMMA CdashTestStep ==
  ASSUME kind = "cdash", NEW subs, NEW own, Listed(subs, own), OnceInv(subs, own), CdashInv, [ReportNext]_allvars,
         NEW t \in Tests, TestStep(t),
         NEW w \in Seq(Record), file' = file \o w, \A i \in 1..Len(w) : w[i].name = t,
         NEW b \in Seq(Record), Holds(child', b), \A i \in 1..Len(b) : b[i].name = t,
         shown' \in [Tests -> Seq(Note)],
         \A u \in Tests : u # t => Statuses(u)' = Statuses(u) /\ code'[u] = code[u],
         Alive(t)' => StatusesOf((file \o w) \o b, t) = Statuses(t)',
         code'[t] = "exited" => StatusesOf(file \o w, t) = Statuses(t)'
  PROVE  CdashInv'
<1>1. UNCHANGED <<pc, stack, reports, parent>> /\ Alive(t)
  BY CodeKeepsMain DEF Plain
<1>2. AtFork /\ InTest /\ t = Entry
  BY <1>1, OnlyTest DEF OnceInv
<1>3. Begun(t) /\ Missing(t) = <<>>
  BY <1>2, UnderWay
<1>4. /\ CdashMemory /\ parent.buffer = <<>> /\ file \in Seq(Record)
      /\ \A u \in Tests : CdashTest(u) /\ Missing(u)' = Missing(u) /\ (Begun(u)' <=> Begun(u))
  <2>1. ~Starts /\ Plain
    BY <1>2 DEF Starts, SkipsTest, Forks, SkipTest, RunTest, AtTest, InTest, Plain
  <2>2. \A u \in Tests : Begun(u)' <=> Begun(u)
    BY <2>1, BegunSteps DEF OnceInv
  <2>3. QED
    BY <1>1, <1>2, <2>2 DEF CdashInv, CdashMemory, Missing, NotDone
<1>5. /\ file \o w \in Seq(Record) /\ file \o <<>> = file /\ (file \o w) \o <<>> = file \o w
      /\ \A n : StatusesOf(file \o w, n) = StatusesOf(file, n) \o StatusesOf(w, n)
      /\ \A n : StatusesOf(file \o w, n) \in Seq(Stati) /\ StatusesOf(file, n) \in Seq(Stati)
  <2>1. file \o w \in Seq(Record)
    BY <1>4, ConcatProperties
  <2>2. file \o <<>> = file /\ (file \o w) \o <<>> = file \o w
    BY <1>4, <2>1, EmptyEnds
  <2>3. ASSUME NEW n
        PROVE  /\ StatusesOf(file \o w, n) = StatusesOf(file, n) \o StatusesOf(w, n)
               /\ StatusesOf(file, n) \in Seq(Stati)
    BY <1>4, StatusesConcat
  <2>4. \A n : StatusesOf(file \o w, n) \in Seq(Stati)
    BY <1>4, <2>1, StatusesConcat
  <2>5. QED
    BY <2>1, <2>2, <2>3, <2>4
<1>6. Sheet = file /\ Sheet' = file \o w
  BY <1>1, <1>4, <1>5 DEF Sheet
<1>7. child'.buffer = b /\ CdashMemory'
  BY <1>1, <1>4, <1>5 DEF Holds, CdashMemory, IsBuffer
<1>8. CdashTest(t)'
  <2>1. ASSUME code'[t] = "exited" PROVE StatusesOf(Sheet, t)' = Statuses(t)' \o Missing(t)'
    <3> DEFINE st == StatusesOf(file \o w, t)
    <3>1. st \in Seq(Stati) /\ Statuses(t)' = st /\ StatusesOf(Sheet, t)' = st /\ Missing(t)' = <<>>
      BY <1>3, <1>4, <1>5, <1>6, <2>1
    <3> HIDE DEF st
    <3>2. QED
      BY <3>1, EmptyEnds
  <2>2. Alive(t)' => StatusesOf(file \o child.buffer, t)' = Statuses(t)'
    BY <1>7
  <2>3. Begun(t)'
    BY <1>3, <1>4
  <2>4. QED
    BY <2>1, <2>2, <2>3 DEF CdashTest
<1>9. ASSUME NEW u \in Tests, u # t PROVE CdashTest(u)'
  <2>1. StatusesOf(Sheet, u)' = StatusesOf(Sheet, u)
    <3>1. StatusesOf(w, u) = <<>>
      BY <1>9, StatusesOfOthers
    <3>2. StatusesOf(file, u) \o <<>> = StatusesOf(file, u)
      <4> DEFINE st == StatusesOf(file, u)
      <4>1. st \in Seq(Stati)
        BY <1>5
      <4> HIDE DEF st
      <4>2. st \o <<>> = st
        BY <4>1, EmptyEnds
      <4>3. QED
        BY <4>2 DEF st
    <3>3. StatusesOf(file \o w, u) = StatusesOf(file, u)
      BY <1>5, <3>1, <3>2
    <3>4. QED
      BY <1>6, <3>3
  <2>2. ~Alive(u)
    BY <1>2, <1>9, OnlyTest DEF OnceInv
  <2>3. CdashTest(u) /\ Missing(u)' = Missing(u) /\ (Begun(u)' <=> Begun(u))
    BY <1>4
  <2>4. Statuses(u)' = Statuses(u) /\ code'[u] = code[u] /\ ~Alive(u)'
    BY <1>9, <2>2 DEF Alive
  <2>5. QED
    BY <2>1, <2>3, <2>4 DEF CdashTest
<1>10. Entry' = Entry /\ parent'.buffer = <<>> /\ OnlyOn(child'.buffer, Entry')
  BY <1>1, <1>2, <1>4, <1>7 DEF OnlyOn, Entry, Top
<1>11. ReportedOnce'
  BY <1>1 DEF CdashInv, ReportedOnce
<1>12. QED
  BY <1>7, <1>8, <1>9, <1>10, <1>11 DEF CdashInv

\* what its process prints and what is shown
LEMMA CdashShown ==
  ASSUME kind = "cdash", NEW subs, NEW own, Listed(subs, own), OnceInv(subs, own), CdashInv, [ReportNext]_allvars,
         NEW t \in Tests, TestStep(t), NEW r \in Results, NEW m \in Messages \cup {<<>>}, Records(t, r, m),
         Holds(child', Append(child.buffer, ResultRec(r, LastOf(trail)))), UNCHANGED file,
         NEW phases, CodeIs(t, phases), phases \subseteq Living
  PROVE  CdashInv'
<1> DEFINE b == child.buffer
           rec == ResultRec(r, t)
<1>1. Alive(t)
  BY CodeKeepsMain DEF Plain
<1>2. AtFork /\ t = Entry /\ LastOf(trail) = t
  BY <1>1, OnlyTest DEF OnceInv
<1>3. /\ CdashMemory /\ b \in Seq(Record) /\ file \in Seq(Record) /\ OnlyOn(b, t)
      /\ StatusesOf(file \o b, t) = Statuses(t)
  BY <1>1, <1>2, CdashParts DEF CdashInv, CdashTest
<1>4. rec \in Record /\ rec.name = t /\ rec.status = Status(r)
  BY StatusType, RecType DEF ResultRec, Named
<1>5. Holds(child', Append(b, rec))
  BY <1>2
<1>6. /\ shown' \in [Tests -> Seq(Note)] /\ Statuses(t)' = Append(Statuses(t), Status(r))
      /\ \A u \in Tests : u # t => Statuses(u)' = Statuses(u)
  BY <1>3, StatusNoted
<1> HIDE DEF b, rec
<1>7. Append(b, rec) \in Seq(Record) /\ StatusesOf(file \o Append(b, rec), t) = Append(StatusesOf(file \o b, t), rec.status)
  BY <1>3, <1>4, RecordAdded DEF Taken
<1>8. \A i \in 1..Len(Append(b, rec)) : Append(b, rec)[i].name = t
  BY <1>3, <1>4, AppendProperties DEF OnlyOn
<1>9. file \o <<>> = file /\ <<>> \in Seq(Record) /\ \A i \in 1..Len(<<>>) : <<>>[i].name = t
  BY <1>3, EmptyEnds
<1>10. code'[t] # "exited" /\ \A u \in Tests : u # t => code'[u] = code[u]
  <2>1. code'[t] \in Living
    BY CodeElsewhere DEF OnceInv
  <2>2. QED
    BY <2>1, CodeElsewhere DEF OnceInv, Living, Dead
<1>11. StatusesOf((file \o <<>>) \o Append(b, rec), t) = Statuses(t)'
  BY <1>3, <1>4, <1>6, <1>7, <1>9
<1>12. file' = file \o <<>>
  BY <1>9
<1> DEFINE nb == Append(b, rec)
           w  == <<>>
<1>13. /\ w \in Seq(Record) /\ file' = file \o w /\ \A i \in 1..Len(w) : w[i].name = t
       /\ nb \in Seq(Record) /\ Holds(child', nb) /\ \A i \in 1..Len(nb) : nb[i].name = t
       /\ StatusesOf((file \o w) \o nb, t) = Statuses(t)'
  BY <1>5, <1>7, <1>8, <1>9, <1>11, <1>12
<1> HIDE DEF nb, w
<1>14. QED
  BY <1>6, <1>10, <1>13, CdashTestStep

LEMMA CdashGoesOn ==
  ASSUME kind = "cdash", NEW subs, NEW own, Listed(subs, own), OnceInv(subs, own), CdashInv, [ReportNext]_allvars,
         NEW t \in Tests, TestStep(t), TestGoesOn(t) \/ TestExits(t)
  PROVE  CdashInv'
<1> DEFINE b == child.buffer
<1>1. Alive(t) /\ Plain
  BY CodeKeepsMain DEF Plain
<1>2. AtFork /\ t = Entry
  BY <1>1, OnlyTest DEF OnceInv
<1>3. /\ CdashMemory /\ b \in Seq(Record) /\ file \in Seq(Record) /\ Holds(child, b)
      /\ \A i \in 1..Len(b) : b[i].name = t
      /\ StatusesOf(file \o b, t) = Statuses(t) /\ shown \in [Tests -> Seq(Note)]
  BY <1>1, <1>2, CdashParts DEF CdashInv, CdashTest, OnlyOn, Holds, CdashMemory
<1>4. /\ TestGoesOn(t) => UNCHANGED <<child, file, shown>>
      /\ TestExits(t) => Holds(child', <<>>) /\ file' = file \o b /\ UNCHANGED shown
  BY <1>3, CdashCode
<1>5. \A u \in Tests : Statuses(u)' = Statuses(u)
  BY <1>4 DEF Statuses
<1> HIDE DEF b
<1>6. file \o b \in Seq(Record) /\ (file \o b) \o <<>> = file \o b /\ <<>> \in Seq(Record) /\ file \o <<>> = file
      /\ \A i \in 1..Len(<<>>) : <<>>[i].name = t
  BY <1>3, ConcatProperties, EmptyEnds
<1>7. CASE TestGoesOn(t)
  <2> DEFINE w == <<>>
  <2>1. CodeIs(t, Living)
    BY <1>1, <1>7, CodeOfTheTest DEF OnceInv
  <2>2. code'[t] \in Living /\ \A u \in Tests : u # t => code'[u] = code[u]
    BY <2>1, CodeElsewhere DEF OnceInv
  <2>3. code'[t] # "exited"
    BY <2>2 DEF Living, Dead
  <2>4. /\ w \in Seq(Record) /\ file' = file \o w /\ \A i \in 1..Len(w) : w[i].name = t
        /\ Holds(child', b) /\ StatusesOf((file \o w) \o b, t) = Statuses(t)' /\ shown' \in [Tests -> Seq(Note)]
    BY <1>3, <1>4, <1>5, <1>6, <1>7
  <2> HIDE DEF w
  <2>5. QED
    BY <1>3, <1>5, <2>2, <2>3, <2>4, CdashTestStep
<1>8. CASE TestExits(t)
  <2> DEFINE nb == <<>>
  <2>1. CodeIs(t, {"exited"})
    BY <1>1, <1>8, CodeOfTheTest DEF OnceInv
  <2>2. code'[t] = "exited" /\ \A u \in Tests : u # t => code'[u] = code[u]
    BY <2>1, CodeElsewhere DEF OnceInv
  <2>3. ~Alive(t)'
    BY <2>2 DEF Alive, Dead
  <2>4. /\ nb \in Seq(Record) /\ Holds(child', nb) /\ \A i \in 1..Len(nb) : nb[i].name = t
        /\ file' = file \o b /\ StatusesOf(file \o b, t) = Statuses(t)' /\ shown' \in [Tests -> Seq(Note)]
    BY <1>3, <1>4, <1>5, <1>6, <1>8
  <2> HIDE DEF nb
  <2>5. QED
    BY <1>3, <1>5, <2>2, <2>3, <2>4, CdashTestStep
<1>9. QED
  BY <1>7, <1>8

LEMMA CdashKilled ==
  ASSUME kind = "cdash", NEW subs, NEW own, Listed(subs, own), OnceInv(subs, own), CdashInv, [ReportNext]_allvars,
         NEW t \in Tests, TestStep(t), NEW how \in Signals, NEW m \in Messages \cup {<<>>},
         TestKilled(t, how) \/ TestKilledReporting(t, how, m)
  PROVE  CdashInv'
<1> DEFINE b == child.buffer
           w == <<>>
<1>1. Alive(t) /\ Plain
  BY CodeKeepsMain DEF Plain
<1>2. AtFork /\ t = Entry
  BY <1>1, OnlyTest DEF OnceInv
<1>3. /\ CdashMemory /\ b \in Seq(Record) /\ file \in Seq(Record) /\ Holds(child, b)
      /\ \A i \in 1..Len(b) : b[i].name = t
  BY <1>1, <1>2, CdashParts DEF CdashInv, OnlyOn, Holds
<1>4. UNCHANGED <<child, file>> /\ (UNCHANGED shown \/ Records(t, "fail", m))
  BY <1>3, CdashKills
<1>5. /\ shown' \in [Tests -> Seq(Note)]
      /\ \A u \in Tests : u # t => Statuses(u)' = Statuses(u)
  <2>1. CASE UNCHANGED shown
    BY <1>3, <2>1 DEF Statuses, CdashMemory
  <2>2. CASE Records(t, "fail", m)
    <3>1. "fail" \in Results
      BY DEF Results
    <3>2. QED
      BY <1>3, <2>2, <3>1, StatusNoted
  <2>3. QED
    BY <1>4, <2>1, <2>2
<1>6. CodeIs(t, Signals)
  BY <1>1, CodeOfTheTest DEF OnceInv
<1>7. code'[t] \in Signals /\ \A u \in Tests : u # t => code'[u] = code[u]
  BY <1>6, CodeElsewhere DEF OnceInv
<1>8. code'[t] # "exited" /\ ~Alive(t)'
  BY <1>7 DEF Signals, Alive, Dead
<1>9. w \in Seq(Record) /\ file' = file \o w /\ (\A i \in 1..Len(w) : w[i].name = t) /\ Holds(child', b)
  BY <1>3, <1>4, EmptyEnds
<1> HIDE DEF b, w
<1>10. QED
  BY <1>3, <1>5, <1>7, <1>8, <1>9, CdashTestStep

LEMMA CdashTests ==
  ASSUME kind = "cdash", NEW subs, NEW own, Listed(subs, own), OnceInv(subs, own), CdashInv, [ReportNext]_allvars,
         NEW t \in Tests, TestStep(t)
  PROVE  CdashInv'
<1>1. CdashMemory /\ Plain /\ Texts \subseteq Messages \cup {<<>>}
  BY DEF CdashInv, Plain, Texts
<1>2. CASE TestThrows(t)
  <2>1. /\ Holds(child', Append(child.buffer, ResultRec("exception", LastOf(trail))))
        /\ UNCHANGED file /\ Records(t, "exception", <<>>)
    BY <1>1, <1>2, CdashCode
  <2>2. CodeIs(t, Living) /\ Living \subseteq Living
    BY <1>1, <1>2, CodeOfTheTest DEF OnceInv
  <2>3. "exception" \in Results /\ <<>> \in Messages \cup {<<>>}
    BY DEF Results
  <2>4. QED
    BY <2>1, <2>2, <2>3, CdashShown
<1>3. ASSUME NEW r \in {"pass", "fail"}, NEW m \in Messages \cup {<<>>}, TestReports(t, r, m) PROVE CdashInv'
  <2>1. /\ Holds(child', Append(child.buffer, ResultRec(r, LastOf(trail))))
        /\ UNCHANGED file /\ Records(t, r, m)
    BY <1>1, <1>3, CdashReports
  <2>2. CodeIs(t, {code[t]}) /\ {code[t]} \subseteq Living
    <3>1. UNCHANGED code /\ Alive(t) /\ code \in [Tests -> Phases]
      BY <1>1, <1>3, CodeOfTheTest, CodeKeepsMain DEF OnceInv, RunInv, PathInv, TypeInv, ProcsOK
    <3>2. QED
      BY <3>1 DEF CodeIs, Living, Alive
  <2>3. r \in Results
    BY DEF Results
  <2>4. QED
    BY <2>1, <2>2, <2>3, CdashShown
<1>4. <<>> \in Messages \cup {<<>>}
  OBVIOUS
<1>5. QED
  BY <1>1, <1>2, <1>3, <1>4, CdashGoesOn, CdashKilled DEF TestStep

LEMMA CdashStep ==
  ASSUME kind = "cdash", NEW subs, NEW own, Listed(subs, own), OnceInv(subs, own), CdashInv, [ReportNext]_allvars
  PROVE  CdashInv'
<1>1. CASE MainGoesOn
  BY <1>1, CdashSuiteSteps, CdashForks, CdashReported, CdashSilently DEF MainGoesOn
<1>2. CASE UNCHANGED allvars
  BY <1>2, CdashSilently
<1>3. ASSUME NEW r \in {"pass", "fail"}, NEW m, FixtureReports(r, m) PROVE CdashInv'
  BY <1>3, CdashFixtures
<1>4. QED
  BY <1>1, <1>2, <1>3, CdashTests DEF ReportNext

LEMMA CdashInit == ASSUME ReportInit, kind = "cdash" PROVE CdashInv
<1>1. parent = [buffer |-> <<>>] /\ child = parent /\ file = <<>> /\ shown = [t \in Tests |-> <<>>]
  <2>1. /\ parent = SuiteStarted(Cdash!create, <<Root>>).own /\ child = parent
        /\ file = SuiteStarted(Cdash!create, <<Root>>).file
    BY DEF ReportInit, Begin
  <2>2. SuiteStarted(Cdash!create, <<Root>>) = Cdash!create
    BY CdashSuites
  <2>3. QED
    BY <2>1, <2>2 DEF Cdash!create, ReportInit
<1>2. reports = <<>> /\ pc = "loop" /\ code = [t \in Tests |-> "none"]
  BY DEF ReportInit, Init
<1>3. <<>> \in Seq(Record) /\ <<>> \o <<>> = <<>> /\ <<>> \in Seq(Note)
  OBVIOUS
<1>4. CdashMemory
  BY <1>1, <1>3 DEF CdashMemory, IsBuffer
<1>5. ASSUME NEW t \in Tests PROVE CdashTest(t)
  <2> DEFINE none == <<>>
  <2>1. Sheet = none /\ none \in Seq(Record) /\ \A i \in 1..Len(none) : none[i].name # t
    BY <1>1, <1>3 DEF Sheet
  <2> HIDE DEF none
  <2>2. StatusesOf(none, t) = <<>>
    BY <2>1, StatusesOfOthers
  <2>3. Statuses(t) = <<>>
    BY <1>1 DEF Statuses
  <2>4. code[t] = "none" /\ ~Alive(t)
    BY <1>2 DEF Alive
  <2>5. QED
    BY <2>1, <2>2, <2>3, <2>4 DEF CdashTest
<1>6. ~AtFork /\ ReportedOnce
  BY <1>2 DEF AtFork, ReportedOnce
<1>7. QED
  BY <1>4, <1>5, <1>6 DEF CdashInv

LEMMA CdashTells == ASSUME TypeInv, CdashInv PROVE CdashRecords
<1>1. DOMAIN reports = 1..Len(reports)
  BY DEF TypeInv, BookOK
<1>2. \A t, how : t \in Done(how) <=> \E j \in 1..Len(reports) : reports[j].test = t /\ reports[j].how \in how
  BY <1>1 DEF Done
<1>3. ASSUME NEW t \in Tests, t \in Done({"completed", "incomplete"})
      PROVE  NotDone(t) <=> t \in Done({"incomplete"})
  BY <1>2, <1>3 DEF NotDone, CdashInv, ReportedOnce
<1>4. \A t \in Done({"completed", "incomplete"}) : t \in Tests
  <2>1. \A j \in 1..Len(reports) : reports[j].test \in Tests
    <3>1. \A j \in 1..Len(reports) : reports[j] \in Report
      BY ElementOfSeq DEF TypeInv, BookOK
    <3>2. QED
      BY <3>1 DEF Report
  <2>2. QED
    BY <1>2, <2>1
<1>5. QED
  BY <1>3, <1>4 DEF CdashRecords, CdashInv, CdashTest, Missing, Sheet

\* Test.xml for CDash has one record for every assertion of a test whose process
\* was not killed, in order, and then one if the test did not complete: none is
\* lost, doubled or mixed with others by the buffers that fork() copies, in any
\* suite tree where each test is in one place.
THEOREM EveryAssertionHasItsRecord ==
  ASSUME NEW subs, NEW own, Listed(subs, own) PROVE ReportSpec => []CdashRecords
<1> DEFINE Inv == kind = "cdash" => OnceInv(subs, own) /\ CdashInv
<1>1. ReportInit => Inv
  BY OnceInit, CdashInit
<1>2. Inv /\ [ReportNext]_allvars => Inv'
  <2> SUFFICES ASSUME Inv, [ReportNext]_allvars, kind' = "cdash" PROVE (OnceInv(subs, own) /\ CdashInv)'
    OBVIOUS
  <2>1. kind = "cdash" /\ Plain
    BY KindStays DEF Plain
  <2>2. OnceInv(subs, own)'
    BY <2>1, OnceStep
  <2>3. CdashInv'
    BY <2>1, CdashStep
  <2>4. QED
    BY <2>2, <2>3
<1>3. Inv => CdashRecords
  BY CdashTells DEF CdashRecords, OnceInv, RunInv, PathInv
<1>4. QED
  BY <1>1, <1>2, <1>3, PTL DEF ReportSpec
=============================================================================
