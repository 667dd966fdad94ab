----------------------------- MODULE ModesProofs -----------------------------
(***************************************************************************)
(* The theorems about a run, for the less usual ways to run a suite. Each  *)
(* mode is an instance of TestRun, whose lemmas are true of it because its *)
(* constants are as TestRun assumes them to be.                            *)
(***************************************************************************)
EXTENDS TestRunModes, TLAPS

LEMMA StartsInMode ==
  ASSUME Init
  PROVE  /\ mode = "stray"  => Stray!Init
         /\ mode = "nofork" => NoFork!Init
         /\ mode = "single" => One!Init
  BY DEF Init

LEMMA StaysInMode ==
  ASSUME [Next]_vars
  PROVE  /\ mode' = mode
         /\ mode = "stray"  => [Stray!Next]_(Stray!vars)
         /\ mode = "nofork" => [NoFork!Next]_(NoFork!vars)
         /\ mode = "single" => [One!Next]_(One!vars)
<1>1. CASE Next
  BY <1>1 DEF Next
<1>2. CASE UNCHANGED vars
  <2>1. UNCHANGED Stray!vars
    BY <1>2 DEF vars, run, Stray!vars, Stray!main, Stray!book, Stray!procs, Stray!channel
  <2>2. UNCHANGED NoFork!vars
    BY <1>2 DEF vars, run, NoFork!vars, NoFork!main, NoFork!book, NoFork!procs, NoFork!channel
  <2>3. UNCHANGED One!vars
    BY <1>2 DEF vars, run, One!vars, One!main, One!book, One!procs, One!channel
  <2>4. QED
    BY <1>2, <2>1, <2>2, <2>3 DEF vars
<1>3. QED
  BY <1>1, <1>2

-----------------------------------------------------------------------------
(* What holds in every mode                                                *)

ConservedInv ==
  /\ mode = "stray"  => Stray!TypeInv /\ Stray!Conservation
  /\ mode = "nofork" => NoFork!TypeInv /\ NoFork!Conservation
  /\ mode = "single" => One!TypeInv /\ One!Conservation

(* In every mode, and with a child that is no test, each result written to *)
(* the pipe is counted once (reporter.c:202, text_reporter.c:205).         *)
THEOREM ModesConserveResults == Spec => []Conservation
<1>1. ASSUME Init PROVE ConservedInv
  <2>1. mode = "stray" => Stray!TypeInv /\ Stray!Conservation
    BY <1>1, StartsInMode, ModesAssumption, Stray!TypeInit, Stray!ConservationInit
  <2>2. mode = "nofork" => NoFork!TypeInv /\ NoFork!Conservation
    BY <1>1, StartsInMode, ModesAssumption, NoFork!TypeInit, NoFork!ConservationInit
  <2>3. mode = "single" => One!TypeInv /\ One!Conservation
    BY <1>1, StartsInMode, ModesAssumption, One!TypeInit, One!ConservationInit
  <2>4. QED
    BY <2>1, <2>2, <2>3 DEF ConservedInv
<1>2. ASSUME ConservedInv, [Next]_vars PROVE ConservedInv'
  <2>1. ASSUME mode = "stray" PROVE Stray!TypeInv' /\ Stray!Conservation'
    BY <1>2, <2>1, StaysInMode, ModesAssumption, Stray!TypeStep, Stray!ConservationStep
       DEF ConservedInv
  <2>2. ASSUME mode = "nofork" PROVE NoFork!TypeInv' /\ NoFork!Conservation'
    BY <1>2, <2>2, StaysInMode, ModesAssumption, NoFork!TypeStep, NoFork!ConservationStep
       DEF ConservedInv
  <2>3. ASSUME mode = "single" PROVE One!TypeInv' /\ One!Conservation'
    BY <1>2, <2>3, StaysInMode, ModesAssumption, One!TypeStep, One!ConservationStep
       DEF ConservedInv
  <2>4. QED
    BY <1>2, <2>1, <2>2, <2>3, StaysInMode DEF ConservedInv
<1>3. ConservedInv => Conservation
  BY DEF ConservedInv, Conservation
<1>4. QED
  BY <1>1, <1>2, <1>3, PTL DEF Spec

PathsInv ==
  /\ mode = "stray"  => Stray!PathInv
  /\ mode = "nofork" => NoFork!PathInv
  /\ mode = "single" => One!PathInv

(* In every mode the breadcrumb trail is the path of the walk, whichever   *)
(* test the results read belong to (reporter.c:104, 125).                  *)
THEOREM ModesFollowTheWalk == Spec => []TrailIsThePath
<1>1. ASSUME Init PROVE PathsInv
  <2>1. mode = "stray" => Stray!PathInv
    BY <1>1, StartsInMode, ModesAssumption, Stray!PathInit
  <2>2. mode = "nofork" => NoFork!PathInv
    BY <1>1, StartsInMode, ModesAssumption, NoFork!PathInit
  <2>3. mode = "single" => One!PathInv
    BY <1>1, StartsInMode, ModesAssumption, One!PathInit
  <2>4. QED
    BY <2>1, <2>2, <2>3 DEF PathsInv
<1>2. ASSUME PathsInv, [Next]_vars PROVE PathsInv'
  <2>1. ASSUME mode = "stray" PROVE Stray!PathInv'
    BY <1>2, <2>1, StaysInMode, ModesAssumption, Stray!PathStep DEF PathsInv
  <2>2. ASSUME mode = "nofork" PROVE NoFork!PathInv'
    BY <1>2, <2>2, StaysInMode, ModesAssumption, NoFork!PathStep DEF PathsInv
  <2>3. ASSUME mode = "single" PROVE One!PathInv'
    BY <1>2, <2>3, StaysInMode, ModesAssumption, One!PathStep DEF PathsInv
  <2>4. QED
    BY <1>2, <2>1, <2>2, <2>3, StaysInMode DEF PathsInv
<1>3. ASSUME PathsInv PROVE TrailIsThePath
  <2>1. mode = "stray" => Stray!TrailIsThePath
    BY <1>3, ModesAssumption, Stray!PathIsTrail DEF PathsInv
  <2>2. mode = "nofork" => NoFork!TrailIsThePath
    BY <1>3, ModesAssumption, NoFork!PathIsTrail DEF PathsInv
  <2>3. mode = "single" => One!TrailIsThePath
    BY <1>3, ModesAssumption, One!PathIsTrail DEF PathsInv
  <2>4. QED
    BY <2>1, <2>2, <2>3 DEF TrailIsThePath
<1>4. QED
  BY <1>1, <1>2, <1>3, PTL DEF Spec

-----------------------------------------------------------------------------
(* What holds where no exit handler asserts and no other child ends        *)

\* the tests of these two modes leave the pipe and the status alone
LEMMA NoForkIsUndisturbed == NoFork!Undisturbed /\ NoFork!OnlyRunnerExits
  BY DEF NoFork!Undisturbed, NoFork!OnlyRunnerExits

LEMMA OneIsUndisturbed == One!Undisturbed /\ One!OnlyRunnerExits
  BY DEF One!Undisturbed, One!OnlyRunnerExits

SumsInv ==
  /\ mode = "nofork" => NoFork!SumInv
  /\ mode = "single" => One!SumInv

(* Without fork and for a single test the exit status is that of all       *)
(* results sent and all tests that did not complete (runner.c:44, 58).     *)
THEOREM ModesCountEveryResult == Spec => []StatusIsTheSum
<1>1. ASSUME Init PROVE SumsInv
  <2>1. mode = "nofork" => NoFork!SumInv
    BY <1>1, StartsInMode, ModesAssumption, NoFork!SumInit
  <2>2. mode = "single" => One!SumInv
    BY <1>1, StartsInMode, ModesAssumption, One!SumInit
  <2>3. QED
    BY <2>1, <2>2 DEF SumsInv
<1>2. ASSUME SumsInv, [Next]_vars PROVE SumsInv'
  <2>1. ASSUME mode = "nofork" PROVE NoFork!SumInv'
    BY <1>2, <2>1, StaysInMode, ModesAssumption, NoFork!SumStep DEF SumsInv
  <2>2. ASSUME mode = "single" PROVE One!SumInv'
    BY <1>2, <2>2, StaysInMode, ModesAssumption, One!SumStep DEF SumsInv
  <2>3. QED
    BY <1>2, <2>1, <2>2, StaysInMode DEF SumsInv
<1>3. ASSUME SumsInv PROVE StatusIsTheSum
  <2>1. mode = "nofork" => NoFork!StatusIsTheSum
    BY <1>3, ModesAssumption, NoForkIsUndisturbed, NoFork!SumsTell DEF SumsInv
  <2>2. mode = "single" => One!StatusIsTheSum
    BY <1>3, ModesAssumption, OneIsUndisturbed, One!SumsTell DEF SumsInv
  <2>3. QED
    BY <2>1, <2>2 DEF StatusIsTheSum
<1>4. QED
  BY <1>1, <1>2, <1>3, PTL DEF Spec

\* what the two loops visit of these trees, with each test in one place
Walked(subs, own, subs1, own1) ==
  /\ NoFork!IsWalk(subs, own) /\ NoFork!OnceEach
  /\ One!IsWalk(subs1, own1) /\ One!OnceEach

\* no fixture sends while the messages that do not fit are dropped
FixturesHeard == mode = "nofork" => Fixtures = {}

LEMMA WalkedIsEnough ==
  ASSUME NEW subs, NEW own, NEW subs1, NEW own1, Walked(subs, own, subs1, own1)
  PROVE  /\ Fixtures = {} => NoFork!Premises(subs, own)
         /\ One!Premises(subs1, own1)
<1>1. /\ Fixtures = {} => NoFork!NoLostFixture
      /\ One!NoLostFixture
  BY DEF NoFork!NoLostFixture, One!NoLostFixture
<1>2. QED
  BY <1>1, NoForkIsUndisturbed, OneIsUndisturbed
     DEF Walked, NoFork!Premises, One!Premises

OutcomesInv(subs, own, subs1, own1) ==
  /\ FixturesHeard
  /\ mode = "nofork" => NoFork!OutcomeInv(subs, own)
  /\ mode = "single" => One!OutcomeInv(subs1, own1)

(* Without fork and for a single test, a test is reported as not completed *)
(* exactly when it died early or lost a message (reporter.c:118,           *)
(* posix_cgreen_pipe.c:61), for all trees without a test in two places and *)
(* without fixtures in the run without fork, whose messages may be dropped.*)
THEOREM ModesReportTruly ==
  ASSUME NEW subs, NEW own, NEW subs1, NEW own1, Walked(subs, own, subs1, own1)
  PROVE  Spec /\ FixturesHeard => []OutcomeIsTrue
<1> DEFINE Inv == OutcomesInv(subs, own, subs1, own1)
<1>1. /\ Fixtures = {} => NoFork!Premises(subs, own)
      /\ One!Premises(subs1, own1)
  BY WalkedIsEnough
<1>2. ASSUME Init, FixturesHeard PROVE Inv
  <2>1. mode = "nofork" => NoFork!OutcomeInv(subs, own)
    BY <1>1, <1>2, StartsInMode, ModesAssumption, NoFork!OutcomeInit DEF FixturesHeard
  <2>2. mode = "single" => One!OutcomeInv(subs1, own1)
    BY <1>1, <1>2, StartsInMode, ModesAssumption, One!OutcomeInit
  <2>3. QED
    BY <1>2, <2>1, <2>2 DEF OutcomesInv
<1>3. ASSUME Inv, [Next]_vars PROVE Inv'
  <2>1. ASSUME mode = "nofork" PROVE NoFork!OutcomeInv(subs, own)'
    BY <1>1, <1>3, <2>1, StaysInMode, ModesAssumption, NoFork!OutcomeStep
       DEF OutcomesInv, FixturesHeard
  <2>2. ASSUME mode = "single" PROVE One!OutcomeInv(subs1, own1)'
    BY <1>1, <1>3, <2>2, StaysInMode, ModesAssumption, One!OutcomeStep DEF OutcomesInv
  <2>3. QED
    BY <1>3, <2>1, <2>2, StaysInMode DEF OutcomesInv, FixturesHeard
<1>4. ASSUME Inv PROVE OutcomeIsTrue
  <2>1. mode = "nofork" => NoFork!OutcomeIsTrue
    BY <1>4, ModesAssumption, NoFork!OutcomeTells DEF OutcomesInv
  <2>2. mode = "single" => One!OutcomeIsTrue
    BY <1>4, ModesAssumption, One!OutcomeTells DEF OutcomesInv
  <2>3. QED
    BY <2>1, <2>2 DEF OutcomeIsTrue
<1>5. QED
  BY <1>2, <1>3, <1>4, PTL DEF Spec

EarningsInv(subs, own, subs1, own1) ==
  /\ FixturesHeard
  /\ mode = "nofork" => NoFork!EarnedInv(subs, own)
  /\ mode = "single" => One!EarnedInv(subs1, own1)

(* Then an exit status of success says that nothing failed, died or was    *)
(* lost and that all tests asked for were reported, if they are in the     *)
(* tree: a single test's status ignores exceptions, but an exception that  *)
(* is not caught ends the run (runner.c:44, 58).                           *)
THEOREM ModesEarnSuccess ==
  ASSUME NEW subs, NEW own, NEW subs1, NEW own1, Walked(subs, own, subs1, own1),
         NoFork!EveryTest, One!EveryTest
  PROVE  Spec /\ FixturesHeard => []SuccessIsEarned
<1> DEFINE Inv == EarningsInv(subs, own, subs1, own1)
<1>1. /\ Fixtures = {} => NoFork!Premises(subs, own)
      /\ NoFork!NoneIgnored
      /\ One!Premises(subs1, own1) /\ One!NoneIgnored
  BY WalkedIsEnough DEF NoFork!NoneIgnored, One!NoneIgnored
<1>2. ASSUME Init, FixturesHeard PROVE Inv
  <2>1. mode = "nofork" => NoFork!EarnedInv(subs, own)
    BY <1>1, <1>2, StartsInMode, ModesAssumption, NoFork!EarnedInit DEF FixturesHeard
  <2>2. mode = "single" => One!EarnedInv(subs1, own1)
    BY <1>1, <1>2, StartsInMode, ModesAssumption, One!EarnedInit
  <2>3. QED
    BY <1>2, <2>1, <2>2 DEF EarningsInv
<1>3. ASSUME Inv, [Next]_vars PROVE Inv'
  <2>1. ASSUME mode = "nofork" PROVE NoFork!EarnedInv(subs, own)'
    BY <1>1, <1>3, <2>1, StaysInMode, ModesAssumption, NoFork!EarnedStep
       DEF EarningsInv, FixturesHeard
  <2>2. ASSUME mode = "single" PROVE One!EarnedInv(subs1, own1)'
    BY <1>1, <1>3, <2>2, StaysInMode, ModesAssumption, One!EarnedStep DEF EarningsInv
  <2>3. QED
    BY <1>3, <2>1, <2>2, StaysInMode DEF EarningsInv, FixturesHeard
<1>4. ASSUME Inv PROVE SuccessIsEarned
  <2>1. mode = "nofork" => NoFork!SuccessIsEarned
    BY <1>1, <1>4, ModesAssumption, NoFork!EarnedTells DEF EarningsInv, FixturesHeard
  <2>2. mode = "single" => One!SuccessIsEarned
    BY <1>1, <1>4, ModesAssumption, One!EarnedTells DEF EarningsInv
  <2>3. QED
    BY <2>1, <2>2 DEF SuccessIsEarned
<1>5. QED
  BY <1>2, <1>3, <1>4, PTL DEF Spec

-----------------------------------------------------------------------------
(* The contract                                                            *)

\* order is the walk over the tree of the mode
Walks(subs, own) ==
  /\ Stray!IsWalk(subs.stray, own.stray)
  /\ NoFork!IsWalk(subs.nofork, own.nofork)
  /\ One!IsWalk(subs.single, own.single)

OrdersInv(subs, own) ==
  /\ mode \in {"stray", "nofork", "single"}
  /\ mode = "stray"  => Stray!OrderInv(subs.stray, own.stray)
  /\ mode = "nofork" => NoFork!OrderInv(subs.nofork, own.nofork)
  /\ mode = "single" => One!OrderInv(subs.single, own.single)

(* In every mode the run implements its contract, also with a child that   *)
(* is no test: the tests asked for, and no others, are reported once and   *)
(* in the order of the tree, and the status says whether any of it failed. *)
THEOREM ModesKeepTheContract ==
  ASSUME NEW subs, NEW own, Walks(subs, own)
  PROVE  Spec => ImplementsContract
<1> DEFINE Inv == OrdersInv(subs, own)
<1>1. /\ Stray!IsWalk(subs.stray, own.stray) /\ Stray!OnlyRunnerExits
      /\ NoFork!IsWalk(subs.nofork, own.nofork) /\ NoFork!OnlyRunnerExits
      /\ One!IsWalk(subs.single, own.single) /\ One!OnlyRunnerExits
  BY NoForkIsUndisturbed, OneIsUndisturbed DEF Walks, Stray!OnlyRunnerExits, Stray!Forking
<1>2. ASSUME Init PROVE Inv
  <2>1. mode = "stray" => Stray!OrderInv(subs.stray, own.stray)
    BY <1>1, <1>2, StartsInMode, ModesAssumption, Stray!OrderInit
  <2>2. mode = "nofork" => NoFork!OrderInv(subs.nofork, own.nofork)
    BY <1>1, <1>2, StartsInMode, ModesAssumption, NoFork!OrderInit
  <2>3. mode = "single" => One!OrderInv(subs.single, own.single)
    BY <1>1, <1>2, StartsInMode, ModesAssumption, One!OrderInit
  <2>4. mode \in {"stray", "nofork", "single"}
    BY <1>2 DEF Init
  <2>5. QED
    BY <2>1, <2>2, <2>3, <2>4 DEF OrdersInv
<1>3. ASSUME Inv, [Next]_vars PROVE Inv'
  <2>1. ASSUME mode = "stray" PROVE Stray!OrderInv(subs.stray, own.stray)'
    BY <1>1, <1>3, <2>1, StaysInMode, ModesAssumption, Stray!OrderStep DEF OrdersInv
  <2>2. ASSUME mode = "nofork" PROVE NoFork!OrderInv(subs.nofork, own.nofork)'
    BY <1>1, <1>3, <2>2, StaysInMode, ModesAssumption, NoFork!OrderStep DEF OrdersInv
  <2>3. ASSUME mode = "single" PROVE One!OrderInv(subs.single, own.single)'
    BY <1>1, <1>3, <2>3, StaysInMode, ModesAssumption, One!OrderStep DEF OrdersInv
  <2>4. QED
    BY <1>3, <2>1, <2>2, <2>3, StaysInMode DEF OrdersInv
<1>4. ASSUME Init PROVE Contract!Init
  <2>1. CASE mode = "stray"
    <3>1. OrderInMode = FewOrder /\ BadInMode = Stray!Bad
      BY <2>1 DEF OrderInMode, BadInMode
    <3>2. Stray!Contract!Init
      BY <1>4, <2>1, StartsInMode, ModesAssumption, Stray!ContractInit
    <3>3. QED
      BY <3>1, <3>2 DEF Contract!Init, Stray!Contract!Init
  <2>2. CASE mode = "nofork"
    <3>1. OrderInMode = Order /\ BadInMode = NoFork!Bad
      BY <2>2 DEF OrderInMode, BadInMode
    <3>2. NoFork!Contract!Init
      BY <1>4, <2>2, StartsInMode, ModesAssumption, NoFork!ContractInit
    <3>3. QED
      BY <3>1, <3>2 DEF Contract!Init, NoFork!Contract!Init
  <2>3. CASE mode = "single"
    <3>1. OrderInMode = SelectedOrder /\ BadInMode = One!Bad
      BY <2>3 DEF OrderInMode, BadInMode
    <3>2. One!Contract!Init
      BY <1>4, <2>3, StartsInMode, ModesAssumption, One!ContractInit
    <3>3. QED
      BY <3>1, <3>2 DEF Contract!Init, One!Contract!Init
  <2>4. QED
    BY <1>4, <2>1, <2>2, <2>3 DEF Init
<1>5. ASSUME Inv, [Next]_vars PROVE [Contract!Next]_(Contract!vars)
  <2>1. CASE mode = "stray"
    <3>1. /\ mode' = "stray"
          /\ [Stray!Contract!Next]_(Stray!Contract!vars)
      BY <1>1, <1>5, <2>1, StaysInMode, ModesAssumption, Stray!ContractStep DEF OrdersInv
    <3>2. /\ OrderInMode = FewOrder /\ BadInMode = Stray!Bad
          /\ OrderInMode' = FewOrder /\ BadInMode' = Stray!Bad'
      BY <2>1, <3>1 DEF OrderInMode, BadInMode
    <3>3. CASE Stray!Contract!Next
      BY <3>2, <3>3
         DEF Contract!Next, Contract!Record, Contract!Report, Contract!Finish, Contract!Killed,
             Stray!Contract!Next, Stray!Contract!Record, Stray!Contract!Report,
             Stray!Contract!Finish, Stray!Contract!Killed
    <3>4. CASE UNCHANGED Stray!Contract!vars
      BY <3>2, <3>4 DEF Contract!vars, Stray!Contract!vars
    <3>5. QED
      BY <3>1, <3>3, <3>4
  <2>2. CASE mode = "nofork"
    <3>1. /\ mode' = "nofork"
          /\ [NoFork!Contract!Next]_(NoFork!Contract!vars)
      BY <1>1, <1>5, <2>2, StaysInMode, ModesAssumption, NoFork!ContractStep DEF OrdersInv
    <3>2. /\ OrderInMode = Order /\ BadInMode = NoFork!Bad
          /\ OrderInMode' = Order /\ BadInMode' = NoFork!Bad'
      BY <2>2, <3>1 DEF OrderInMode, BadInMode
    <3>3. CASE NoFork!Contract!Next
      BY <3>2, <3>3
         DEF Contract!Next, Contract!Record, Contract!Report, Contract!Finish, Contract!Killed,
             NoFork!Contract!Next, NoFork!Contract!Record, NoFork!Contract!Report,
             NoFork!Contract!Finish, NoFork!Contract!Killed
    <3>4. CASE UNCHANGED NoFork!Contract!vars
      BY <3>2, <3>4 DEF Contract!vars, NoFork!Contract!vars
    <3>5. QED
      BY <3>1, <3>3, <3>4
  <2>3. CASE mode = "single"
    <3>1. /\ mode' = "single"
          /\ [One!Contract!Next]_(One!Contract!vars)
      BY <1>1, <1>5, <2>3, StaysInMode, ModesAssumption, One!ContractStep DEF OrdersInv
    <3>2. /\ OrderInMode = SelectedOrder /\ BadInMode = One!Bad
          /\ OrderInMode' = SelectedOrder /\ BadInMode' = One!Bad'
      BY <2>3, <3>1 DEF OrderInMode, BadInMode
    <3>3. CASE One!Contract!Next
      BY <3>2, <3>3
         DEF Contract!Next, Contract!Record, Contract!Report, Contract!Finish, Contract!Killed,
             One!Contract!Next, One!Contract!Record, One!Contract!Report,
             One!Contract!Finish, One!Contract!Killed
    <3>4. CASE UNCHANGED One!Contract!vars
      BY <3>2, <3>4 DEF Contract!vars, One!Contract!vars
    <3>5. QED
      BY <3>1, <3>3, <3>4
  <2>4. QED
    BY <1>5, <2>1, <2>2, <2>3 DEF OrdersInv
<1>6. QED
  BY <1>2, <1>3, <1>4, <1>5, PTL DEF Spec, ImplementsContract, Contract!Spec
=============================================================================
