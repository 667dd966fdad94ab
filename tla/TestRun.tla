------------------------------- MODULE TestRun -------------------------------
(***************************************************************************)
(* One call of run_test_suite() or run_single_test(): the recursive walk   *)
(* over the suite tree in the main process, one child process per test,    *)
(* the non-blocking pipe between them, and the reporter's counters, totals *)
(* and breadcrumb trail (reporter.c as the text reporter chains to it).    *)
(***************************************************************************)
EXTENDS Naturals, Sequences, FiniteSets

CONSTANTS
  Suites, Tests,   \* the TestSuites and the CgreenTests of the tree
  Root,            \* the suite handed to run_test_suite()
  Entries,         \* suite->tests[]: the entries of each suite, in order
  Fixtures,        \* the suites given a setup and a teardown function
  Skipped,         \* the tests declared with xEnsure
  Skippers,        \* the tests that may call skip_test()
  Single,          \* run_single_test(), not run_test_suite()
  Selected,        \* run_single_test(): the tests with the requested name
  Fork,            \* CGREEN_NO_FORK is not in the environment
  Timeout,         \* CGREEN_PER_TEST_TIMEOUT is in the environment
  CatchExceptions, \* runner.c is compiled as C++
  ForkMayFail,     \* the system may be out of processes
  Endings,         \* how test code may end early
  ExitHandlers,    \* what exit handlers of a test may do: "assert", "crash"
  SigpipeHandled,  \* the process does not die of SIGPIPE
  Helper,          \* the runner has a child that is not a test
  Capacity,        \* messages the pipe holds
  MaxResults,      \* bound: assertions, skips and caught exceptions of a run
  MaxInterrupts,   \* bound: times the user hits ctrl-C
  Main,            \* the main process, as the sender of a message
  Order            \* the tests to be reported, in the order of the walk

Results == {"pass", "fail", "skipped", "completion", "exception"}
Kinds   == Results \ {"completion"}

ASSUME TreeAssumption ==
  /\ Root \in Suites
  /\ Suites \cap Tests = {}
  /\ Main \notin Tests
  /\ Entries \in [Suites -> Seq(Suites \cup Tests)]
  /\ Fixtures \subseteq Suites
  /\ Skipped \subseteq Tests /\ Skippers \subseteq Tests
  /\ Selected \subseteq Tests

ASSUME ModeAssumption ==
  /\ {Single, Fork, Timeout, CatchExceptions, SigpipeHandled, Helper, ForkMayFail}
       \subseteq BOOLEAN
  /\ Endings \subseteq {"exited", "signalled", "aborted"}
  /\ ExitHandlers \subseteq {"assert", "crash"}
  \* the wait() after a message dropped by cgreen_pipe_write() finds no child
  /\ ~(SigpipeHandled /\ Helper)

ASSUME BoundAssumption ==
  /\ Capacity \in Nat \ {0}
  /\ MaxResults \in Nat
  /\ MaxInterrupts \in Nat

VARIABLES
  stack,      \* the invocations of run_every_test(): suite, loop and i
  pc,         \* what the main process is doing
  status,     \* how the main process ended
  trail,      \* reporter->breadcrumb
  counters,   \* reporter->passes, failures, skips, exceptions
  total,      \* reporter->total_passes, ...
  pipe,       \* the messages written and not read
  code,       \* how far run_the_test_code() is for each test
  zombies,    \* the children that ended and were not waited for, and how
  wstatus,    \* the wait status of the test under way
  helper,     \* the runner's other child
  interrupts, \* how many ctrl-C so far
  reports,    \* history: the tests reported, in order, and how
  sent,       \* history: the messages written, by result
  trouble     \* history: who "failed" or threw, "died" early, "lost" a message

main    == <<stack, pc, status, trail>>
book    == <<counters, total, reports>>
procs   == <<code, zombies, wstatus, helper, interrupts>>
channel == <<pipe, sent, trouble>>
vars    == <<main, book, procs, channel>>

Running  == {"setup", "run", "teardown", "tally"}
Dead     == {"exited", "signalled", "aborted"}
Phases   == {"none", "exiting", "returned"} \cup Running \cup Dead
Forking  == Fork /\ ~Single
NoCounts == [k \in Kinds |-> 0]
Frame(s) == [suite |-> s, loop |-> "subs", i |-> 1]

TypeOK ==
  /\ stack \in Seq([suite : Suites, loop : {"subs", "tests"}, i : Nat \ {0}])
  /\ pc \in {"loop", "setup", "teardown", "test", "forked", "waiting",
             "reading", "reading_suite", "stopped"}
  /\ status \in {"running", "success", "failure", "signalled", "died"}
  /\ trail \in Seq(Suites \cup Tests)
  /\ counters \in [Kinds -> Nat] /\ total \in [Kinds -> Nat]
  /\ pipe \in Seq([result : Results, from : Tests \cup {Main}])
  /\ code \in [Tests -> Phases]
  /\ zombies \subseteq (Tests \cup {Main}) \X Dead
  /\ wstatus \in Dead
  /\ helper \in {"none", "running", "ended"}
  /\ interrupts \in Nat
  /\ reports \in Seq([test : Tests, how : {"skipped", "completed", "incomplete", "terminated"}])
  /\ sent \in [Results -> Nat]
  /\ trouble \subseteq (Tests \cup {Main}) \X {"failed", "died", "lost"}
-----------------------------------------------------------------------------
(* The walk over the suite tree                                            *)

Top      == stack[Len(stack)]
Entry    == Entries[Top.suite][Top.i]
InLoop(l) == pc = "loop" /\ Top.loop = l
HasEntry == Top.i <= Len(Entries[Top.suite])
\* mutant: the loop counts down
BugNextEntry == [stack EXCEPT ![Len(stack)].i = @ - 1]
NextEntry == [stack EXCEPT ![Len(stack)].i = @ + 1]
DropLast(s) == SubSeq(s, 1, Len(s) - 1)

\* has_test(): does the tree under the suite hold a test of that name
HasTest[s \in Suites] ==
  \E i \in DOMAIN Entries[s] :
    IF Entries[s][i] \in Suites THEN HasTest[Entries[s][i]] ELSE Entries[s][i] \in Selected

Visits(e) ==
  IF e \in Suites THEN Top.loop = "subs"  /\ (Single => HasTest[e])
                  ELSE Top.loop = "tests" /\ (Single => e \in Selected)
-----------------------------------------------------------------------------
(* The pipe: a full one drops the message                                  *)

Full     == Len(pipe) >= Capacity
Survives == Full => SigpipeHandled
Budget   == sent["pass"] + sent["fail"] + sent["exception"] + sent["skipped"] < MaxResults

Send(from, r) ==
  /\ pipe' = IF Full THEN pipe ELSE Append(pipe, [result |-> r, from |-> from])
  /\ sent' = IF Full THEN sent ELSE [sent EXCEPT ![r] = @ + 1]
  /\ trouble' = trouble \cup (IF r \in {"fail", "exception"} THEN {<<from, "failed">>} ELSE {})
                       \cup (IF Full THEN {<<from, "lost">>} ELSE {})

NextResult == IF pipe = <<>> THEN "nothing" ELSE Head(pipe).result
Unread     == IF pipe = <<>> THEN pipe ELSE Tail(pipe)
-----------------------------------------------------------------------------
Init ==
  /\ stack = <<Frame(Root)>>
  /\ pc = "loop"
  /\ status = "running"
  /\ trail = <<Root>>
  /\ counters = NoCounts
  /\ total = NoCounts
  /\ pipe = <<>>
  /\ code = [t \in Tests |-> "none"]
  /\ zombies = {}
  /\ wstatus = "exited"
  /\ helper = IF Helper THEN "running" ELSE "none"
  /\ interrupts = 0
  /\ reports = <<>>
  /\ sent = [r \in Results |-> 0]
  /\ trouble = {}

Goto(p) == pc' = p /\ UNCHANGED <<stack, status, trail>>
Stop(s) == pc' = "stopped" /\ status' = s /\ UNCHANGED <<stack, trail>>
-----------------------------------------------------------------------------
(* The test code, in a child process or, without fork, in the main process *)

NextPhase(t) == CASE code[t] = "setup" -> "run"
                  [] code[t] = "run" -> "teardown"
                  [] OTHER -> "tally"

\* the suite of a test, whose setup and teardown replace those of its context
Owner(t) == CHOOSE s \in Suites : \E i \in DOMAIN Entries[s] : Entries[s][i] = t

\* the process that runs the code of t ends before it notified completion
Dies(t, how) ==
  /\ trouble' = trouble \cup {<<t, "died">>}
  /\ IF Forking
     THEN /\ code' = [code EXCEPT ![t] = how]
          /\ zombies' = zombies \cup {<<t, how>>}
          /\ UNCHANGED main
     ELSE /\ \E s \in IF how = "exited" THEN {"success", "failure"} ELSE {"signalled"} : Stop(s)
          /\ UNCHANGED <<code, zombies>>
  /\ UNCHANGED <<book, wstatus, helper, interrupts, pipe, sent>>

\* an assertion or skip_test(), after which the test goes on
CodeSends(t, r) ==
  /\ r = "skipped" => t \in Skippers
  /\ \/ code[t] \in Running
     \/ code[t] = "exiting" /\ "assert" \in ExitHandlers
  /\ pc # "stopped"
  /\ Survives /\ Budget
  /\ Send(t, r)
  /\ UNCHANGED <<main, book, procs>>

CodeAdvances(t) ==
  /\ code[t] \in Running \ {"tally"}
  /\ pc # "stopped"
  /\ code' = [code EXCEPT ![t] = NextPhase(t)]
  /\ UNCHANGED <<main, book, zombies, wstatus, helper, interrupts, channel>>

CodeThrows(t) ==
  /\ CatchExceptions
  /\ code[t] \in Running \ {"tally"}
  /\ code[t] = "run" \/ Owner(t) \notin Fixtures
  /\ pc # "stopped"
  /\ Survives /\ Budget
  /\ Send(t, "exception")
  /\ code' = [code EXCEPT ![t] = NextPhase(t)]
  /\ UNCHANGED <<main, book, zombies, wstatus, helper, interrupts>>

\* mutant: completion is notified before tally_mocks()
BugCodeCompletes(t) ==
  /\ code[t] = "teardown"
  /\ pc # "stopped"
  /\ Survives
  /\ Send(t, "completion")
  /\ code' = [code EXCEPT ![t] = "tally"]
  /\ UNCHANGED <<main, book, zombies, wstatus, helper, interrupts>>

CodeCompletes(t) ==
  /\ code[t] = "tally"
  /\ pc # "stopped"
  /\ Survives
  /\ Send(t, "completion")
  /\ code' = [code EXCEPT ![t] = IF Forking THEN "exiting" ELSE "returned"]
  /\ IF Forking THEN UNCHANGED main ELSE Goto("reading")
  /\ UNCHANGED <<book, zombies, wstatus, helper, interrupts>>

CodeDies(t, how) ==
  /\ code[t] \in Running
  /\ pc # "stopped"
  /\ how \in Endings
  /\ Dies(t, how)

CodePanics(t) ==
  /\ \/ code[t] \in Running
     \/ code[t] = "exiting" /\ "assert" \in ExitHandlers
  /\ pc # "stopped"
  /\ ~Survives
  /\ Dies(t, "signalled")

\* mutant: die_in() is called after the setup
BugAlarm(t) ==
  /\ Timeout /\ Forking
  /\ pc # "stopped"
  /\ code[t] \in Running \ {"setup"} /\ Dies(t, "exited")

Alarm(t) ==
  /\ Timeout
  /\ pc # "stopped"
  /\ IF Forking
     THEN code[t] \in Running /\ Dies(t, "exited")
     ELSE /\ code[t] \in Running \cup {"returned"}
          /\ Stop("success")
          /\ UNCHANGED <<book, procs, channel>>

ChildEnds(t, how) ==
  /\ code[t] = "exiting"
  /\ how = "signalled" => "crash" \in ExitHandlers
  /\ code' = [code EXCEPT ![t] = how]
  /\ zombies' = zombies \cup {<<t, how>>}
  /\ UNCHANGED <<main, book, wstatus, helper, interrupts, channel>>
-----------------------------------------------------------------------------
(* The main process                                                        *)

EnterSubSuite ==
  /\ pc = "loop" /\ HasEntry
  /\ Entry \in Suites /\ Visits(Entry)
  /\ Goto("setup")
  /\ UNCHANGED <<book, procs, channel>>

FixtureAsserts(r) ==
  /\ pc \in {"setup", "teardown"}
  /\ Top.suite \in Fixtures
  /\ Survives /\ Budget
  /\ Send(Main, r)
  /\ UNCHANGED <<main, book, procs>>

StartSubSuite ==
  /\ pc = "setup"
  /\ pc' = "loop"
  /\ stack' = Append(stack, Frame(Entry))
  /\ trail' = Append(trail, Entry)
  /\ counters' = NoCounts
  /\ UNCHANGED <<status, total, reports, procs, channel>>

TeardownReturns ==
  /\ pc = "teardown"
  /\ pc' = "loop"
  /\ stack' = NextEntry
  /\ UNCHANGED <<status, trail, book, procs, channel>>

PassEntry ==
  /\ pc = "loop" /\ HasEntry
  /\ ~Visits(Entry)
  /\ stack' = NextEntry
  /\ UNCHANGED <<pc, status, trail, book, procs, channel>>

\* mutant: the counters keep the results of the last sub-suite
BugStartOwnTests ==
  /\ InLoop("subs") /\ ~HasEntry
  /\ stack' = [stack EXCEPT ![Len(stack)] = [suite |-> @.suite, loop |-> "tests", i |-> 1]]
  /\ UNCHANGED <<pc, status, trail, book, procs, channel>>

StartOwnTests ==
  /\ InLoop("subs") /\ ~HasEntry
  /\ stack' = [stack EXCEPT ![Len(stack)] = [suite |-> @.suite, loop |-> "tests", i |-> 1]]
  /\ counters' = NoCounts
  /\ UNCHANGED <<pc, status, trail, total, reports, procs, channel>>

AtTest == pc = "loop" /\ HasEntry /\ Entry \in Tests /\ Visits(Entry)

StartTest(p) == pc' = p /\ trail' = Append(trail, Entry) /\ UNCHANGED <<stack, status>>

SkipTest ==
  /\ AtTest /\ Entry \in Skipped
  /\ Survives
  /\ Send(Main, "skipped")
  /\ StartTest("reading")
  /\ wstatus' = "exited"
  /\ UNCHANGED <<book, code, zombies, helper, interrupts>>

RunTest ==
  /\ AtTest /\ Entry \notin Skipped
  /\ code' = [code EXCEPT ![Entry] = "setup"]
  /\ StartTest(IF Forking THEN "forked" ELSE "test")
  /\ wstatus' = "exited"
  /\ UNCHANGED <<book, zombies, helper, interrupts, channel>>

\* in_child_process() calls die()
ForkFails ==
  /\ AtTest /\ Entry \notin Skipped
  /\ Forking /\ ForkMayFail
  /\ trail' = Append(trail, Entry)
  /\ pc' = "stopped" /\ status' = "died"
  /\ UNCHANGED <<stack, book, procs, channel>>

IgnoreCtrlC ==
  /\ pc = "forked"
  /\ Goto("waiting")
  /\ UNCHANGED <<book, procs, channel>>

\* mutant: wait() does not block
BugWaitForChild(z) ==
  /\ pc = "waiting"
  /\ zombies' = zombies \ {z}
  /\ Goto("reading")
  /\ UNCHANGED <<book, code, wstatus, helper, interrupts, channel>>

\* wait() takes whichever child ended
WaitForChild(z) ==
  /\ pc = "waiting"
  /\ z \in zombies
  /\ zombies' = zombies \ {z}
  /\ wstatus' = z[2]
  /\ Goto("reading")
  /\ UNCHANGED <<book, code, helper, interrupts, channel>>

ReadResult ==
  /\ pc \in {"reading", "reading_suite"}
  /\ NextResult \in {"pass", "fail", "exception"}
  /\ counters' = [counters EXCEPT ![NextResult] = @ + 1]
  /\ pipe' = Unread
  /\ UNCHANGED <<main, total, reports, procs, sent, trouble>>

LastRead == NextResult \in {"skipped", "completion", "nothing"}

\* mutant: an exit without a completion message passes for a completion
BugReported == CASE NextResult = "skipped" -> "skipped"
                 [] OTHER -> IF wstatus = "exited" THEN "completed" ELSE "terminated"

\* what reporter_finish_test() reports of the test it closes
Reported == CASE NextResult = "skipped" -> "skipped"
              [] NextResult = "completion" -> "completed"
              [] OTHER -> IF wstatus = "signalled" THEN "terminated" ELSE "incomplete"

\* mutant: only a completed test takes its name off the breadcrumb trail
BugFinishTest ==
  /\ pc = "reading" /\ LastRead
  /\ counters' = CASE NextResult = "skipped" -> [counters EXCEPT !["skipped"] = @ + 1]
                   [] NextResult = "nothing" -> [counters EXCEPT !["exception"] = @ + 1]
                   [] OTHER -> counters
  /\ reports' = Append(reports, [test |-> Entry, how |-> Reported])
  /\ pipe' = Unread
  /\ trail' = IF NextResult = "completion" THEN DropLast(trail) ELSE trail
  /\ stack' = NextEntry
  /\ pc' = "loop"
  /\ UNCHANGED <<status, total, procs, sent, trouble>>

FinishTest ==
  /\ pc = "reading" /\ LastRead
  /\ counters' = CASE NextResult = "skipped" -> [counters EXCEPT !["skipped"] = @ + 1]
                   [] NextResult = "nothing" -> [counters EXCEPT !["exception"] = @ + 1]
                   [] OTHER -> counters
  /\ reports' = Append(reports, [test |-> Entry, how |-> Reported])
  /\ pipe' = Unread
  /\ trail' = DropLast(trail)
  /\ stack' = NextEntry
  /\ pc' = "loop"
  /\ UNCHANGED <<status, total, procs, sent, trouble>>

EndSuite ==
  /\ InLoop("tests") /\ ~HasEntry
  /\ Survives
  /\ Send(Main, "completion")
  /\ Goto("reading_suite")
  /\ UNCHANGED <<book, procs>>

\* mutant: exceptions do not fail the run
BugVerdict(sums) == IF sums["fail"] = 0 THEN "success" ELSE "failure"
\* mutant: a skipped test fails the run
BugStrictVerdict(sums) ==
  IF sums["fail"] + sums["exception"] + sums["skipped"] = 0 THEN "success" ELSE "failure"

Verdict(sums) ==
  IF sums["fail"] = 0 /\ (Single \/ sums["exception"] = 0) THEN "success" ELSE "failure"

\* mutant: the totals are those of the last suite
BugBooked == counters'
Booked == [k \in Kinds |-> total[k] + counters'[k]]

FinishSuite ==
  /\ pc = "reading_suite" /\ LastRead
  /\ counters' = IF NextResult = "skipped" THEN [counters EXCEPT !["skipped"] = @ + 1]
                                           ELSE counters
  /\ total' = Booked
  /\ pipe' = Unread
  /\ trail' = DropLast(trail)
  /\ stack' = DropLast(stack)
  /\ IF Len(stack) = 1 THEN pc' = "stopped" /\ status' = Verdict(total')
                       ELSE pc' = "teardown" /\ UNCHANGED status
  /\ UNCHANGED <<reports, procs, sent, trouble>>

\* a message of the main process itself finds the pipe full
MainPanics ==
  /\ \/ pc \in {"setup", "teardown"} /\ Top.suite \in Fixtures
     \/ AtTest /\ Entry \in Skipped
     \/ InLoop("tests") /\ ~HasEntry
  /\ ~Survives
  /\ trouble' = trouble \cup {<<Main, "died">>}
  /\ Stop("signalled")
  /\ UNCHANGED <<book, procs, pipe, sent>>
-----------------------------------------------------------------------------
(* The rest of the world                                                   *)

HelperEnds ==
  /\ helper = "running" /\ pc # "stopped"
  /\ helper' = "ended"
  /\ zombies' = zombies \cup {<<Main, "exited">>}
  /\ UNCHANGED <<main, book, code, wstatus, interrupts, channel>>

\* ctrl-C reaches the whole process group; main ignores it only in wait()
Interrupt ==
  LET hit == {t \in Tests : Forking /\ code[t] \in Running \cup {"exiting"}} IN
  /\ pc # "stopped"
  /\ interrupts < MaxInterrupts
  /\ interrupts' = interrupts + 1
  /\ code' = [t \in Tests |-> IF t \in hit THEN "signalled" ELSE code[t]]
  /\ zombies' = zombies \cup (hit \X {"signalled"})
  /\ trouble' = trouble \cup {<<t, "died">> : t \in {u \in hit : code[u] # "exiting"}}
  /\ IF pc = "waiting" THEN UNCHANGED main ELSE Stop("signalled")
  /\ UNCHANGED <<book, wstatus, helper, pipe, sent>>

MainStep ==
  \/ EnterSubSuite \/ StartSubSuite \/ TeardownReturns \/ PassEntry
  \/ StartOwnTests \/ SkipTest \/ RunTest \/ IgnoreCtrlC
  \/ \E z \in (Tests \cup {Main}) \X Dead : WaitForChild(z)
  \/ ReadResult \/ FinishTest \/ EndSuite \/ FinishSuite \/ MainPanics

CodeStep(t) == CodeAdvances(t) \/ CodeCompletes(t) \/ CodePanics(t)

Next ==
  \/ MainStep
  \/ \E r \in {"pass", "fail"} : FixtureAsserts(r)
  \/ \E t \in Tests :
       \/ CodeStep(t) \/ CodeThrows(t) \/ Alarm(t)
       \/ \E r \in {"pass", "fail", "skipped"} : CodeSends(t, r)
       \/ \E how \in Dead : CodeDies(t, how)
       \/ \E how \in {"exited", "signalled"} : ChildEnds(t, how)
  \/ ForkFails
  \/ HelperEnds
  \/ Interrupt
  \/ pc = "stopped" /\ UNCHANGED vars

Spec == Init /\ [][Next]_vars
-----------------------------------------------------------------------------
(* What makes a run correct                                                *)

Count(s, R)  == Cardinality({j \in 1..Len(s) : s[j] \in R})
InPipe(k)    == Count(pipe, [result : {k}, from : Tests \cup {Main}])
Incompletes  == Count(reports, [test : Tests, how : {"incomplete", "terminated"}])
\* the results counted since the last time the totals were brought up to date
Unbooked(k)  == IF stack # <<>> /\ Top.loop = "tests" THEN counters[k] ELSE 0
InTest       == pc \in {"forked", "waiting", "test", "reading"}
\* wait() has taken the other child of the runner for a test
Misled       == helper = "ended" /\ <<Main, "exited">> \notin zombies

(* Every result written to the pipe is in the totals, in the counters of   *)
(* the suite under way, or still in the pipe, exactly once; every test     *)
(* that did not complete is one exception more (reporter.c:113, 202;       *)
(* runner.c:82; text_reporter.c:205).                                      *)
Conservation ==
  \A k \in Kinds :
    sent[k] + (IF k = "exception" THEN Incompletes ELSE 0)
      = total[k] + Unbooked(k) + InPipe(k)

(* EXIT_SUCCESS is returned only when nobody failed an assertion, threw,   *)
(* died early or lost a message, and every test was reported (runner.c:44;  *)
(* the guide calls it a standard exit code, and says that skip_test() only *)
(* tallies the test as skipped).                                           *)
SuccessIsEarned ==
  status = "success" =>
    /\ trouble = {}
    /\ \A t \in (IF Single THEN Selected ELSE Tests) : \E j \in DOMAIN reports : reports[j].test = t

(* The exit status follows from all results ever sent: it is EXIT_SUCCESS  *)
(* exactly when no failure and no exception was sent or noted, in whatever *)
(* suite and however often the counters were reset (runner.c:44, 58).      *)
StatusIsTheSum ==
  status \in {"success", "failure"} =>
    (status = "success"
      <=> sent["fail"] = 0 /\ (Single \/ sent["exception"] + Incompletes = 0))

(* What is read for a test was sent by that test or by a fixture the main  *)
(* process ran: no other test can write into its result, unless wait() took *)
(* another child for the test (posix_runner_platform.c:75).                *)
OwnResults ==
  pc # "stopped" /\ ~Misled =>
    \A j \in 1..Len(pipe) : pipe[j].from = Main \/ (InTest /\ pipe[j].from = Entry)

(* A completion is the last message in the pipe: nothing sent for the test *)
(* or the suite it closes is left behind to be read later (reporter.c:215),*)
(* unless wait() took another child for a test.                            *)
CompletionIsLast ==
  ~Misled => \A j \in 1..Len(pipe) : pipe[j].result = "completion" => j = Len(pipe)

(* The main process reads the results of a test only when the process of   *)
(* the test has ended, and leaves no test running behind its back, unless  *)
(* wait() took another child for it (posix_runner_platform.c:75).          *)
WaitsForTheTest ==
  Forking /\ ~Misled /\ pc \notin {"forked", "waiting", "stopped"}
    => \A t \in Tests : code[t] \in Dead \cup {"none"}

(* The trail shown with a failure is the path of suites under way and the  *)
(* test in it: every push is matched by one pop, on every way out.         *)
TrailIsThePath ==
  pc # "stopped" =>
    trail = [d \in 1..Len(stack) |-> stack[d].suite]
              \o (IF InTest THEN <<Entry>> ELSE <<>>)

(* A test is reported as incomplete exactly when its process died early or *)
(* lost a message; the report names a signal only if one killed it         *)
(* (reporter.c:118, posix_runner_platform.c:48, posix_cgreen_pipe.c:61);   *)
(* again as long as wait() takes no other child.                           *)
OutcomeIsTrue ==
  ~Misled => \A j \in DOMAIN reports :
    LET t   == reports[j].test
        bad == {<<t, "died">>, <<t, "lost">>} \cap trouble # {}
    IN  /\ bad <=> reports[j].how \in {"incomplete", "terminated"}
        /\ reports[j].how = "terminated" => code[t] = "signalled"

-----------------------------------------------------------------------------
(* The promise of the run, and that it ends                                *)

Weight(k) == total[k] + Unbooked(k)
Bad == Weight("fail") > 0 \/ (~Single /\ Weight("exception") > 0)
Contract == INSTANCE TestRunContract WITH
  order    <- Order,
  reported <- [j \in 1..Len(reports) |-> reports[j].test],
  bad      <- Bad,
  verdict  <- status

\* subs[s][i] and own[s][i] are what the two loops of run_every_test() run of
\* suite s from its entry i on, and Order is what they run of the root
IsWalk(subs, own) ==
  /\ \A s \in Suites :
       LET n == Len(Entries[s]) IN
       /\ subs[s] \in [1..(n + 1) -> Seq(Tests)] /\ subs[s][n + 1] = <<>>
       /\ own[s] \in [1..(n + 1) -> Seq(Tests)] /\ own[s][n + 1] = <<>>
       /\ \A i \in 1..n :
            LET e == Entries[s][i] IN
            /\ subs[s][i] = (IF e \in Suites /\ (Single => HasTest[e])
                             THEN subs[e][1] \o own[e][1] ELSE <<>>) \o subs[s][i + 1]
            /\ own[s][i] = (IF e \in Tests /\ (Single => e \in Selected)
                            THEN <<e>> ELSE <<>>) \o own[s][i + 1]
  /\ Order = subs[Root][1] \o own[Root][1]

(* The run implements its contract: results survive the resets of the      *)
(* counters, tests are reported once and in order, the status follows.     *)
ImplementsContract == Contract!Spec

\* the main process and exiting children are scheduled
FairSpec ==
  /\ Spec
  /\ WF_vars(MainStep)
  /\ \A t \in Tests : WF_vars(\E how \in Dead : ChildEnds(t, how))

CodeTerminates == \A t \in Tests : WF_vars(CodeStep(t))
AlarmIsCertain == \A t \in Tests : WF_vars(Alarm(t))

(* The run ends with an exit status of its own, whatever the tests do, if  *)
(* test code terminates; it may also hang if CGREEN_PER_TEST_TIMEOUT is    *)
(* set (runner.c:62, 379; posix_runner_platform.c:72).                     *)
RunEnds == (CodeTerminates \/ AlarmIsCertain) => <>(status \in {"success", "failure"})
=============================================================================
