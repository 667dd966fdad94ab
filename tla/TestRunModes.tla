---------------------------- MODULE TestRunModes ----------------------------
(***************************************************************************)
(* The less usual ways to run a suite, each an instance of TestRun with    *)
(* constants of its own: a runner with a child that is not a test and with *)
(* exit handlers in the tests ("stray"), CGREEN_NO_FORK ("nofork"), and    *)
(* run_single_test() ("single"). The mode is chosen once.                  *)
(***************************************************************************)
EXTENDS Naturals, Sequences

CONSTANTS
  Root, Suites, Main,
  Tests, Entries, Order,                 \* the tree run without fork
  Selected, SelectedOrder,               \* the tests run_single_test() is to run
  FewTests, FewEntries, FewOrder,        \* the tree run among stray processes
  Fixtures, Skipped, Skippers,           \* as in TestRun
  MaxResults                             \* bound: results of a run

ASSUME ModesAssumption ==
  /\ Root \in Suites
  /\ Suites \cap Tests = {} /\ Main \notin Tests
  /\ Entries \in [Suites -> Seq(Suites \cup Tests)]
  /\ Suites \cap FewTests = {} /\ Main \notin FewTests
  /\ FewEntries \in [Suites -> Seq(Suites \cup FewTests)]
  /\ Fixtures \subseteq Suites
  /\ Skipped \subseteq Tests /\ Selected \subseteq Tests /\ Skippers \subseteq FewTests
  /\ MaxResults \in Nat \ {0}

VARIABLES
  mode,
  stack, pc, status, trail, counters, total, pipe, code, zombies, wstatus,
  helper, interrupts, reports, sent, trouble

run  == <<stack, pc, status, trail, counters, total, pipe, code, zombies, wstatus,
          helper, interrupts, reports, sent, trouble>>
vars == <<mode, run>>

Stray == INSTANCE OutcomeProofs WITH
  Tests <- FewTests, Entries <- FewEntries, Order <- FewOrder,
  Skipped <- {}, Selected <- {}, Single <- FALSE, Fork <- TRUE,
  Timeout <- FALSE, CatchExceptions <- FALSE, ForkMayFail <- FALSE,
  Endings <- {"signalled"}, ExitHandlers <- {"assert", "crash"},
  SigpipeHandled <- FALSE, Helper <- TRUE,
  Capacity <- MaxResults, MaxInterrupts <- 0

NoFork == INSTANCE OutcomeProofs WITH
  Skippers <- {}, Selected <- {}, Single <- FALSE, Fork <- FALSE,
  Timeout <- FALSE, CatchExceptions <- TRUE, ForkMayFail <- FALSE,
  Endings <- {"signalled"}, ExitHandlers <- {},
  SigpipeHandled <- TRUE, Helper <- FALSE,
  Capacity <- MaxResults, MaxInterrupts <- 0

One == INSTANCE OutcomeProofs WITH
  Order <- SelectedOrder, Skippers <- {}, Single <- TRUE, Fork <- TRUE,
  Timeout <- FALSE, CatchExceptions <- FALSE, ForkMayFail <- FALSE,
  Endings <- {"signalled"}, ExitHandlers <- {},
  SigpipeHandled <- FALSE, Helper <- FALSE,
  Capacity <- MaxResults + 2, MaxInterrupts <- 0

Init ==
  \/ mode = "stray"  /\ Stray!Init
  \/ mode = "nofork" /\ NoFork!Init
  \/ mode = "single" /\ One!Init

Next ==
  /\ UNCHANGED mode
  /\ \/ mode = "stray"  /\ Stray!Next
     \/ mode = "nofork" /\ NoFork!Next
     \/ mode = "single" /\ One!Next

Spec == Init /\ [][Next]_vars
-----------------------------------------------------------------------------
(* In every mode each result written to the pipe is counted once (TestRun; *)
(* reporter.c:202, text_reporter.c:205), whichever test it is credited to. *)
Conservation ==
  /\ mode = "stray"  => Stray!Conservation
  /\ mode = "nofork" => NoFork!Conservation
  /\ mode = "single" => One!Conservation

(* Without fork and for a single test, success means that nothing failed,  *)
(* died or was lost, and that all tests asked for were reported            *)
(* (runner.c:44, 58). Stray processes can forge a completion.              *)
SuccessIsEarned ==
  /\ mode = "nofork" => NoFork!SuccessIsEarned
  /\ mode = "single" => One!SuccessIsEarned

(* The exit status follows from all results that were sent and read; an    *)
(* exit handler's may remain unread (runner.c:44, 58).                     *)
StatusIsTheSum ==
  /\ mode = "nofork" => NoFork!StatusIsTheSum
  /\ mode = "single" => One!StatusIsTheSum

(* The breadcrumb trail stays the path to the test under way even if the   *)
(* results read belong to another test (reporter.c:104, 125).              *)
TrailIsThePath ==
  /\ mode = "stray"  => Stray!TrailIsThePath
  /\ mode = "nofork" => NoFork!TrailIsThePath
  /\ mode = "single" => One!TrailIsThePath

(* Without fork a test that lost a message is reported as incomplete, and  *)
(* only such a test (reporter.c:118, posix_cgreen_pipe.c:61).              *)
OutcomeIsTrue ==
  /\ mode = "nofork" => NoFork!OutcomeIsTrue
  /\ mode = "single" => One!OutcomeIsTrue

OrderInMode == CASE mode = "stray" -> FewOrder [] mode = "nofork" -> Order
                 [] OTHER -> SelectedOrder
BadInMode   == CASE mode = "stray" -> Stray!Bad [] mode = "nofork" -> NoFork!Bad
                 [] OTHER -> One!Bad

Contract == INSTANCE TestRunContract WITH
  order    <- OrderInMode,
  reported <- [j \in 1..Len(reports) |-> reports[j].test],
  bad      <- BadInMode,
  verdict  <- status

(* In every mode the run implements its contract: the tests asked for, and *)
(* no others, are reported once and in order, and the status follows.      *)
ImplementsContract == Contract!Spec
=============================================================================
