# A TLA+ verification project for Cgreen

Cgreen is a unit test framework for C and C++: a runner that walks a tree of
suites and runs each test in a process of its own, a pipe that carries the
results back, reporters that count and show them, and mocks with expectations
that are checked at the end of each test. This directory holds TLA+ models of
the parts of Cgreen whose order of events matters, the configurations that
model-check them with TLC, and theorems about them checked by TLAPS. Paths are
those of the repository; `runner.c` and the like without a directory are in its `src/`.

## Inventory

| part | state | operations | what is hard |
|---|---|---|---|
| runner (`runner.c`, `posix_runner_platform.c`) | the recursion of `run_every_test()` / `run_named_test()`, child processes, the alarm | run a suite, a named test, fork, wait, skip, set a time limit | a child may end at any point; ctrl-C; `wait()` takes any child; no fork at all |
| messaging (`messaging.c`, `posix_cgreen_pipe.c`) | the pipe | send, receive, both without blocking | a full pipe loses a message and raises SIGPIPE |
| reporter (`reporter.c`, `breadcrumb.c`, counters of `text_reporter.c`) | counters, totals, trail of names | start and finish suites and tests, read results | one set of counters for all levels of the tree, reset on the way |
| suites (`suite.c`) | the tree | add, find, count, set fixtures | sub-suites run before the tests of their suite |
| mocks (`mocks.c`) | one queue of expectations, the mode, learned calls, mocked names | `expect`, `always_expect`, `never_expect`, `mock`, `cgreen_mocks_are`, tally | order of calls, what may follow what, two counters for one thing, leaks between tests |
| constraints, assertions (`constraint.c`, `assertions.c`, `legacy.h`) | the number of significant figures | compare, set, report | three ways to write one check, types told apart by the constraint only, tolerances |
| parameter names (`parameters.c`) | none | split the text of `mock()`'s parameters | nested parentheses |
| text and cute reporters (`text_reporter.c`, `cute_reporter.c`) | a memo, the standard output of each process | show results | two processes write one stream, buffers are lost or doubled |
| XML, libxml and CDash reporters | output files, documents in memory, a temporary file shared with the child | show results | offsets shared between processes, dead children, buffer limits |
| vector, memory pool (`vector.c`; `memory.c`, which no build file names) | an array, a list of blocks | add, remove, get, free all | positions, double use |
| `cgreen-runner` (`tools/`) | the tests discovered, the suites built of them | select, sort, run, over several libraries | one test alone takes another path; exit status over libraries |
| Windows platform, C++ wrappers | - | the same operations in other ways | a test is a new program |

How they interact: `run_test_suite()` opens the pipe and makes the reporter the
current one, walks the tree calling the reporter's `start_*` and `finish_*`, and
forks for each test. The child runs setup, test, teardown and `tally_mocks()`;
every assertion, in the test or in a mock, is a message. It then sends a
completion message and exits. The parent waits for it and reads the pipe in
`finish_test`. Setup and teardown of a suite around a sub-suite run in the
parent, and what they assert goes through the same pipe.

## Modules

| module | what it is |
|---|---|
| `TestRun` | one call of `run_test_suite()` or `run_single_test()`, with its children, pipe and reporter |
| `TestRunContract` | what a run promises its caller |
| `MCTestRun` | suite trees for model checking `TestRun` |
| `TestRunModes` | three less usual ways to run a suite, each an instance of `TestRun` |
| `MCTestRunModes` | suite trees for model checking `TestRunModes` |
| `TestRunProofs` | theorems about the walk, the processes, the pipe and the exit status of `TestRun` |
| `OutcomeProofs` | the theorem that `TestRun` implements its contract, and those about how tests are reported and what an exit status of success says |
| `ModesProofs` | the theorems for each mode of `TestRunModes` |
| `TextReporter`, `CuteReporter`, `CdashReporter`, `XmlReporter`, `LibxmlReporter` | what each operation of a reporter does to its memory and its files |
| `ReportedRun` | `TestRun` with one of the reporters |
| `MCReportedRun` | a suite tree and sizes for model checking `ReportedRun` |
| `ReportedRunProofs` | theorems about `ReportedRun` |
| `Constraints` | the constraints and how they compare |
| `ParameterNames` | the names in the text of a `mock()` call |
| `Assertions` | a value checked by an assertion, an assertion of the older style and a mock |
| `MCAssertions` | values, constraints and `mock()` calls for model checking `Assertions` |
| `AssertionsProofs` | theorems about `Assertions` |
| `Mocks` | the expectations of one process |
| `MocksContract` | what mocks promise a test |
| `MCMocks` | functions and constraint lists for model checking `Mocks` |
| `MocksProofs` | theorems about `Mocks` |
| `RunnerTool` | one run of `cgreen-runner` over several libraries |
| `MCRunnerTool` | libraries and command lines for model checking `RunnerTool` |
| `RunnerToolProofs` | theorems about `RunnerTool`, and what its sorting, selecting and grouping return for every list of tests |
| `Induction` | induction and recursion over numbers, for the proofs that need them |

Definitions named `Bug...` are mutants: each is the definition that follows it
with a plausible mistake, and stands in no specification. They show that a
property would notice.

### TestRun

The main process is a program counter `pc` and a `stack` with one frame for
each invocation of `run_every_test()`: the suite, which of its two loops, and `i`.

- `EnterSubSuite`, `FixtureAsserts`, `StartSubSuite`, `TeardownReturns`: the first loop
  with setup, recursion and teardown. `PassEntry` steps over an entry the loop
  has no business with (a test in the first loop, a suite in the second, or
  what `run_named_test()` does not visit).
- `StartOwnTests`: the reset of the counters between the loops.
- `SkipTest`, `RunTest`, `ForkFails`, `IgnoreCtrlC`, `WaitForChild`: one test, to the end of `wait()`.
- `ReadResult`, `FinishTest`: `read_reporter_results()` one message at a time and `reporter_finish_test()`.
- `EndSuite`, `FinishSuite`: the completion of the suite, the totals, the exit status.
- `MainPanics`: a message of the main process itself finds the pipe full and SIGPIPE ends it.

`code[t]` is how far `run_the_test_code()` is for each test: `CodeSends` (assertions, and
`skip_test()` for the tests in `Skippers`),
`CodeAdvances` (setup, test, teardown, tally), `CodeThrows` (exceptions, in the
C++ build), `CodeCompletes`, and the ways out: `CodeDies`, `CodePanics`
(SIGPIPE), `Alarm`, `ChildEnds`. Without fork the same steps happen while `pc`
is "test". `HelperEnds` is a child of the runner that is not a test;
`Interrupt` is ctrl-C, which reaches all processes. `Misled` says that `wait()` has taken the
helper for a test: from then on the main process is one test ahead of what it reads.

`TestRunModes` instantiates `TestRun` three times and chooses once: "stray" (a helper, exit handlers and
tests that call `skip_test()`), "nofork" (`CGREEN_NO_FORK`) and "single" (`run_single_test()`). It names the module
`OutcomeProofs`, which is `TestRun` and its theorems, so that `ModesProofs` can cite them for each instance.

The reporter is `reporter.c` with `text_reporter.c`'s counting. Messages are records of
a result and its sender, which only properties look at. `reports`, `sent`
and `trouble` are history variables.

Abstractions: a test's assertions and a fixture's are any number of passes and
failures up to `MaxResults`; setup, test and teardown of one test differ only
in that exceptions are not caught where a suite's own fixtures run; a suite has
both fixtures or none; what an exit handler does is modelled for tests that
completed, not for those that call `exit()` early; fixtures of a suite do not call `skip_test()`; the validation of
the timeout happens before the model begins. A message dropped with SIGPIPE handled
is followed by `wait()` in the code: `ModeAssumption` keeps that and other
children apart, so that this `wait()` finds nobody. With the CUTE and CDash reporters a suite ends with
`reporter_finish_test()` (`cute_reporter.c:112`, `cdash_reporter.c:313`), which counts an exception if the suite's completion was
dropped, where the model has `reporter_finish_suite()`, which does not.

### Reporters and ReportedRun

Each reporter module is a set of operators named after the functions of its C file. They
take a state `[own, file]` to the next: `own` is the memory of the calling process (memo, document trees,
what stdio holds), `file` what has reached the terminal or the disk and is the same for all processes.

- `TextReporter` - the lines of the terminal, with `fflush()` in `show_fail()` and `show_incomplete()`; quiet mode.
- `CuteReporter` - the verdict lines. `previous_error` starts with the value `malloc()` left.
- `CdashReporter` - the records of assertions in `Test.xml`, buffered until the process ends.
- `XmlReporter` - the text of the test under way, and the temporary file with one offset for both
  processes: each element rewinds it and writes all the text again. Elements are sequences of pieces, so that one can
  overwrite part of another; `XmlSize` gives their lengths.
- `LibxmlReporter` - the tree of documents in the main process, the writer and the temporary file of a test, and the buffer of `insert_child_results()`.
  A message is a sequence of classes of characters: plain, restricted (on which the escaping loops), broken (written in four).

`ReportedRun` EXTENDS `TestRun`. Every action of the run that calls the reporter takes the state of the calling process along: `Forks` copies the parent's
memory after the `fflush(NULL)` before `fork()`; `TestExits` flushes; `TestKilled` leaves any of what `Remains` allows;
`TestKilledReporting` is a death between showing a failure and sending it, a state in which screen and pipe disagree. A reporter that
crashes ends its process, one that hangs stops it, in a test as in a suite's fixture. `shown` is a history variable.
`ReportAssumption` leaves full pipes to `TestRun`, so that no completion of a suite is lost and `reporter_finish_test()`, which the CUTE and CDash
reporters call for a suite, does what `reporter_finish_suite()` does. That a suite nested deeper than `MaxNested` aborts the main process
(`libxml_reporter.c:214`) is in the model and beyond the tree of the runs.

### Constraints, ParameterNames and Assertions

`Constraints` has one operator for each comparison function of `constraint.c`, the validity of the parameters
(`message_formatting.c`), and `execute`, which a mock runs instead of `compare`. A value is a
record with its type, as the code has it only in the constraint. Strings and bytes are short sequences; doubles
are hundredths, for which the code's accuracies below one unit count as one, below ten million (`MaxDigits`).

`ParameterNames` is the tokeniser of `parameters.c` on tokens instead of characters. `WellSpelt` of `Assertions` says which texts
belong to a list of arguments: variables, boxed or not, each once, with one comma between two of them and any blanks.
`Assertions` chooses a constraint, a value and a way to write the check (`CheckBoth` with a `when()`,
`CheckPlain` with a macro of `legacy.h`, `Misuse` where the constraint does not belong)
and keeps what each reported. `significant_figures_for_assert_double_are` may come before any check, and the next test starts with 8 again.
What reading a value as another type gives is left open: pass, fail or death.

An assertion of the older style has the C types of its two expressions, signed or not, as wide as an int or a long (`CTypes`), and `Convert` is C's conversion:
`assert_true()` passes its expression as an int (`reporter.h:21`), `assert_equal()` and the constraints cast to `intptr_t`, and the macros
with a message compare the expressions themselves, in their `Common` type. So `1L << 32` fails `assert_true()` and passes `is_true`, and -1 equals the
largest unsigned int in `assert_equal_with_message()` only. `DoesNotSay` names these cases. A value beyond `intptr_t` is not modelled, nor are floating-point
expressions in the macros for integers.

### Mocks

`queue` is `global_expectation_queue`. An expectation has its time to live
(1, `times(n)`, or the two marks for always and never), its constraints, and
the two counters `called` and `triggered`. `Expect`, `AlwaysExpect` and
`NeverExpect` append; `Reject` is their refusal after an always or never
expectation. A call is `UnexpectedCall`, `ForbiddenCall`, `MisspeltCall` (the early
return on an unknown parameter name) or `AnsweredCall`; `Aged` is what remains
of the queue after it. `Tally` is `tally_mocks()`, `NextTest` the beginning of
`run_the_test_code()` for the next test in the same process, as with `CGREEN_NO_FORK`.
Constraints are comparisons, `times()`, content setters, captures, results and side effects; comparisons are of
one value per parameter. `debt` (calls declared and not yet answered) and `response` (what the last call
returned, set, captured and did) are history variables. `debt` counts calls nobody declared, too, while mocks are strict.

Not modelled: side effects that call mocks, and the wording of messages.

### RunnerTool

`main()` of `tools/cgreen-runner.c` is `pc` with the index `next` of its two loops.
`ReadLibrary` splits the arguments, `StartLibraries` prints the header of `--suite`, and each
library is one of `MissingLibrary` (which leaves the loop), `UnusableLibrary`, `DontRun`,
`NothingToRun` or `StartRun`, `RunTest`..., `FinishRun`. The operators before them are
`sorted_test_items_from()` (a selection sort by name alone: `SortedTestItems`), the loop that keeps the items that match
(`Kept`), the suites made of them (`SuitesOf`) and the walk over these. `RunTest` leaves out all of `TestRun` but the outcome of a test and where it is run. A
test that is selected alone runs in the process of the tool: it takes the tool down when it dies; if it calls `exit(0)` or runs into the alarm, the tool
ends with `EXIT_SUCCESS` whatever failed before and with libraries left (`posix_runner_platform.c:102`); and an exception that it throws
does not count (`runner.c:58`). `ExitIsEarned` and its theorem name these exceptions. An argument list that ends with a library without a pattern takes `next` one
past the NULL behind the arguments, as `file_exists()` says no to NULL (`cgreen-runner.c:312`); nothing is read there.

A pattern is what it selects: contexts, names, and the name its text spells. `LiteralsAreNames` says that a pattern which
selects a single test of a library spells the name of that test. The guide does not ask for it, so it is no assumption of the model:
the patterns of the run `RunnerTool` satisfy it, which TLC evaluates (`LiteralsAssumption`), and those of `WildcardForOne` do not. `total` is the
reporter's, which serves all libraries. `ran` and `shown` are history variables.

### Contracts

`TestRunContract` knows no processes, pipes or counters: tests are reported once each and
in order, something going wrong is remembered for ever, and the exit status says
whether anything did, unless the process was killed. `TestRun` implements it with
the weight of failures and exceptions in totals and counters as `bad`.

`MocksContract` gives each function a list of calls it owes and a last word (open,
always, never). A test that leaves calls unmade fails, unless its mocks are loose: that is what the guide says (1529).
`Mocks` with strict and learning mocks implements it by filtering its one queue
for each function and unrolling `times(n)`; with loose mocks it does not (`LooseMocks`). That the lists are independent is the
guide's "order between mocked calls does not matter" (doc/cgreen-guide-en.asciidoc:1900).

## Runs

Passing runs:

- `ForkedRun` (`MCTestRun`) - a suite with tests before and after a sub-suite, fixtures, one skipped
  test, exceptions, early ends of all kinds, the alarm, one ctrl-C, failing
  forks, a child of the runner that is no test, and a pipe of three messages, so that three assertions leave no room for the
  completion. The safety invariants and the contract hold; `OwnResults`, `CompletionIsLast`, `WaitsForTheTest` and
  `OutcomeIsTrue` hold until `wait()` takes the other child (`Misled`), and the exit status is right even then.
- `OtherModes` (`MCTestRunModes`) - among stray processes, results may go to the wrong test, but `Conservation`,
  `TrailIsThePath` and the contract hold. Without fork, with SIGPIPE handled and a pipe that fills up, a test may end
  the whole runner, which the caller sees as a signal, and a test that lost a message is reported as incomplete.
  `run_single_test()` runs one name in two suites, one of them skipped.
- `RunEnds` (`MCTestRun`) - SIGPIPE handled, a pipe of two messages: results are dropped
  silently. The run ends, and no test that lost a message passes for complete.
- `Reports` (`MCReportedRun`) - the six reporters (quiet mode is one of its own) in a run of three tests, with a fixture that
  asserts, one skipped test, exceptions, the alarm and early ends of all kinds. What the user, CUTE and the files get is what the run counted.
- `Assertions` (`MCAssertions`) - every constraint on every value of its type, older assertions on expressions of every C type, and every
  misuse, with 1, 2, 3 and 8 significant figures.
- `Mocks` (`MCMocks`) - two functions, one with a parameter, five constraint lists, strict and learning mocks, two tests of
  three declarations or calls each.
- `RunnerTool` (`MCRunnerTool`) - libraries with tests of two contexts out of order, an empty one, one that
  `dlopen()` refuses, one with a test that `dlsym()` does not find, and a name that is no file, with
  patterns for one test, for a context and for nothing, all of `--suite`, XML and `--no-run`, and tests that pass, fail, die, throw or leave the process.

Runs that refute a statement of the documentation or of a comment:

- `SkipTest` (`SuccessIsEarned`): the guide says `skip_test()` tallies the test as skipped and does not end it;
  `reporter.c:209` stops reading the test's messages there, and each later test is closed with those of the
  one before. With two skips, the failure of a later test is never read and the status is `EXIT_SUCCESS`.
- `WildcardForOne` (`RunsTheSelection`): the guide says the runner selects tests by patterns; a pattern with
  an asterisk that matches exactly one test is taken for the test's name (`tools/runner.c:214`), nothing runs, and the exit is a success.
- `XmlOverwrite` (`XmlKeepsFailures`): the comment at `xml_reporter.c:153` says output is accumulated in a file because tests run
  in children; if a test fails and calls `exit()`, its failure is in the file and counted, and the main process writes its note from its own
  empty output over it (`xml_reporter.c:262`). The run has no deaths by signals, which would lose the failure before it reached the file.
- `LibxmlHang` (`ReportEnds`, under fairness): `insert_child_results()` waits for the end of a file that does not
  fit its buffer; `fread()` of nothing never gets there, and the run returns no status.
- `LooseMocks` (`ImplementsContract`): the guide says that loose mocks allow unfulfilled expectations (1529); the tally does not look
  at the mode, and fails the test (`mocks.c:816`).

`AllWaysAgree` names places where the code does not do what the guide or the macro's name says, and demands agreement in all others: `is_less_than` and
`is_greater_than` in a `when()` check nothing (`constraint.c:251`; guide, 1774: "exactly the same as for the assertions"), `assert_double_not_equal_with_message()` lacks its negation
(`legacy.h:73`), and the older macros compare in other C types (above). Without any one of these exceptions the run `Assertions` fails.

`OwnResults` and `CompletionIsLast` also depend on what tests leave alone: they do not hold if
a test's exit handlers assert (`ExitHandlers`; `exit()` in `stop()` runs them after the completion), so `OtherModes` does not state them.

### Properties

| property | says | hazard |
|---|---|---|
| `Conservation` | each result written is exactly once in totals, counters or pipe | resets, deaths, full pipe |
| `SuccessIsEarned` | `EXIT_SUCCESS` only if nobody failed, threw, died early or lost a message, and every test was reported | timeouts, crashes, lost messages |
| `StatusIsTheSum` | the status follows from all results ever sent | resets of the counters |
| `OwnResults` | what is read for a test was sent by it or by a fixture | late messages |
| `CompletionIsLast` | nothing follows a completion in the pipe | late messages |
| `WaitsForTheTest` | results are read when the process has ended | `wait()` |
| `TrailIsThePath` | the trail of names is the path in the tree | unbalanced push and pop |
| `OutcomeIsTrue` | incomplete exactly if the test died early or lost a message; a signal is named only if there was one | full pipe, wait status |
| `RunEnds` | the run ends with a status of its own | dropped completion, hanging test |
| `NothingBehindUnlimited` | nothing queued behind always or never | order of declarations |
| `CountersAgree` | time to live and number of calls tell the same | two counters |
| `ExactCalls` | a test with strict mocks and without failure made the declared calls and no other | tally, `times()` |
| `DoublesOrdered` | doubles that are not equal are less or greater as they really are | three tolerances from different magnitudes |
| `AllWaysAgree` | a check reports the same as an assertion, in the older style and in a mock, but for the cases it names | three implementations, conversions, names found in text |
| `NoSilentMisuse` | a constraint that is not for the value never passes silently | types that only the constraint knows |
| `OppositesDiffer` | of a constraint and its negation exactly one passes, or neither can be evaluated | NULL, size zero, tolerances |
| `NothingCountedUnseen` | every failure and exception that is counted is on the terminal, with its path | buffers of processes that die |
| `LinesAddUp` | the line on the run is the sum of those on the suites and agrees with the status | counters reset on the way |
| `CuteVerdicts` | one true verdict for every test | the memo, uninitialised or stale |
| `CuteBlocks` | a verdict stands between the start of its test and the next line of another | two processes, one stream |
| `CdashRecords` | one record for each assertion of a test that was not killed, in order | records that wait in stdio |
| `XmlTells` | the file has exactly the failures of a completed test, and a note on the others | one offset, text written again and again |
| `LibxmlTells` | a document has all failures of a test that was not killed, in order, and no exceptions that it caught; of a killed one a prefix; the main process hangs on a test exactly if its own failures fill the buffer | partial elements, the parser, the buffer, messages that are not escaped |
| `RunsTheSelection` | what runs of a library is what its pattern selects, once | patterns, single tests, failing libraries |
| `RunsBySuite` | the tests of a context run together, in order | sort by name, group by context |
| `ExitIsEarned` | the tool's success means that every library was usable, selected something, and nothing failed, but for two ways of a test in the tool's own process | one step of several failing |
| `ShowsOneSuite` | `--suite` shows one header and at most one completion, with the totals of all | options shared by libraries |
| `ImplementsContract` | of each component | interplay of all the above |

### Bounds

Three tests in two suites give every position: before, inside and after a
sub-suite, a skipped test, an empty second loop. Results only
add up, so three or four of them are enough to fill a pipe of three, to have some in
totals, counters and pipe at once and to overtake one another;
`MaxResults` bounds assertions and caught exceptions, not completions. `MaxInterrupts` is
one: a second ctrl-C finds either a dead runner or the same state again, for
the children it hits are gone. `Reports` has the same tree with fixtures; failures of one test are
numbered, so that two of them cannot be confused; the elements of `XmlSize` have lengths 2, 3 and 1,
so that a note may overwrite less, as much as or more than what was there; with `TagSize` 7 and a byte to escape an element is 12 long, so that
`BufferSize` 30 holds two failures of a test and not three; in `LibxmlHang` it is 24, which two fill. `Capacity` is above `MaxResults` there: full pipes are `ForkedRun`'s. The values
of `Assertions` are integers around zero and at the limits of an int of three bits and a long of five, signed and unsigned, strings that contain, begin and end with one another,
bytes that differ in each place, NULL, and doubles on both sides of 0, 0.1, 1 and 10, where the accuracy jumps. A model of decimal digits cannot show rounding
errors of binary ones. For mocks, three steps a test are one declaration and its two
calls, or two declarations and a call; two tests show what stays behind; a
function without parameters beside one with a parameter makes every
comparison misspelt for one of them. `NothingBehindUnlimited` beyond these bounds is a theorem.
For the tool, three tests in two contexts are the least that sorting and grouping can get wrong. Two libraries show
what one leaves to the next; three arguments are two libraries and the pattern of one, or a library between two
others. All pairs of arguments that begin with a library or a missing file are tried.
Beyond these bounds, all invariants of the tool are theorems.

### Fairness

`FairSpec` assumes that the main process is scheduled and that a child
in `exit()` gets to its end. `RunEnds` holds if in addition test code terminates
(`CodeTerminates`) or the alarm goes off (`AlarmIsCertain`), which `die_in()` asks of the kernel
before any fixture of the test runs. Nothing is assumed of fixtures that run
in the main process but that they return. `FairReportSpec`, of `LibxmlHang`, is the
same with reporters: the main process, test code that has not been stopped, and exiting children go on.

## Theorems

Checked by TLAPS for every suite tree, mode, capacity, set of functions and constraint list that
satisfies the modules' ASSUMEs:

- `TestRunProofs!TypeCorrect` - `Spec => []TypeOK`. `TypeOK` is not inductive alone: the
  frames must point at entries that exist, so that `Entry` is a test or a suite where it is used.
  The invariant adds what each `pc` says of the top frame.
- `TestRunProofs!ResultsAreConserved` - `Spec => []Conservation`. The lemmas count
  the pipe and the reports when one element is appended or taken away; each
  action then changes both sides of the equation by the same amount. It needs from `TypeInv` that
  results are read in the second loop of a suite only, where the counters are those of the suite under way,
  and that every frame below the top is in its first loop, so that a finished suite leaves nothing
  in the counters that is not in the totals.
- `TestRunProofs!TrailFollowsTheWalk` - `Spec => []TrailIsThePath`, in every mode, with other children and
  exit handlers. `PathOK` says the same name by name, which sequences joined by `\o` do not let
  the prover see; `NextEntrySuites` says that going on in a loop changes no name of a frame.
- `TestRunProofs!ReadsAfterTheEnd` - `Spec => []WaitsForTheTest`. The invariant `WaitOK` says that until `Misled` the only
  living test is the one under way, between its `fork()` and the end of its `wait()`, and that a zombie is that test
  with the status it ended with, so that a wait that takes a zombie takes that of a dead test.
- `TestRunProofs!NothingFollowsACompletion` and `TestRunProofs!ResultsAreTheTests` - `Undisturbed` implies
  `Spec => []CompletionIsLast` and `Spec => []OwnResults`. `Undisturbed` (no exit handlers that assert, no
  `skip_test()`) is needed: an exit handler asserts after the completion was sent, and `skip_test()` sends a
  skip, which closes the test, and goes on (run `SkipTest`). `PipeOK` adds that a closing message comes only when the
  one who may send is done (`MoreToCome`), so that `NothingLeft` follows: whoever closes a test or suite leaves
  the pipe empty. It rests on `WaitOK`, for only the process of the test under way can send.
  The theorems hold with and without fork and for `run_single_test()`: `AtCode` is the test under way, in its child or in the main process, and
  `NoProcess` says that without fork no test is ever a process to wait for.
- `TestRunProofs!StatusCountsEveryResult` - `Undisturbed /\ OnlyRunnerExits /\ ~Helper` implies `Spec => []StatusIsTheSum` (`OnlyRunnerExits`: tests are
  forked, or there is neither a timeout nor a test that calls `exit()`; `stop()` and `exit()` without fork end the runner with a status that says nothing). When the last suite is
  finished the stack and, by `NothingLeft`, the pipe are empty, so that `Conservation` says the totals
  are all there is, and `Verdict` looks at the totals. Nothing changes them afterwards (`SumOK`). The runs
  also check it with another child; then `NothingLeft` no longer holds and the proof would need another argument.
- `OutcomeProofs!RunKeepsItsContract` - `Spec => ImplementsContract`: the refinement of `TestRunContract`, for every tree and mode but those in
  which test code can end the runner with an exit status (`OnlyRunnerExits`, above). The invariant `OrderOK` gives each
  frame of the stack the tests that remain to be run of it and of the frames below; what was reported, joined to what remains of the top frame, is always
  `Order`. Nothing may be a recursive operator here, so that `IsWalk` says what the two loops visit of each suite from each entry on: `subs` and
  `own` are any functions that satisfy its equations. A finite tree has exactly one such pair; in the trees of `MCTestRun` and `MCTestRunModes` TLC computes
  it and evaluates `IsWalk` (`OrderAssumption`). Each action then is a step of the contract or a stutter, and `Bad` never falls, by `Conservation`.
- `OutcomeProofs!ReportsAreTrue` - `Spec => []OutcomeIsTrue`, under `Undisturbed`, `OnlyRunnerExits`, `OnceEach` (no test in two places of the tree) and `NoLostFixture`.
  `OutcomeOK` says that a test which can send no more is in trouble if and only if the pipe does not hold the message that closes it. It needs
  `NothingLeft` of `PipeOK`, and `OrderOK` for the fact that the test under way was not reported before.
- `OutcomeProofs!SuccessNeedsEveryTest` - under the same conditions, `EveryTest` (all tests, or all that `run_single_test()` is to run, are in the tree), `NoneIgnored` and `~Helper`,
  `Spec => []SuccessIsEarned`. `NoneIgnored`: `run_single_test()` looks at failures only (`runner.c:58`), so that a single test that throws, or that loses its completion
  because the pipe is full and SIGPIPE handled, is no obstacle to success; for single tests the theorem asks that exceptions are not caught and SIGPIPE is not handled,
  and `QuietOK` is the invariant that such a run has no exception, no lost message and no death it survives. Who
  failed is in the sums of failures, who died is reported as incomplete or terminated, which counts as an exception, and the contract says
  that all were reported. `ForkedRun` checks it with another child of the runner, too, which this proof does not cover.
  `NoLostFixture` (if SIGPIPE is handled, no suite has fixtures) was found by the proof: a fixture's message, or a suite's completion, that finds the
  pipe full is dropped and leaves no trace, and a test whose "skipped" message is dropped is reported as incomplete although it did not run. The
  trees of the runs with SIGPIPE handled do not get there; TLC finds both with a tree of a suite whose last sub-suite has fixtures and which has no tests of its own.
- `ModesProofs` - the properties of `TestRunModes`. A theorem of `TestRun` holds for an instance whose constants satisfy its ASSUMEs and the theorem's hypotheses;
  `ModesAssumption` says so of the trees, and the rest follows from the constants each mode fixes (`NoForkIsUndisturbed`, `OneIsUndisturbed`).
  The inductive invariant is that of `TestRun` in the mode chosen, which no step changes.
  `ModesConserveResults`, `ModesFollowTheWalk` and `ModesCountEveryResult` - `Spec => []Conservation`, `[]TrailIsThePath`, `[]StatusIsTheSum`, without further hypotheses.
  `ModesKeepTheContract` - `Walks` (`IsWalk` for the tree of each mode, which TLC evaluates in `MCTestRunModes`) implies `Spec => ImplementsContract`, with stray children, too.
  `ModesReportTruly` - `Walked` (`IsWalk`, and each test in one place) implies `Spec /\ FixturesHeard => []OutcomeIsTrue`, and
  `ModesEarnSuccess`, with `EveryTest`, `[]SuccessIsEarned`. `FixturesHeard` (no fixtures in "nofork", which handles SIGPIPE) is `NoLostFixture` above; it excludes
  the "nofork" part of the run `OtherModes`, whose tree has a fixture but not the lost completion.
- `RunnerToolProofs!SuccessMeansAllServed` - `Spec => []ExitIsEarned`. `any_fail` is not enough: in the middle of a library
  its failures are in the reporter's totals only. The invariant says that the libraries behind the index were
  served or `any_fail` tells (`Behind`), and that all tests so far passed or `any_fail` or the totals tell (`Told`), but for those that threw alone (`Alone`). A
  single test's status ignores exceptions; the proof needs that such a test is run in the tool's own process and
  cannot die without ending it, and that exceptions of earlier libraries are in `any_fail` already. The statement excepts a test alone that ends the tool with `exit(0)` or the alarm.
- `RunnerToolProofs!OneSuiteIsShown` - `Spec => []ShowsOneSuite`. `Counted`: the totals are as many as the tests that did not pass, over all
  libraries; `Stages`: how much of the one suite has been shown at each `pc`.
- `RunnerToolProofs!ToolTypes` - `Spec => []TypeOK`. It adds `Loops`, what `pc` says of the index, and that `todo` holds tests that were discovered.
- `RunnerToolProofs!SuitesStayTogether` - `Spec => []RunsBySuite`. `PastInv` says that only libraries up to the index have run tests; while one is
  running, the tests left are themselves together by context and sorted (`Together`), and may follow those that were run (`Follows`).
- `RunnerToolProofs!TheSelectionIsRun` - `LiteralsAreNames` implies `Spec => []RunsTheSelection`. While a library is running, what it has run and what is left
  are the tests wanted, without repetition (`HalfWay`); a bijection turns that into the two cardinalities. The hypothesis is
  needed: `WildcardForOne` is the counterexample.
  `RunsBySuite` and `RunsTheSelection` rest on the lemmas at the head of the module: that the result of the selection sort is sorted and has the same items (`SortedIs`), that
  `Kept` keeps the items of a set in their order (`KeptIs`), that grouping by context gives one suite for each context with its items in order (`GroupingIs`),
  and that the walk over these suites is together and sorted (`WalkIs`).
- `Induction` is what these and other proofs say of recursion. The library's induction theorems cannot be used, as they take an operator;
  instead `LeastExists`, the least number principle, is proved from the library's `NatLessThanWellFounded` and `WFMin`, which take none, and from it `Stepwise` (induction for a set
  of numbers) and `RecursionExists` (a function that a recursive definition chooses exists).
- `MocksProofs!MocksTypeCorrect` - `Spec => []TypeOK`, with lemmas on looking up and removing
  from the queue and on finite sets of constraints.
- `MocksProofs!UnlimitedStaysLast` - `TimesAreSmall` implies `Spec => []NothingBehindUnlimited`. The
  strengthening is `LivesAreSmall`: the time to live of an expectation is at most `UNLIMITED_TIME_TO_LIVE`, so that
  counting down never reaches the mark for always. `TimesAreSmall` (no `times(n)` beyond it) is needed:
  a larger n becomes "always" on its way down.

- `MocksProofs!CountersStayTogether` - `Spec => []CountersAgree`. `Agrees` is the property of one expectation; an
  answered call takes one from the time to live and adds the number of `times()` to the calls, and those are one by the property's condition.
  A test that has failed is excused, which `AgreeInv` keeps because nothing takes a failure back.
- `MocksProofs!PassingTestsMadeTheirCalls` - `TimesAreCalls` implies `Spec => []ExactCalls`, which is about strict mocks: learning ones accept calls nobody declared, and loose ones are to accept both. The debt of a function is the number of calls that the limited
  expectations of it in the queue wait for, counted as a set of pairs (`Owing`), as long as nothing has failed; a tally without failure leaves no limited expectation. `TimesAreCalls` (each
  list has at most one `times(n)`, with n at least 1 and less than the mark for always) is needed: `times(0)` accepts a call nobody declared, and two
  `times()` in one list count each call twice, so that both are satisfied too early.
- `MocksProofs!MocksKeepTheContract` - `TimesAreCalls` and `"loose" \notin Modes` imply `Spec => ImplementsContract` (with loose mocks the run `LooseMocks` refutes it): the refinement of `MocksContract`. The invariants are `QueueInv` (types, `NothingBehindUnlimited`) and
  `DebtInv`, that of `PassingTestsMadeTheirCalls`. The mapping is `Owed` (the calls of a function that its limited expectations in the queue wait for, in order; a recursive function) and `LastOf`; the
  lemmas say what both are when an expectation is appended, when one is removed or counted down, and that nothing changes for the other functions. The expectation that `Find` returns is the first
  of its function, and as the queue holds none that is spent (`NoneIsSpent`), answering a call takes exactly one from the front of `Owed`. Nothing follows an unlimited expectation, so that
  there `Owed` is empty and the last word answers. `times(0)` and two `times()` in one list are excluded for the reasons above. The proof found one assumption missing in `Mocks`, `Values # {}`: a call that
  fails for its expectation's misspelt parameter looks at no argument, the contract's call has some.
- `ReportedRunProofs!CountedIsSeen` - `IsTree(depth, height)` implies `ReportSpec => []NothingCountedUnseen`. `IsTree` says that the suites form a finite tree: a test or suite has one owner,
  which is less deep; TLC evaluates it in `MCReportedRun` (`MixedAssumption`). `Path` is recursive, and `PathIs` resolves it in such a tree. The invariant is that of `TestRun` (`RunInv`), `AtPath` (the trail
  is the `Path` of the walk) and `SeenInv`: a failure or an exception waits in no buffer of either process, and the terminal has at least as many lines on failures and on exceptions as were sent or are due to
  incomplete tests, and, test by test, exactly one for each failure it showed. What is counted is in the pipe, the counters or the totals by `Conservation`. A failure is shown before it is sent, so that a process
  killed between the two leaves a line too many, never one too few; without the `fflush()` of `show_fail()` the line would be lost with the process.
- `ReportedRunProofs!LastLineAddsUp` - `IsTree(depth, height)` implies `ReportSpec => []LinesAddUp`. `AddsInv` adds that the totals are the sum of the lines on finished suites, on the terminal and in
  the main process's buffer together, and that a run which ends with an exit status has written its last line. The child's buffer is always empty by `SeenInv`: the `fflush(NULL)` before `fork()` keeps
  a suite's line from being written twice.
- `ReportedRunProofs!VerdictsStandInPlace` - `ReportSpec => []CuteBlocks`, without hypotheses. `Blocked` says of a sequence of lines what `CuteBlocks` says of the stream, and the lemmas on it what
  lines of one test, put at the end, leave of it. `CuteInv` needs more than `Blocked` of the file and the main process's buffer together: between the start of a test and its end the stream is within the
  block of this test (`Open`); and from `fork()` to `wait()` the main process has nothing unwritten, while the child's buffer holds lines of its own test only. So the parts that a dying child leaves of
  its buffer may come at any time: nobody else has a line to write. It rests on `WaitOK` of `TestRun` (only the test under way is alive) and on the `fflush(NULL)` before `fork()`.
- `ReportedRunProofs!EveryAssertionHasItsRecord` - `Listed(subs, own)` (`IsWalk`, and each test in one place of the tree) implies `ReportSpec => []CdashRecords`. `Sheet` is what Test.xml will hold, the file and the
  main process's buffer. `CdashInv` says of each test what is on the sheet: nothing before the test begins; while its process lives, the file with that process's own buffer has one record for each result it showed, in
  order; and when the process has left by `exit()`, the sheet has them, and one more once the test was reported as incomplete. The hypothesis makes a test that begins one that never began (`StartsFresh`), and one that is
  reported one that was not (`ReportedOnce`): a test in two suites would have the records of both. `StatusesOf` is recursive; `StatusesConcat` says that it distributes over files and buffers put together. A killed process is
  excluded by the property, as its buffer is lost. TLC evaluates the hypothesis for the tree of the runs (`MixedAssumption`).
- `AssertionsProofs!MisuseIsNeverSilent` - `Spec => []NoSilentMisuse`, whatever the bits of a value of another type compare to. Misuse is a constraint for doubles on another value, the
  reverse, and constraints that capture or compare nothing; a string constraint on an integer, which only the compiler could tell, is not covered.
- `AssertionsProofs!NegationsDiffer` - `Spec => []OppositesDiffer` for all values, sizes and figures. It assumes
  `ChecksAreRecords`: every constraint in `Checks` is a record with the fields of its type, which constructors make. The invariant of both is
  `Remembered`: what is kept of a check is what an assertion may report of it with the figures of that moment.
- `AssertionsProofs!ChecksAgree` - `CallsAreWellSpelt`, `IntegersAreNumbers`, `DoublesAreNumbers` and `OlderStyle` imply `Spec => []AllWaysAgree`. `CallIsRead` is its main
  lemma: the names, marks and number that a mock reads from a well-spelt text of any length are those of the arguments, so that the constraint meets the value it was
  declared for, boxed as it is. It rests on `OrderIsUnique`, for the words are numbered from left to right in one way only, and on a count of the commas. TLC evaluates
  `CallsAreWellSpelt` in `MCAssertions` (`CallsAssumption`). A text is well spelt only if no argument that stands bare has a name that begins with `box_double` (`BoxLike`), for
  `parameters.c:79` takes it for a boxed one. For the older style the proof shows that two numbers which `intptr_t` can hold compare in their common type as they do in `intptr_t`,
  unless they are an int and an unsigned int, whose common type is narrower. The widths are any (`WidthAssumption`).
- `AssertionsProofs!DoublesAreOrdered` - `DoublesInRange` and `Figures \subseteq Nat` imply `Spec => []DoublesOrdered`. `AccuracyGrows`: the accuracy grows with the
  magnitude it is computed from, so that doubles further apart than the one for their larger magnitude are further apart than the others. It assumes of powers only
  `PowersAssumption`, which TLC evaluates.

Every invariant and refinement of `TestRun`, `TestRunModes`, `Mocks`, `Assertions` and `RunnerTool` that a run checks is thus a theorem, under the hypotheses named. Only model-checked are:

- `RunEnds` and `ReportEnds`: liveness under fairness, and ENABLED, are out of the prover's reach.
- `OutcomeIsTrue` and `SuccessIsEarned` of `TestRun` and `TestRunModes` outside of the hypotheses: fixtures where SIGPIPE is handled, and another child of the runner.
- `CuteVerdicts`, `XmlTells` and `LibxmlTells` of `ReportedRun`. A proof of `CuteVerdicts` would need, beside the invariants above, that the pipe never is full and what the pipe and the
  counters hold of the test under way. `XmlTells` and `LibxmlTells` compare files that are rewritten in place, where a proof would have to say what is left of each piece.
- `ImplementsContract` of `Mocks`, `ExactCalls` and `NothingBehindUnlimited` outside of the hypotheses on `times()`.

The only RECURSIVE operators are `Visited` of `MCTestRun` and `MCTestRunModes`,
which TLC evaluates; `HasTest`, `Owed`, `Path`, `AddedUp`, `StatusesOf` and the loops of `RunnerTool` are recursive functions.

## Plan

1. `TestRun` with its contract and its other modes - done; all invariants and the refinement proved, those of the other modes, too.
2. `Mocks` with its contract, results, captures and effects - done; all invariants and the refinement proved.
3. The reporters and `ReportedRun` - done; the invariants of the text and CDash reporters and the order of lines of the CUTE reporter proved.
4. `Constraints`, `ParameterNames`, `Assertions` - done; all invariants proved.
5. `RunnerTool` - done; all invariants proved.
6. Proofs left: `CuteVerdicts`, and the invariants of `ReportedRun` on the XML reporters.
7. `TestLifecycle`: `run_the_test_code()` in detail, composing fixtures of suite and context, mocks, side
   effects that call mocks, nested runs, and what is left over between tests of one process.

## Not modelled

- Windows (`win32_*.c`): another implementation of the same promises; a test is a new program there.
- The C++ wrappers and overloads: they call the C functions. That a test's exceptions are caught is in `TestRun`.
- The memory pool (`memory.c`), which no build file names, and the growth of vectors.
- The discovery of tests from the output of `nm`, the parsing of options and patterns, durations, colours, the wording of messages, names of files and directories, failures to create them.
- A setup of the suite with a teardown of the context, which are chosen independently (`runner.c:401`); nested runs, which
  replace the reporter that assertions look for (`reporter.c:38`).

Places where the code does something a user may not expect, that no property here is about:

- `posix_runner_platform.c:102`: without fork the alarm's `stop()` ends the whole runner with `EXIT_SUCCESS`. `Alarm` has it; `OtherModes` sets no timeout.
- `runner.c:58`: `run_single_test()` ignores exceptions in its status; `Verdict` has it. In `OtherModes` the tests it runs
  do not throw or call `exit()`, and one that is killed takes the runner with it.
- `mocks.c:431`: `times(0)` accepts one call, against the guide (1847), and several `times()` in one expectation count each call
  several times (`mocks.c:804`). The lists of `MCMocks` have neither.
- `mocks.c:262`: content setters run although an earlier comparison failed. `response` shows it, `MocksContract` leaves open what is set then.
- `mocks.c:89`: the mode stays in force for the next tests of a process that does not fork. `SetMode` and `NextTest` have it.
- `mocks.c:683`: learned mocks are printed by the tally only, so a test that dies loses them.
- `mocks.c:280`: a side effect that calls the same mock can free the expectation the outer call is using.
- `message_formatting.c:240`: percent signs, doubled for the last expansion of a message, are doubled twice in the checked
  expression of a string constraint and not at all in the expected expression of any other.
- `xml_reporter.c:176`: temporary files of the tests are never closed in the main process.
- `xml_reporter.c:181` and `libxml_reporter.c:432`: a failing setup or teardown of a suite is shown when no test is open. The models have the crash; no property forbids it.
- `libxml_reporter.c:187`: a restricted character makes the escaping loop. The model has it (`hung`); without a time limit the run does not end. In a suite's fixture it hangs the main process.
- `libxml_reporter.c:380`: the error of an exception that a test caught is put into the child's copy of the tree and is in no file; only the suite's counters tell of it. `LibxmlTells` says so.
- `parameters.c:79` and `:96`: a name that begins with `box_double` is taken for a boxed value, and a cast with blanks is split in the wrong place. The model has the first (`BoxLike`).
- `posix_runner_platform.c:100`: with `CGREEN_CHILD_EXIT_WITH__EXIT` (guide, 3171) a child leaves through `_exit()`, which loses
  what stdio holds, the records of the CDash reporter among it, and runs no exit handlers. The models have `exit()`.
