------------------------------ MODULE RunnerTool ------------------------------
(***************************************************************************)
(* One run of cgreen-runner: the command line is split into libraries and  *)
(* patterns, and for each library its tests are discovered, sorted,        *)
(* selected, put into one suite per context and run, all with one reporter.*)
(***************************************************************************)
EXTENDS Naturals, Sequences, FiniteSets, SequencesExt

CONSTANTS
  CommandLines, \* the argument lists a user may type, without options
  Files,        \* the arguments that are names of files
  Content,      \* the tests nm finds in each file: their context and name
  Unloadable,   \* the files dlopen() refuses
  Unresolved,   \* the tests dlsym() does not find
  Patterns,     \* what each other argument selects when taken as a pattern
  Outcomes      \* how a test may end: "exits" is exit(0), or the alarm of
                \* CGREEN_PER_TEST_TIMEOUT; "throws" is a C++ exception, caught

None  == [contexts |-> {}, names |-> {}, literal |-> 0] \* no pattern was given
Items == UNION {Range(Content[f]) : f \in Files}

\* names are numbers in the order of strcmp(); a pattern's literal is the name
\* its text after the colon spells, 0 if it spells the name of no test
ASSUME ToolAssumption ==
  /\ \A t \in Items : t = [context |-> t.context, name |-> t.name] /\ t.name \in Nat \ {0}
  /\ \A f \in Files : Content[f] \in Seq(Items) /\ IsInjective(Content[f])
  /\ Unloadable \subseteq Files /\ Unresolved \subseteq Items
  /\ CommandLines \subseteq Seq(Files \cup DOMAIN Patterns)
  /\ Outcomes \subseteq {"pass", "fail", "dies", "exits", "throws"}

VARIABLES
  args, options, \* argv and the options: --suite, an XML reporter, --no-run
  pc,            \* what main() is doing
  next,          \* the index of its loops
  libraries,     \* libraries[] with testname[]
  todo,          \* the tests of the library that are still to be run
  single,        \* the library is run by run_single_test()
  total,         \* reporter->total_failures, total_exceptions
  anyFail,       \* any_fail
  exit,          \* how the tool ended
  ran,           \* history: the tests run, of which library and how they ended
  shown          \* history: the messages about suites on stdout

vars == <<args, options, pc, next, libraries, todo, single, total, anyFail, exit, ran, shown>>
-----------------------------------------------------------------------------
(* Discovering, sorting and selecting                                      *)

Smallest(items) ==
  CHOOSE i \in DOMAIN items : \A j \in DOMAIN items :
    \/ items[i].name < items[j].name
    \/ items[i].name = items[j].name /\ i <= j

\* selection sort by test name; the context does not count
SortedTestItems(items) ==
  LET step[n \in 0..Len(items)] ==
        IF n = 0 THEN [left |-> items, sorted |-> <<>>]
        ELSE LET i == Smallest(step[n-1].left)
             IN  [left   |-> RemoveAt(step[n-1].left, i),
                  sorted |-> Append(step[n-1].sorted, step[n-1].left[i])]
  IN step[Len(items)].sorted

\* mutant: the context of the pattern is forgotten
BugMatches(pattern, t) == t.name \in pattern.names
Matches(pattern, t) == t.context \in pattern.contexts /\ t.name \in pattern.names

\* the items that are in S, in order (TLAPS has no facts about SelectSeq)
Kept(items, S) ==
  LET kept[n \in 0..Len(items)] ==
        IF n = 0 THEN <<>>
        ELSE IF items[n] \in S THEN Append(kept[n-1], items[n]) ELSE kept[n-1]
  IN kept[Len(items)]

\* the tests of a library that its pattern selects
Selection(l) ==
  Kept(SortedTestItems(Content[l.file]),
       {t \in Items : l.pattern = None \/ Matches(l.pattern, t)})

\* mutant: every test gets a suite of its own
BugAddTestToContext(suites, t) == Append(suites, [context |-> t.context, tests |-> <<t>>])
AddTestToContext(suites, t) ==
  IF \E i \in DOMAIN suites : suites[i].context = t.context
  THEN [i \in DOMAIN suites |-> IF suites[i].context # t.context THEN suites[i]
                                 ELSE [suites[i] EXCEPT !.tests = Append(@, t)]]
  ELSE Append(suites, [context |-> t.context, tests |-> <<t>>])

\* the suites built for the tests selected, and the walk over them
SuitesOf(items) ==
  LET suites[n \in 0..Len(items)] ==
        IF n = 0 THEN <<>> ELSE AddTestToContext(suites[n-1], items[n])
  IN suites[Len(items)]

Walk(items) ==
  LET suites == SuitesOf(items) IN FlattenSeq([i \in DOMAIN suites |-> suites[i].tests])

Named(items, name) == Kept(items, {t \in Items : t.name = name})
-----------------------------------------------------------------------------
(* The command line                                                        *)

Init ==
  /\ args \in CommandLines
  /\ options \in [suite : BOOLEAN, xml : BOOLEAN, norun : BOOLEAN]
  /\ pc = "arguments"
  /\ next = 1
  /\ libraries = <<>>
  /\ todo = <<>>
  /\ single = FALSE
  /\ total = [failures |-> 0, exceptions |-> 0]
  /\ anyFail = FALSE
  /\ exit = "running"
  /\ ran = <<>>
  /\ shown = <<>>

Common == options.suite /\ ~options.xml \* one suite name over all libraries, as text

Usage ==
  /\ pc = "arguments" /\ args = <<>>
  /\ pc' = "exited" /\ exit' = "failure"
  /\ UNCHANGED <<args, options, next, libraries, todo, single, total, anyFail, ran, shown>>

\* an argument after a library is its pattern unless it is the name of a file;
\* no file has the name argv[argc], which is NULL and passes for no pattern
ReadLibrary ==
  LET named == next + 1 <= Len(args) /\ args[next + 1] \notin Files
      file  == next + 1 <= Len(args) /\ args[next + 1] \in Files
  IN
  /\ pc = "arguments" /\ next <= Len(args)
  /\ libraries' = Append(libraries,
       [file |-> args[next], pattern |-> IF named THEN Patterns[args[next + 1]] ELSE None])
  /\ next' = IF file THEN next + 1 ELSE next + 2
  /\ UNCHANGED <<args, options, pc, todo, single, total, anyFail, exit, ran, shown>>

\* mutant: the index of the first loop is used on
BugStartLibraries ==
  /\ pc = "arguments" /\ args # <<>> /\ next > Len(args)
  /\ pc' = "library" /\ next' = next
  /\ IF Common
     THEN /\ anyFail' = \E j \in DOMAIN libraries : libraries[j].file \notin Files
          /\ shown' = <<[text |-> "header", total |-> total]>>
     ELSE UNCHANGED <<anyFail, shown>>
  /\ UNCHANGED <<args, options, libraries, todo, single, total, exit, ran>>

StartLibraries ==
  /\ pc = "arguments" /\ args # <<>> /\ next > Len(args)
  /\ pc' = "library" /\ next' = 1
  /\ IF Common
     THEN /\ anyFail' = \E j \in DOMAIN libraries : libraries[j].file \notin Files
          /\ shown' = <<[text |-> "header", total |-> total]>>
     ELSE UNCHANGED <<anyFail, shown>>
  /\ UNCHANGED <<args, options, libraries, todo, single, total, exit, ran>>
-----------------------------------------------------------------------------
(* The loop over the libraries                                             *)

Library == libraries[next]
AtLibrary == pc = "library" /\ next <= Len(libraries)

\* mutant: the last library decides
BugNextLibrary(fail) ==
  /\ pc' = "library" /\ next' = next + 1
  /\ anyFail' = fail

NextLibrary(fail) ==
  /\ pc' = "library" /\ next' = next + 1
  /\ anyFail' = (anyFail \/ fail)

\* the loop is left
MissingLibrary ==
  /\ AtLibrary /\ Library.file \notin Files
  /\ anyFail' = TRUE
  /\ next' = Len(libraries) + 1
  /\ UNCHANGED <<args, options, pc, libraries, todo, single, total, exit, ran, shown>>

Usable(f) == Content[f] # <<>> /\ f \notin Unloadable

UnusableLibrary ==
  /\ AtLibrary /\ Library.file \in Files
  /\ ~Usable(Library.file)
  /\ NextLibrary(TRUE)
  /\ UNCHANGED <<args, options, libraries, todo, single, total, exit, ran, shown>>

DontRun ==
  /\ AtLibrary /\ Library.file \in Files /\ Usable(Library.file)
  /\ options.norun
  /\ NextLibrary(FALSE)
  /\ UNCHANGED <<args, options, libraries, todo, single, total, exit, ran, shown>>

AtRun == AtLibrary /\ Library.file \in Files /\ Usable(Library.file) /\ ~options.norun

NothingToRun ==
  /\ AtRun
  /\ Selection(Library) = <<>> \/ Range(Selection(Library)) \cap Unresolved # {}
  /\ NextLibrary(TRUE)
  /\ UNCHANGED <<args, options, libraries, todo, single, total, exit, ran, shown>>

Show(text, inhibited) ==
  shown' = IF options.xml \/ inhibited THEN shown
                                       ELSE Append(shown, [text |-> text, total |-> total])

\* a pattern that selects exactly one test is taken for the name of it
StartRun ==
  LET selected == Selection(Library)
      one == Library.pattern # None /\ Len(selected) = 1
  IN
  /\ AtRun
  /\ selected # <<>> /\ Range(selected) \cap Unresolved = {}
  /\ pc' = "running"
  /\ single' = one
  /\ todo' = IF one THEN Named(Walk(selected), Library.pattern.literal) ELSE Walk(selected)
  /\ Show("running", Common)
  /\ UNCHANGED <<args, options, next, libraries, total, anyFail, exit, ran>>

\* a single test is run in the process of the tool, and may take it down
RunTest(how) ==
  /\ pc = "running" /\ todo # <<>>
  /\ todo' = Tail(todo)
  /\ ran' = Append(ran, [library |-> next, test |-> Head(todo), how |-> how])
  /\ IF single /\ how \in {"dies", "exits"}
     THEN pc' = "exited" /\ exit' = (IF how = "exits" THEN "success" ELSE "died") /\ UNCHANGED total
     ELSE /\ total' = CASE how = "pass" -> total
                        [] how = "fail" -> [total EXCEPT !.failures = @ + 1]
                        [] OTHER        -> [total EXCEPT !.exceptions = @ + 1]
          /\ UNCHANGED <<pc, exit>>
  /\ UNCHANGED <<args, options, next, libraries, single, anyFail, shown>>

Failed == total.failures > 0 \/ (~single /\ total.exceptions > 0)

\* mutant: the totals are of the last library
BugFinishRun ==
  /\ pc = "running" /\ todo = <<>>
  /\ NextLibrary(Failed)
  /\ Show("completed", Common /\ next < Len(libraries))
  /\ total' = [failures |-> 0, exceptions |-> 0]
  /\ UNCHANGED <<args, options, libraries, todo, single, exit, ran>>

FinishRun ==
  /\ pc = "running" /\ todo = <<>>
  /\ NextLibrary(Failed)
  /\ Show("completed", Common /\ next < Len(libraries))
  /\ UNCHANGED <<args, options, libraries, todo, single, total, exit, ran>>

Exit ==
  /\ pc = "library" /\ next > Len(libraries)
  /\ pc' = "exited"
  /\ exit' = IF anyFail THEN "failure" ELSE "success"
  /\ UNCHANGED <<args, options, next, libraries, todo, single, total, anyFail, ran, shown>>

Next ==
  \/ Usage \/ ReadLibrary \/ StartLibraries
  \/ MissingLibrary \/ UnusableLibrary \/ DontRun \/ NothingToRun
  \/ StartRun \/ FinishRun \/ Exit
  \/ \E how \in Outcomes : RunTest(how)
  \/ pc = "exited" /\ UNCHANGED vars

Spec == Init /\ [][Next]_vars
-----------------------------------------------------------------------------
(* What makes the tool correct                                             *)

TypeOK ==
  /\ args \in CommandLines
  /\ options \in [suite : BOOLEAN, xml : BOOLEAN, norun : BOOLEAN]
  /\ pc \in {"arguments", "library", "running", "exited"}
  /\ next \in 1..(IF pc = "arguments" THEN Len(args) + 2 ELSE Len(libraries) + 1)
  /\ \A j \in DOMAIN libraries : /\ libraries[j].file \in Range(args)
                                 /\ libraries[j].pattern \in {None} \cup Range(Patterns)
  /\ todo \in Seq(Items) /\ single \in BOOLEAN
  /\ total \in [failures : Nat, exceptions : Nat]
  /\ anyFail \in BOOLEAN
  /\ exit \in {"running", "success", "failure", "died"}
  /\ ran \in Seq([library : Nat, test : Items, how : Outcomes])
  /\ shown \in Seq([text : {"header", "running", "completed"},
                    total : [failures : Nat, exceptions : Nat]])

Wanted(l) == {t \in Range(Content[l.file]) :
                l.pattern = None \/ (t.context \in l.pattern.contexts /\ t.name \in l.pattern.names)}
Bad      == {j \in DOMAIN ran : ran[j].how # "pass"}
Alone(j) == LET l == libraries[ran[j].library] IN l.pattern # None /\ Len(Selection(l)) = 1
RanOf(l) == {j \in DOMAIN ran : ran[j].library = l}
Served(l) == /\ l.file \in Files /\ Usable(l.file)
             /\ options.norun \/ Selection(l) # <<>>

\* a pattern that selects one test of a library spells the name of that test;
\* where it does not, run_single_test() is given a name that no test has
LiteralsAreNames ==
  \A f \in Files, p \in Range(Patterns) \ {None}, t \in Items :
    Usable(f) /\ Wanted([file |-> f, pattern |-> p]) = {t} => p.literal = t.name


(* When the tool is through with a library that can be used, it has run    *)
(* every test the pattern selects, once, and no other (guide, "Selecting   *)
(* Tests To Run"; runner.c:126, 189).                                      *)
RunsTheSelection ==
  \A l \in DOMAIN libraries :
    LET lib      == libraries[l]
        passed   == next > l /\ (pc = "library" \/ exit \in {"success", "failure"})
        reached  == \A j \in 1..l : libraries[j].file \in Files
        runnable == Usable(lib.file) /\ ~options.norun /\ Wanted(lib) \cap Unresolved = {}
    IN  /\ passed /\ reached /\ runnable => /\ {ran[j].test : j \in RanOf(l)} = Wanted(lib)
                                           /\ Cardinality(RanOf(l)) = Cardinality(Wanted(lib))
        /\ ~reached \/ ~runnable => RanOf(l) = {}

(* Tests of one context run together, sorted by name: each context of a    *)
(* library is one suite (runner.c:126, 239).                               *)
RunsBySuite ==
  \A i, k \in DOMAIN ran :
    i < k /\ ran[i].library = ran[k].library /\ ran[i].test.context = ran[k].test.context
      => /\ ran[i].test.name < ran[k].test.name
         /\ \A j \in i..k : ran[j].test.context = ran[i].test.context

(* EXIT_SUCCESS means that every library was there and could be used, that *)
(* its pattern selected something, and that no test of any library failed  *)
(* (cgreen-runner.c:351), with the two exceptions of a test that is run    *)
(* alone in the process of the tool: if it calls exit(0) or runs into the  *)
(* alarm, that ends the tool (posix_runner_platform.c:102), and            *)
(* run_single_test() does not look at exceptions (runner.c:58).            *)
ExitIsEarned ==
  exit = "success" =>
    \/ ran # <<>> /\ Alone(Len(ran)) /\ ran[Len(ran)].how = "exits"
    \/ /\ \A j \in Bad : Alone(j) /\ ran[j].how = "throws"
       /\ \A j \in DOMAIN libraries : Served(libraries[j])

(* With --suite the libraries show as one suite: one header, no start of   *)
(* another, at most one completion, which comes after every test and tells *)
(* the failures of all libraries (cgreen-runner.c:212).                    *)
ShowsOneSuite ==
  Common =>
    /\ Len(shown) <= 2
    /\ \A j \in DOMAIN shown : shown[j].text = (IF j = 1 THEN "header" ELSE "completed")
    /\ Len(shown) = 2 =>
         /\ next > Len(libraries)
         /\ shown[2].total.failures + shown[2].total.exceptions = Cardinality(Bad)
=============================================================================
