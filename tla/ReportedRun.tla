----------------------------- MODULE ReportedRun -----------------------------
(***************************************************************************)
(* A forked run of the tests (TestRun) with one of the reporters: every    *)
(* step of the run that calls the reporter takes the reporter's state in   *)
(* the calling process to the next. fork() gives the test a copy of the    *)
(* reporter's memory; files are shared; exit() writes what stdio holds and *)
(* a signal does not. The pipe has room for all messages, fork() succeeds, *)
(* nobody hits ctrl-C, and tests do not call skip_test(): TestRun is about *)
(* those. So the completion of a suite always arrives, and the suites of   *)
(* the CUTE and CDash reporters, which end with reporter_finish_test(),    *)
(* end as with reporter_finish_suite().                                    *)
(***************************************************************************)
EXTENDS TestRun

CONSTANTS
  Reporters,  \* of "text", "quiet", "cute", "cdash", "xml", "libxml"
  Messages,   \* of failures, as sequences of classes of characters
  XmlSize,    \* XmlReporter: the length of an element
  BufferSize, \* LibxmlReporter: the size of childData
  TagSize,    \* LibxmlReporter: the length of an element without its message
  MaxNested   \* LibxmlReporter: NESTED_SUITE_MAX

ASSUME ReportAssumption ==
  /\ Fork /\ ~Single /\ ~ForkMayFail /\ ~Helper /\ ExitHandlers = {} /\ Skippers = {}
  /\ MaxInterrupts = 0 /\ Capacity > MaxResults
  /\ Reporters \subseteq {"text", "quiet", "cute", "cdash", "xml", "libxml"}
  /\ MaxNested \in Nat \ {0}

VARIABLES
  kind,    \* the reporter of the run
  parent,  \* the reporter's state in the main process
  child,   \* its copy in the test under way
  file,    \* what reached the terminal or the files
  shown    \* history: what each test reported, whether or not it was sent

output   == <<kind, parent, child, file, shown>>
allvars  == <<vars, output>>

Verbose == INSTANCE TextReporter WITH quiet_mode <- FALSE
Quiet   == INSTANCE TextReporter WITH quiet_mode <- TRUE
Cute    == INSTANCE CuteReporter
Cdash   == INSTANCE CdashReporter
Xml     == INSTANCE XmlReporter WITH Size <- XmlSize
Libxml  == INSTANCE LibxmlReporter
Seqs    == INSTANCE SequencesExt
-----------------------------------------------------------------------------
(* The reporter of the run                                                 *)

LastOf(s)    == s[Len(s)]
Wrong(c)     == c["fail"] + c["exception"]

\* an element of a report on test t or on the suite whose fixture failed
Item(what, n, message) ==
  IF kind = "xml" THEN [kind |-> what, id |-> n] ELSE Libxml!Element(what, n, message)

Flushed(st) ==
  CASE kind \in {"text", "quiet"} -> Verbose!Flush(st)
    [] kind = "cute"   -> Cute!Flush(st)
    [] kind = "cdash"  -> Cdash!Flush(st)
    [] kind = "xml"    -> Xml!Flush(st)
    [] kind = "libxml" -> Libxml!Flush(st)

\* what a killed process may leave in the files
Remains(st) ==
  CASE kind \in {"text", "quiet"} -> Verbose!Killed(st)
    [] kind = "cute"   -> Cute!Killed(st)
    [] kind = "cdash"  -> Cdash!Killed(st)
    [] kind = "xml"    -> Xml!Killed(st)
    [] kind = "libxml" -> Libxml!Killed(st)

SuiteStarted(st, path) ==
  CASE kind = "text"   -> Verbose!start_suite(st, path)
    [] kind = "quiet"  -> Quiet!start_suite(st, path)
    [] kind = "cute"   -> Cute!start_suite(st, LastOf(path))
    [] kind = "cdash"  -> st
    [] kind = "xml"    -> Xml!start_suite(st, LastOf(path))
    [] kind = "libxml" -> Libxml!start_suite(st, LastOf(path))

TestStarted(st, t) ==
  CASE kind = "cute"   -> Cute!start_test(st, t, Wrong(counters))
    [] kind = "xml"    -> Xml!start_test(st, t)
    [] kind = "libxml" -> Libxml!start_test(st, t)
    [] OTHER           -> st

\* assert_true() calls show_pass() or show_fail(); who is the last name on the
\* trail and n counts the results of the test
Shown(st, path, r, n, message) ==
  IF r = "pass" THEN {IF kind = "cdash" THEN Cdash!show_pass(st, LastOf(path)) ELSE st}
  ELSE CASE kind \in {"text", "quiet"} -> {Verbose!show(st, "failure", path)}
         [] kind = "cute"   -> {Cute!show_fail(st, LastOf(path))}
         [] kind = "cdash"  -> {Cdash!show_fail(st, LastOf(path))}
         [] kind = "xml"    -> {Xml!show(st, Item("failure", n, message))}
         [] kind = "libxml" -> Libxml!show(st, Item("failure", n, message))

IncompleteShown(st, path, n) ==
  CASE kind \in {"text", "quiet"} -> Verbose!show(st, "exception", path)
    [] kind = "cute"   -> Cute!failed_to_complete(st, LastOf(path))
    [] kind = "cdash"  -> Cdash!show_incomplete(st, LastOf(path))
    [] kind = "xml"    -> Xml!show(st, Item("error", n, <<>>))
    [] kind = "libxml" -> Libxml!show_incomplete(st)

SkipShown(st) ==
  CASE kind = "xml"    -> Xml!show(st, Item("skipped", 0, <<>>))
    [] kind = "libxml" -> CHOOSE s \in Libxml!show(st, Item("skipped", 0, <<>>)) : TRUE
    [] OTHER           -> st

\* reporter_finish_test() and what the reporter adds to it
TestFinished(st, path, how, sums) ==
  LET s == CASE how = "skipped"   -> SkipShown(st)
             [] how = "completed" -> st
             [] OTHER             -> IncompleteShown(st, path, 0)
  IN  CASE kind = "cute"   -> Cute!finish_test(s, LastOf(path), Wrong(sums))
        [] kind = "xml"    -> Xml!finish_test(s)
        [] kind = "libxml" -> Libxml!finish_test(s)
        [] OTHER           -> s

SuiteFinished(st, path, sums, totals) ==
  CASE kind = "text"   -> Verbose!finish_suite(st, path, sums, totals)
    [] kind = "quiet"  -> Quiet!finish_suite(st, path, sums, totals)
    [] kind = "cute"   -> Cute!finish_suite(st, LastOf(path))
    [] kind = "cdash"  -> st
    [] kind = "xml"    -> Xml!finish_suite(st)
    [] kind = "libxml" -> Libxml!finish_suite(st, sums)
-----------------------------------------------------------------------------
(* The run                                                                 *)

Parent == [own |-> parent, file |-> file]
Child  == [own |-> child, file |-> file]
InParent(st) == parent' = st.own /\ file' = st.file
InChild(st)  == child' = st.own /\ file' = st.file

Crashed(own) == kind \in {"xml", "libxml"} /\ own.crashed
Hung(own)    == kind = "libxml" /\ own.hung
Silent       == UNCHANGED output

\* setup_reporting() and start_suite() of the root
Begin ==
  \E r \in Reporters, previous \in BOOLEAN :
    LET st == CASE r \in {"text", "quiet"} -> Verbose!create
                [] r = "cute"   -> Cute!create(previous)
                [] r = "cdash"  -> Cdash!create
                [] r = "xml"    -> Xml!create
                [] r = "libxml" -> Libxml!create
    IN  /\ r # "cute" => ~previous
        /\ kind = r
        /\ parent = SuiteStarted(st, <<Root>>).own
        /\ child = parent
        /\ file = SuiteStarted(st, <<Root>>).file

\* a signal ends the main process in the reporter
MainCrashes ==
  /\ Stop("signalled")
  /\ trouble' = trouble \cup {<<Main, "died">>}
  /\ UNCHANGED <<book, procs, pipe, sent>>

StartsSuite ==
  LET st == SuiteStarted(Parent, Append(trail, Entry))
  IN  /\ pc = "setup"
      /\ IF Crashed(st.own) THEN MainCrashes ELSE StartSubSuite
      /\ InParent(st)
      /\ UNCHANGED <<kind, child, shown>>

SkipsTest ==
  /\ SkipTest
  /\ InParent(TestStarted(Parent, Entry))
  /\ UNCHANGED <<kind, child, shown>>

\* fflush(NULL) and fork()
Forks ==
  /\ RunTest
  /\ InParent(Flushed(TestStarted(Parent, Entry)))
  /\ child' = parent'
  /\ UNCHANGED <<kind, shown>>

Finishes ==
  /\ FinishTest
  /\ InParent(TestFinished(Parent, trail, Reported, counters'))
  /\ UNCHANGED <<kind, child, shown>>

\* main() returns after the root suite
FinishesSuite ==
  /\ FinishSuite
  /\ LET st == SuiteFinished(Parent, trail, counters', total')
     IN  InParent(IF Len(stack) = 1 THEN Flushed(st) ELSE st)
  /\ UNCHANGED <<kind, child, shown>>

\* a reporter that hangs keeps the main process in finish_test()
MainGoesOn ==
  /\ ~Hung(parent)
  /\ \/ StartsSuite \/ SkipsTest \/ Forks \/ Finishes \/ FinishesSuite
     \/ /\ \/ EnterSubSuite \/ TeardownReturns \/ PassEntry \/ StartOwnTests
           \/ IgnoreCtrlC \/ ReadResult \/ EndSuite
           \/ \E z \in Tests \X Dead : WaitForChild(z)
        /\ Silent

\* an assertion in a setup or teardown of a suite: shown, then sent if the
\* reporter returns
FixtureReports(r, message) ==
  /\ pc \in {"setup", "teardown"} /\ Top.suite \in Fixtures /\ Budget
  /\ ~Hung(parent)
  /\ \E st \in Shown(Parent, trail, r, 0, message) :
       /\ CASE Crashed(st.own) -> MainCrashes
            [] Hung(st.own)    -> UNCHANGED vars
            [] OTHER           -> FixtureAsserts(r)
       /\ InParent(st)
  /\ UNCHANGED <<kind, child, shown>>

Records(t, r, message) ==
  shown' = [shown EXCEPT ![t] = Append(@, [result |-> r, message |-> message])]

\* an assertion in a test: shown, then sent if the reporter returns
TestReports(t, r, message) ==
  /\ code[t] \in Running /\ pc # "stopped" /\ Budget
  /\ ~Hung(child)
  /\ \E st \in Shown(Child, trail, r, Len(shown[t]) + 1, message) :
       /\ IF Hung(st.own) THEN UNCHANGED vars ELSE CodeSends(t, r)
       /\ InChild(st)
  /\ Records(t, r, message)
  /\ UNCHANGED <<kind, parent>>

TestThrows(t) ==
  /\ ~Hung(child)
  /\ CodeThrows(t)
  /\ InChild(IncompleteShown(Child, trail, Len(shown[t]) + 1))
  /\ Records(t, "exception", <<>>)
  /\ UNCHANGED <<kind, parent>>

TestGoesOn(t) ==
  /\ ~Hung(child)
  /\ CodeAdvances(t) \/ CodeCompletes(t)
  /\ Silent

\* the end of the test's process: by exit(), in the test or in stop(), or not
TestExits(t) ==
  /\ (~Hung(child) /\ CodeDies(t, "exited")) \/ Alarm(t) \/ ChildEnds(t, "exited")
  /\ InChild(Flushed(Child))
  /\ UNCHANGED <<kind, parent, shown>>

TestKilled(t, how) ==
  /\ CodeDies(t, how)
  /\ file' \in Remains(Child)
  /\ UNCHANGED <<kind, parent, child, shown>>

\* killed between showing a failure and sending it
TestKilledReporting(t, how, message) ==
  /\ ~Hung(child) /\ Budget
  /\ CodeDies(t, how)
  /\ \E st \in Shown(Child, trail, "fail", Len(shown[t]) + 1, message) :
       ~Hung(st.own) /\ file' \in Remains(st)
  /\ Records(t, "fail", message)
  /\ UNCHANGED <<kind, parent, child>>

Texts == IF kind = "libxml" THEN Messages ELSE {<<>>}
Signals == {"signalled", "aborted"}

TestStep(t) ==
  \/ TestGoesOn(t) \/ TestThrows(t) \/ TestExits(t)
  \/ TestReports(t, "pass", <<>>)
  \/ \E message \in Texts : TestReports(t, "fail", message)
  \/ \E how \in Signals : TestKilled(t, how)
  \/ \E how \in Signals, message \in Texts : TestKilledReporting(t, how, message)

ReportInit == Init /\ Begin /\ shown = [t \in Tests |-> <<>>]

ReportNext ==
  \/ MainGoesOn
  \/ FixtureReports("pass", <<>>)
  \/ \E message \in Texts : FixtureReports("fail", message)
  \/ \E t \in Tests : TestStep(t)
  \/ (pc = "stopped" \/ Hung(parent) \/ Hung(child)) /\ UNCHANGED allvars

ReportSpec == ReportInit /\ [][ReportNext]_allvars
-----------------------------------------------------------------------------
(* What makes a report correct                                             *)

\* the suites and tests are a finite tree: all but the root are an entry of one suite
IsTree(depth, height) ==
  /\ depth \in [Suites \cup Tests -> 0..height]
  /\ \A s \in Suites : \A i \in DOMAIN Entries[s] :
       LET e == Entries[s][i] IN e # Root /\ Owner(e) = s /\ depth[s] < depth[e]
  /\ \A e \in (Suites \cup Tests) \ {Root} :
       \E s \in Suites : \E i \in DOMAIN Entries[s] : Entries[s][i] = e
Path[e \in Suites \cup Tests] == IF e = Root THEN <<e>> ELSE Append(Path[Owner(e)], e)

Done(how)     == {reports[j].test : j \in {i \in DOMAIN reports : reports[i].how \in how}}
Fails(t)      == {i \in DOMAIN shown[t] : shown[t][i].result = "fail"}
Lines(what)   == {i \in DOMAIN file : file[i].line = what}
Told          == kind \in {"text", "quiet"}

(* The user of the text reporter sees every failure and exception that the *)
(* run counts, on the terminal and with the path of its test, even if the  *)
(* process that showed it is killed right after (text_reporter.c:277, 297).*)
NothingCountedUnseen ==
  Told =>
    /\ total["fail"] + Unbooked("fail") <= Cardinality(Lines("failure"))
    /\ total["exception"] + Unbooked("exception") <= Cardinality(Lines("exception"))
    /\ \A t \in Tests :
         Cardinality({i \in Lines("failure") : file[i].path = Path[t]}) = Cardinality(Fails(t))

\* what the lines on suites say of one kind of results
InLine(l, k) == IF l.line = "suite" THEN l.counts[k] ELSE 0
AddedUp(s, k) ==
  LET Up[n \in 0..Len(s)] == IF n = 0 THEN 0 ELSE Up[n - 1] + InLine(s[n], k)
  IN  Up[Len(s)]

(* The line on the whole run adds up those on the suites, and the exit     *)
(* status says the same (text_reporter.c:198, runner.c:44).                *)
LinesAddUp ==
  Told /\ status \in {"success", "failure"} =>
    LET last == file[Len(file)]
    IN  /\ last.line = "completed"
        /\ (status = "success") <=> (Wrong(last.counts) = 0)
        /\ kind = "text" => \A k \in Kinds : last.counts[k] = AddedUp(file, k)

CuteLines == file \o parent.buffer
Says(l, t) == \E i \in DOMAIN CuteLines : CuteLines[i] = [line |-> l, name |-> t]

(* CUTE gets one verdict for every test: success if and only if nothing in *)
(* it failed, and else at least one failure or error, whatever an earlier  *)
(* test left in the memo. Only a failure in a fixture of the suite may     *)
(* take a success away (cute_reporter.c:89, 98, 130, 156).                 *)
CuteVerdicts ==
  kind = "cute" =>
    \A t \in Done({"skipped", "completed", "incomplete", "terminated"}) :
      LET bad == {<<t, "failed">>, <<t, "died">>} \cap trouble # {}
      IN  /\ bad => ~Says("success", t) /\ (Says("failure", t) \/ Says("error", t))
          /\ ~bad => ~Says("failure", t) /\ ~Says("error", t)
          /\ ~bad /\ <<Main, "failed">> \notin trouble => Says("success", t)

(* Each verdict is given between the start of its own test and the next    *)
(* line that starts or ends anything: what the processes write into the    *)
(* same stream does not mix (posix_runner_platform.c:64, 75).              *)
CuteBlocks ==
  kind = "cute" =>
    \A i \in DOMAIN CuteLines :
      CuteLines[i].line \in {"success", "failure", "error"} /\ CuteLines[i].name \in Tests =>
        \E j \in 1..(i - 1) :
          /\ CuteLines[j] = [line |-> "starting", name |-> CuteLines[i].name]
          /\ \A k \in (j + 1)..(i - 1) : CuteLines[k].name = CuteLines[i].name

\* the statuses of the records on n
StatusesOf(s, n) ==
  LET Of[i \in 0..Len(s)] ==
        IF i = 0 THEN <<>>
        ELSE IF s[i].name = n THEN Append(Of[i - 1], s[i].status) ELSE Of[i - 1]
  IN  Of[Len(s)]
\* what a record says of a result, or of a test that did not complete
Status(r) == CASE r = "pass" -> "passed" [] r = "fail" -> "failed" [] OTHER -> "incomplete"
Statuses(t) == [i \in DOMAIN shown[t] |-> Status(shown[t][i].result)]

(* Test.xml for CDash has one record for every assertion of a test whose   *)
(* process was not killed, in order, and then one if it did not complete   *)
(* (cdash_reporter.c:249, 268, 286).                                       *)
CdashRecords ==
  kind = "cdash" =>
    \A t \in Done({"completed", "incomplete"}) :
      code[t] = "exited" =>
        StatusesOf(file \o parent.buffer, t)
          = Statuses(t) \o (IF t \in Done({"incomplete"}) THEN <<"incomplete">> ELSE <<>>)

\* what the temporary file of t should hold
XmlText(t) ==
  Seqs!FlattenSeq([i \in DOMAIN shown[t] |->
    CASE shown[t][i].result = "fail" -> Xml!Text([kind |-> "failure", id |-> i])
      [] shown[t][i].result = "exception" -> Xml!Text([kind |-> "error", id |-> i])
      [] OTHER -> <<>>])
XmlNodes == UNION {{s.tests[i] : i \in {j \in DOMAIN s.tests : s.tests[j].ended}} :
                     s \in {file.out[i] : i \in DOMAIN file.out}}

(* The XML file of a suite holds, for each test that completed, exactly    *)
(* its own failures and exceptions, whole, once and in order, though both  *)
(* processes write the temporary file again and again from its start; and  *)
(* for the others at least the note that they did not complete or were     *)
(* skipped (xml_reporter.c:161, 227, 247, 267).                            *)
XmlTells ==
  kind = "xml" =>
    \A node \in XmlNodes :
      /\ node.test \in Done({"completed"}) => node.text = XmlText(node.test)
      /\ node.test \in Done({"skipped"}) => node.text = Xml!Text(Item("skipped", 0, <<>>))
      /\ node.test \in Done({"incomplete", "terminated"}) =>
           Seqs!IsPrefix(Xml!Text(Item("error", 0, <<>>)), node.text)

\* the test cases of all documents, printed or in memory
LibxmlNodes ==
  UNION {{d.tests[i] : i \in DOMAIN d.tests} :
           d \in {file.out[i] : i \in DOMAIN file.out}
                    \cup {parent.stack[i] : i \in DOMAIN parent.stack}}
\* the failures of t that the reporter could escape
Failures(t) ==
  LET Escaped(i) == shown[t][i].result = "fail" /\ Libxml!Returns(shown[t][i].message)
      ids == SelectSeq([i \in DOMAIN shown[t] |-> i], Escaped)
  IN  [k \in DOMAIN ids |-> Libxml!Element("failure", ids[k], shown[t][ids[k]].message)]
\* finish_test() of t does not return
StuckOn(t) ==
  Hung(parent) /\ pc \notin {"setup", "teardown"} /\ LastOf(reports).test = t
\* an assertion of t does not return
StuckIn(t) == \E i \in DOMAIN shown[t] : ~Libxml!Returns(shown[t][i].message)

(* The document of a suite holds the failures of each test whose process   *)
(* was not killed, all of them, once and in the order they were shown; the *)
(* error of one that did not complete comes first, and a test that hung in *)
(* an assertion does not complete. Exceptions that C++ tests threw are in  *)
(* none of them: show_incomplete() puts them in the child's tree. Of a     *)
(* killed test it holds as many failures as were written. The main process *)
(* hangs on a test if and only if its failures fill the buffer, whatever   *)
(* tests before it wrote (libxml_reporter.c:187, 341, 374, 397).           *)
LibxmlTells ==
  kind = "libxml" =>
    \A node \in LibxmlNodes :
      LET t == node.test
          broken == t \in Done({"incomplete", "terminated"})
          first  == IF broken THEN <<Libxml!Error>> ELSE <<>>
          IsFailure(e) == e.kind = "failure"
      IN  /\ t \in Done({"completed"}) => ~StuckIn(t)
          /\ t \in Done({"skipped"}) => node.nodes = <<Libxml!Element("skipped", 0, <<>>)>>
          /\ t \in Done({"completed", "incomplete"}) /\ code[t] = "exited" =>
               /\ StuckOn(t) <=> Libxml!Length(Failures(t)) >= BufferSize
               /\ node.nodes = first \o (IF StuckOn(t) THEN <<>> ELSE Failures(t))
          /\ broken =>
               /\ Seqs!IsPrefix(first, node.nodes)
               /\ Seqs!IsPrefix(SelectSeq(node.nodes, IsFailure), Failures(t))
               /\ StuckOn(t) => Libxml!Length(Failures(t)) >= BufferSize

(* The failures that a test showed and the run counts are in the XML file, *)
(* also if the test then calls exit() (xml_reporter.c:153: output is       *)
(* accumulated in a file because tests run in child processes).            *)
XmlKeepsFailures ==
  kind = "xml" =>
    \A node \in XmlNodes :
      \A i \in DOMAIN shown[node.test] :
        shown[node.test][i].result = "fail" =>
          \A piece \in 1..XmlSize["failure"] :
            \E j \in DOMAIN node.text :
              node.text[j] = [element |-> [kind |-> "failure", id |-> i], piece |-> piece]

\* the main process and test code that has not been stopped go on
FairReportSpec ==
  /\ ReportSpec
  /\ WF_allvars(MainGoesOn)
  /\ \A t \in Tests : WF_allvars(TestGoesOn(t)) /\ WF_allvars(TestExits(t))

(* A run that nobody kills ends with an exit status                        *)
(* (doc/cgreen-guide-en.asciidoc:695), also when its results are reported. *)
ReportEnds == <>(status \in {"success", "failure", "signalled"})
=============================================================================
