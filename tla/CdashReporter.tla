---------------------------- MODULE CdashReporter ----------------------------
(***************************************************************************)
(* The reporter for CDash (cdash_reporter.c): a <Test> record in Test.xml  *)
(* for every assertion and every test that did not complete. Each          *)
(* operation takes the state [own, file] of the calling process to the     *)
(* next, as in TextReporter; the header of the file is flushed on creation.*)
(***************************************************************************)
EXTENDS Naturals, Sequences

create == [own |-> [buffer |-> <<>>], file |-> <<>>]

\* print_test_header(), print_results_header(), print_measurement(), print_tail()
print(st, status, name) ==
  [st EXCEPT !.own.buffer = Append(@, [status |-> status, name |-> name])]

Flush(st)  == [own |-> [buffer |-> <<>>], file |-> st.file \o st.own.buffer]
\* the stream is a file: nothing unflushed survives
Killed(st) == {st.file}

show_pass(st, name) == print(st, "passed", name)
\* mutant: the record of a failure copies that of a pass
Bugshow_fail(st, name) == print(st, "passed", name)
show_fail(st, name) == print(st, "failed", name)
show_incomplete(st, name) == print(st, "incomplete", name)
=============================================================================
