---------------------------- MODULE CuteReporter ----------------------------
(***************************************************************************)
(* The reporter for the CUTE Eclipse plug-in (cute_reporter.c): lines of a *)
(* protocol, and a memo of which a forked test gets its own copy. Each     *)
(* operation takes the state [own, file] of the calling process to the     *)
(* next, as in TextReporter.                                               *)
(***************************************************************************)
EXTENDS Naturals, Sequences

\* malloc() leaves the memo as it was: previous is anything, and so is errors,
\* which is not read before it is set
create(previous) ==
  [own |-> [error_count |-> 0, previous_error |-> previous, buffer |-> <<>>], file |-> <<>>]

printer(st, l, name) == [st EXCEPT !.own.buffer = Append(@, [line |-> l, name |-> name])]
Flush(st)  == [own |-> [st.own EXCEPT !.buffer = <<>>], file |-> st.file \o st.own.buffer]
Killed(st) == {st.file, Flush(st).file}

start_suite(st, name) == printer(st, "beginning", name)

\* mutant: the flag of an earlier test is kept
Bugstart_test(st, name, errors) ==
  printer([st EXCEPT !.own.error_count = errors], "starting", name)
\* errors: failures and exceptions counted so far
start_test(st, name, errors) ==
  printer([st EXCEPT !.own.error_count = errors, !.own.previous_error = FALSE], "starting", name)

show_fail(st, name) ==
  IF st.own.previous_error THEN st
  ELSE printer([st EXCEPT !.own.previous_error = TRUE], "failure", name)

failed_to_complete(st, name) == printer(st, "error", name)

finish_test(st, name, errors) ==
  IF st.own.error_count = errors THEN printer(st, "success", name) ELSE st

finish_suite(st, name) == printer(st, "ending", name)
=============================================================================
