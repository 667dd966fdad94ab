---------------------------- MODULE TextReporter ----------------------------
(***************************************************************************)
(* The text reporter (text_reporter.c). Each operation takes the state of  *)
(* the process that calls it, [own, file], to the next: own.buffer is what *)
(* stdio holds for standard output, file what has reached the terminal.    *)
(***************************************************************************)
EXTENDS Naturals, Sequences

CONSTANT quiet_mode

create == [own |-> [buffer |-> <<>>], file |-> <<>>]

printer(st, l) == [st EXCEPT !.own.buffer = Append(@, l)]
Flush(st)      == [own |-> [buffer |-> <<>>], file |-> st.file \o st.own.buffer]
\* what is left of the output of a killed process, on a terminal or not
Killed(st)     == {st.file, Flush(st).file}

\* the suite's name is on the trail when the line is printed
start_suite(st, trail) ==
  IF Len(trail) = 1
  THEN Flush(IF quiet_mode THEN st ELSE printer(st, [line |-> "running", path |-> trail]))
  ELSE st

\* mutant: without the fflush()
Bugshow(st, what, trail) == printer(st, [line |-> what, path |-> trail])
\* show_fail() and show_incomplete(), which show the trail and flush
show(st, what, trail) == Flush(printer(st, [line |-> what, path |-> trail]))

Mark(counters) == IF counters["exception"] > 0 THEN "X"
                  ELSE IF counters["fail"] > 0 THEN "F"
                  ELSE IF counters["skipped"] > 0 THEN "S" ELSE "."

SuiteLine(st, path, counters) ==
  IF Len(path) > 1 \/ \E k \in DOMAIN counters : counters[k] > 0
  THEN printer(st, [line |-> "suite", path |-> path, counts |-> counters]) ELSE st

\* mutant: the last line shows the counters of the last suite
Bugfinish_suite(st, path, counters, total) ==
  LET last == [line |-> "completed", path |-> path, counts |-> counters]
  IN  IF quiet_mode
      THEN printer(st, IF Len(path) = 1 THEN last
                       ELSE [line |-> "mark", path |-> path, mark |-> Mark(counters)])
      ELSE LET s == SuiteLine(st, path, counters)
           IN  IF Len(path) = 1 THEN printer(s, last) ELSE s

\* path is the trail before its last name was taken off
finish_suite(st, path, counters, total) ==
  LET last == [line |-> "completed", path |-> path, counts |-> total]
  IN  IF quiet_mode
      THEN printer(st, IF Len(path) = 1 THEN last
                       ELSE [line |-> "mark", path |-> path, mark |-> Mark(counters)])
      ELSE LET s == SuiteLine(st, path, counters)
           IN  IF Len(path) = 1 THEN printer(s, last) ELSE s
=============================================================================
