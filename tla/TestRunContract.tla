--------------------------- MODULE TestRunContract ---------------------------
(***************************************************************************)
(* What a run promises to whoever called it: the tests are reported once   *)
(* each, in the order of the suite tree; what went wrong is never          *)
(* forgotten; and the exit status says whether anything did.               *)
(***************************************************************************)
EXTENDS Naturals, Sequences

VARIABLES
  order,    \* the tests to run, sub-suites before the tests of their own suite
  reported, \* the tests reported so far
  bad,      \* a failure or an exception was recorded
  verdict   \* the exit status

vars == <<order, reported, bad, verdict>>

Init ==
  /\ reported = <<>>
  /\ bad = FALSE
  /\ verdict = "running"

Record ==
  /\ verdict = "running"
  /\ bad' = TRUE
  /\ UNCHANGED <<reported, verdict>>

Report ==
  /\ verdict = "running"
  /\ Len(reported) < Len(order)
  /\ reported' = Append(reported, order[Len(reported) + 1])
  /\ bad' \in {bad, TRUE}
  /\ UNCHANGED verdict

Finish ==
  /\ verdict = "running"
  /\ reported = order
  /\ verdict' = IF bad THEN "failure" ELSE "success"
  /\ UNCHANGED <<reported, bad>>

\* the process is killed or gives up: the caller sees a signal or a failure
Killed ==
  /\ verdict = "running"
  /\ verdict' \in {"signalled", "died"}
  /\ UNCHANGED <<reported, bad>>

Next == UNCHANGED order /\ (Record \/ Report \/ Finish \/ Killed)

Spec == Init /\ [][Next]_vars
=============================================================================
