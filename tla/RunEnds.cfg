CONSTANTS
  top = top
  sub = sub
  t1 = t1
  t2 = t2
  t3 = t3
  Main = Main
  Root = top
  Suites = {top, sub}
  Tests = {t1, t2, t3}
  Entries <- NestedEntries
  Order <- NestedOrder
  Fixtures = {top}
  Skipped = {t3}
  Skippers = {}
  Single = FALSE
  Selected = {}
  Fork = TRUE
  Timeout = TRUE
  CatchExceptions = FALSE
  ForkMayFail = FALSE
  Endings = {"exited", "signalled", "aborted"}
  ExitHandlers = {}
  SigpipeHandled = TRUE
  Helper = FALSE
  Capacity = 2
  MaxResults = 2
  MaxInterrupts = 0
SPECIFICATION FairSpec
INVARIANTS
  SuccessIsEarned
  OutcomeIsTrue
PROPERTIES
  RunEnds
