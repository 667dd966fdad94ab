CONSTANTS
  top = top
  sub = sub
  t1 = t1
  t2 = t2
  t3 = t3
  Main = Main
  Root = top
  Suites = {top, sub}
  Tests = {t1, t2, t3}
  Entries <- NestedEntries
  Order <- NestedOrder
  Fixtures = {top}
  Skipped = {t3}
  Skippers = {}
  Single = FALSE
  Selected = {}
  Fork = TRUE
  Timeout = TRUE
  CatchExceptions = TRUE
  ForkMayFail = TRUE
  Endings = {"exited", "signalled", "aborted"}
  ExitHandlers = {}
  SigpipeHandled = FALSE
  Helper = TRUE
  Capacity = 3
  MaxResults = 3
  MaxInterrupts = 1
SPECIFICATION Spec
INVARIANTS
  TypeOK
  Conservation
  SuccessIsEarned
  StatusIsTheSum
  OwnResults
  CompletionIsLast
  WaitsForTheTest
  TrailIsThePath
  OutcomeIsTrue
PROPERTIES
  ImplementsContract
