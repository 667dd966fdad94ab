CONSTANTS
  top = top
  sub = sub
  t1 = t1
  t2 = t2
  t3 = t3
  Main = Main
  Root = top
  Suites = {top, sub}
  Tests = {t1, t2}
  Entries <- SmallEntries
  Order <- SmallOrder
  Fixtures = {top}
  Skipped = {}
  Skippers = {t1}
  Single = FALSE
  Selected = {}
  Fork = TRUE
  Timeout = FALSE
  CatchExceptions = FALSE
  ForkMayFail = FALSE
  Endings = {}
  ExitHandlers = {}
  SigpipeHandled = FALSE
  Helper = FALSE
  Capacity = 5
  MaxResults = 3
  MaxInterrupts = 0
SPECIFICATION Spec
INVARIANTS
  SuccessIsEarned
