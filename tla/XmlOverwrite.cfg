CONSTANTS
  top = top
  sub = sub
  t1 = t1
  t2 = t2
  t3 = t3
  Main = Main
  Root = top
  Suites = {top, sub}
  Tests = {t1, t2, t3}
  Entries <- MixedEntries
  Order <- MixedOrder
  Fixtures = {}
  Skipped = {}
  Skippers = {}
  Single = FALSE
  Selected = {}
  Fork = TRUE
  Timeout = FALSE
  CatchExceptions = FALSE
  ForkMayFail = FALSE
  Endings = {"exited"}
  ExitHandlers = {}
  SigpipeHandled = FALSE
  Helper = FALSE
  Capacity = 5
  MaxResults = 3
  MaxInterrupts = 0
  Reporters = {"xml"}
  Messages <- Usual
  XmlSize <- ElementSize
  BufferSize = 24
  TagSize = 7
  MaxNested = 2
SPECIFICATION ReportSpec
INVARIANTS
  XmlKeepsFailures
