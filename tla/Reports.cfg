CONSTANTS
  top = top
  sub = sub
  t1 = t1
  t2 = t2
  t3 = t3
  Main = Main
  Root = top
  Suites = {top, sub}
  Tests = {t1, t2, t3}
  Entries <- MixedEntries
  Order <- MixedOrder
  Fixtures = {top}
  Skipped = {t3}
  Skippers = {}
  Single = FALSE
  Selected = {}
  Fork = TRUE
  Timeout = TRUE
  CatchExceptions = TRUE
  ForkMayFail = FALSE
  Endings = {"exited", "signalled", "aborted"}
  ExitHandlers = {}
  SigpipeHandled = FALSE
  Helper = FALSE
  Capacity = 5
  MaxResults = 3
  MaxInterrupts = 0
  Reporters = {"text", "quiet", "cute", "cdash", "xml", "libxml"}
  Messages <- Odd
  XmlSize <- ElementSize
  BufferSize = 30
  TagSize = 7
  MaxNested = 2
SPECIFICATION ReportSpec
INVARIANTS
  NothingCountedUnseen
  LinesAddUp
  CuteVerdicts
  CuteBlocks
  CdashRecords
  XmlTells
  LibxmlTells
