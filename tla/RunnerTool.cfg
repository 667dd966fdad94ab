CONSTANTS
  first = first
  second = second
  empty = empty
  broken = broken
  stale = stale
  missing = missing
  exact = exact
  contextual = contextual
  wildcard = wildcard
  c = c
  d = d
  CommandLines <- UsualCommandLines
  Files = {first, second, empty, broken, stale}
  Content <- SomeContent
  Unloadable = {broken}
  Unresolved <- SomeUnresolved
  Patterns <- UsualPatterns
  Outcomes = {"pass", "fail", "dies", "exits", "throws"}
SPECIFICATION Spec
INVARIANTS
  TypeOK
  RunsTheSelection
  RunsBySuite
  ExitIsEarned
  ShowsOneSuite
