CONSTANTS
  first = first
  second = second
  empty = empty
  broken = broken
  stale = stale
  missing = missing
  exact = exact
  contextual = contextual
  wildcard = wildcard
  c = c
  d = d
  CommandLines <- UnusualCommandLines
  Files = {first, second, empty, broken, stale}
  Content <- SomeContent
  Unloadable = {broken}
  Unresolved <- SomeUnresolved
  Patterns <- UnusualPatterns
  Outcomes = {"pass", "fail", "dies", "exits", "throws"}
SPECIFICATION Spec
INVARIANTS
  RunsTheSelection
