CONSTANTS
  Checks <- SomeChecks
  Actuals <- SomeActuals
  MockCalls <- SomeMockCalls
  Older <- OlderStyle
  Figures = {1, 2, 3, 8}
  IntValues = 8
  LongValues = 32
  BoxLike = {"box_doubles"}
SPECIFICATION Spec
INVARIANTS
  AllWaysAgree
  NoSilentMisuse
  OppositesDiffer
  DoublesOrdered
