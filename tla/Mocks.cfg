CONSTANTS
  f = f
  g = g
  p = p
  q = q
  right = right
  wrong = wrong
  zero = zero
  Default = zero
  Names = {p, q}
  Values = {right, wrong}
  Parameters <- OneParameter
  Functions = {f, g}
  Declarable <- Lists
  Modes = {"strict", "learning"}
  MaxSteps = 3
  MaxTests = 2
SPECIFICATION Spec
INVARIANTS
  TypeOK
  NothingBehindUnlimited
  CountersAgree
  ExactCalls
PROPERTIES
  ImplementsContract
