CONSTANTS
  top = top
  sub = sub
  t1 = t1
  t2 = t2
  t3 = t3
  Main = Main
  Root = top
  Suites = {top, sub}
  Tests = {t1, t2, t3}
  Entries <- NestedEntries
  Order <- NestedOrder
  Selected = {t1, t3}
  SelectedOrder <- NamedOrder
  FewTests = {t1, t2}
  FewEntries <- SmallEntries
  FewOrder <- SmallOrder
  Fixtures = {top}
  Skipped = {t3}
  Skippers = {t1}
  MaxResults = 3
SPECIFICATION Spec
INVARIANTS
  Conservation
  SuccessIsEarned
  StatusIsTheSum
  TrailIsThePath
  OutcomeIsTrue
PROPERTIES
  ImplementsContract
