CONSTANTS
  loan = loan  i1 = i1  i2 = i2  i3 = i3  p1 = p1  p2 = p2  p3 = p3  a = a  b = b  web = web
  Phones = {a, b}
  Web = web
  Loan = loan
  Periods = {i1, i2, i3}
  Payments = {p1, p2, p3}
  WebPeriods = {i3}
  WebPayments = {p3}
  NoPeriod = NoPeriod
  Principal = 2
  Existing = {TRUE, FALSE}
  FirstPeriod = i1
  Actions <- MCActions
  MaxQueue = 2
  MaxPk = 4
SPECIFICATION Spec
INVARIANTS AnswersTrue RefusedLeavesNothing BooksFollowFacts StructureSeen OverwriteReported RefusalsHaveCause
VIEW MCView
SYMMETRY MCPhones
CHECK_DEADLOCK FALSE
