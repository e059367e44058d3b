CONSTANTS
  clerk = clerk
  LoanTypes = {"multi", "single"}
  Principals = {100}
  InterestRates = {0, 10, 200}
  PenaltyRates = {0, 5}
  Durations = {1, 3}
  Roundings = {"whole", "cents"}
  Unit = 100
  Amounts = {40, 100, 500}
  Clerks = {clerk}
  PatchDues = {2}
  PatchRates = {10}
  PhoneBases = {50}
  PhoneDues = {2}
  NoView = NoView
  MaxToday = 4
  MaxOps = 2
SPECIFICATION Spec
INVARIANTS TypeOK BooksBalance OnePosition AssessmentMissesNothing ScheduleKept DocumentsAgree
PROPERTIES RepairAddsUp PaidPeriodsKeepAmount
CHECK_DEADLOCK FALSE
