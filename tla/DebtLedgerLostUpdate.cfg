CONSTANTS
  clerk = clerk
  LoanTypes = {"multi"}
  Principals = {200}
  InterestRates = {10}
  PenaltyRates = {0, 5}
  Durations = {1, 2}
  Roundings = {"whole"}
  Unit = 100
  Amounts = {60, 100, 500}
  Clerks = {clerk}
  PatchDues = {1, 3}
  PatchRates = {10}
  PhoneBases = {}
  PhoneDues = {}
  NoView = NoView
  MaxToday = 4
  MaxOps = 3
SPECIFICATION Spec
INVARIANTS CollectedIsPaid
CHECK_DEADLOCK FALSE
