CONSTANTS
  loan1 = loan1  loan2 = loan2  worker = worker  cron = cron
  Debts = {loan1}
  Unreachable = {}
  Duration = 2
  Workers = {worker, cron}
  Limit = 1
  Lease = 1
  MaxOps = 2
  MaxTime = 1
SPECIFICATION Spec
INVARIANTS AtMostOnce ReceiptsAccounted
PROPERTIES FinalStays
SYMMETRY MCWorkers
CHECK_DEADLOCK FALSE
