CONSTANTS
  loan1 = loan1  loan2 = loan2  worker = worker  cron = cron
  Debts = {loan1, loan2}
  Unreachable = {loan2}
  Duration = 1
  Workers = {worker}
  Limit = 1
  Lease = 1
  MaxOps = 2
  MaxTime = 2
SPECIFICATION FairSpec
PROPERTIES EmailsFinish
CHECK_DEADLOCK FALSE
