CONSTANTS
  worker = worker  cron = cron  doc = doc
  Files = {doc}
  Processes = {worker, cron}
  Sweepers = {worker, cron}
  Loop = worker
  DueDays <- Days
  Ledgers <- LoanOrDocuments
  Interval = 2
  MaxDay = 2
  MaxDeaths = 1
  MaxRuns = 1
SPECIFICATION Spec
INVARIANTS DownloadsWhole RemindersApart PushedOnce
