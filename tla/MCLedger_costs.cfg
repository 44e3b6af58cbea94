SPECIFICATION Spec
CONSTANTS
  Tasks = {t1, t2}
  Receipts = {r1, r2}
  Currencies = {"VND", "EUR"}
  Prices = {1, 2}
  Template <- EnvironmentPricing
  Limits = {2, 4}
  None = None
  Workloads <- EitherWorkload
  MaxPeriods = 2
  MaxTraffic = 1
  MaxEdits = 1
  MaxCrashes = 1
  MonthLengths <- LeapYear
  FirstWeekday = 3
  Unparsable = Unparsable
INVARIANTS StoredIsReproducible FlagIsTrue
SYMMETRY Symmetry
CHECK_DEADLOCK FALSE
