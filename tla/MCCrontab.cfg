SPECIFICATION CronSpec
CONSTANTS
  MinutesPerHour = 2
  HoursPerDay = 3
  DaysPerWeek = 3
  MonthsPerYear = 4
  FirstYear = 1
  LastYear = 3
  LongestMonth = 6
  ShortestMonth = 3
  FirstWeekday = 1
  MonthDays <- MCMonthDays
  Crontabs <- MCCrontabs
INVARIANTS
    InvokedWhenDue
    NoneSkipped
CHECK_DEADLOCK FALSE
