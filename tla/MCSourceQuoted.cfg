SPECIFICATION Spec
CONSTANTS
  first = first  second = second  later = later
  today = today  tomorrow = tomorrow
  Key = {first, second, later}
  Day = {today, tomorrow}
  DayOf <- MCDayOf
  Threads <- MCThreads
  NoKey = NoKey
  Missing = Missing
  Quotes <- EndQuotes
  MaxTurns = 2
INVARIANT
  UpsertsAreIdempotent
CHECK_DEADLOCK FALSE
