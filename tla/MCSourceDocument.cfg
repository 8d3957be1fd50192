SPECIFICATION Spec
CONSTANTS
  first = first  second = second  later = later
  today = today  tomorrow = tomorrow
  Key = {first, second, later}
  Day = {today, tomorrow}
  DayOf <- MCDayOf
  Threads <- MCThreads
  NoKey = NoKey
  Missing = Missing
  Quotes <- MCQuotes
  MaxTurns = 3
INVARIANTS
  TypeOK
  WellFormed
  LogCoversSource
PROPERTIES
  KeepsEntries
CHECK_DEADLOCK FALSE
