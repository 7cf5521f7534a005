\* five days of two ticks; requests in any order, failing wherever they may
CONSTANTS
  DayLength = 2
  Horizon = 9
  Total = 6
  MB = 2
  Channels = {36}
SPECIFICATION Spec
INVARIANTS TypeOK FiledByDay NoFileNeedsSetBack CapacityBetween
PROPERTY StoppedUnsaved
\* the process may end
CHECK_DEADLOCK FALSE
