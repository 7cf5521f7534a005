CONSTANTS
  Workers = {w1, w2, w3}
  Callers = {c1, c2}
  MaxTasks = 3
  MaxSpurious = 1
SPECIFICATION FairSpec
INVARIANTS TypeOK EachOnce NoTaskSleptOver
PROPERTIES TaskRuns WorkersEnd
CHECK_DEADLOCK FALSE
