\* processes one after the other, with SIGINT at any moment
CONSTANT Sinks <- FileAndConsole
SPECIFICATION FairSpec
INVARIANTS TypeOK DeletedOnce NothingGoneUsed
PROPERTIES FailedStartEnds ShutdownEnds
\* a handler may wait for a mutex for ever
CHECK_DEADLOCK FALSE
