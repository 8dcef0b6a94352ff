CONSTANT MaxClients = 2
SPECIFICATION FairClientSpec
INVARIANT CleanStopFreesPort
PROPERTY CancelledClientEnds
CHECK_DEADLOCK FALSE
