SPECIFICATION FairSpec
CONSTANTS
  MaxConns = 3
  MaxSends = 2
  MaxFaults = 2
  MaxStops = 1
INVARIANTS TypeOK UndisturbedLink FramesIntact DeadEntryIsRemoved
PROPERTIES DeadEntryGoes SentArrives
CHECK_DEADLOCK FALSE
