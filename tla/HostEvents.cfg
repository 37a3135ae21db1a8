\* The three nested window systems, with and without vsync.
CONSTANTS
  MaxEvents = 2
  MaxFaults = 1
SPECIFICATION FairSpec
CHECK_DEADLOCK FALSE
INVARIANTS
  SleepersHaveReader
  GlobalsFound
  ToldAsSent
PROPERTIES
  DispatchReturns
  EventsServed
