\* The main thread is idle when the host pings.
CONSTANTS
  MaxEvents = 1
  MaxFaults = 0
SPECIFICATION FairSpec
CHECK_DEADLOCK FALSE
PROPERTY PingAnswered
