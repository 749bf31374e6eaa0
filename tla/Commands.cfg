CONSTANTS
  Types = {"t1", "t2"}
  Setups <- MCSetups
  Limits <- MCLimits
  MaxEvents = 5
  MaxCommands = 2
SPECIFICATION FairSpec
PROPERTIES PublishesOnlyApproved StopsOnce WatchdogStops StopsEndQueue
CHECK_DEADLOCK FALSE
