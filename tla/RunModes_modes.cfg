SPECIFICATION FairSpec
CONSTANTS
  Nil = Nil
  Worlds <- MCWorlds
  MaxTasks = 3
  MaxTries = 2
  Week = 2
  Month = 3
  MaxRead = 10
  MaxAtOnce = 2
  MaxFaults = 1
  MayDelete = TRUE
CHECK_DEADLOCK FALSE

  
  
  
PROPERTIES
  RunEndsDelivered
