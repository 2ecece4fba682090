SPECIFICATION FairSpec
CONSTANTS
  Service = {"s1", "s2"}
  Task = {"once", "every"}
  Delay <- MCDelay
  Periodic = {"every"}
INVARIANT SchedulerSafe
PROPERTIES QueuedTasksRun StopEnds
