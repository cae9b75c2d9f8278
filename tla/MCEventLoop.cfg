CHECK_DEADLOCK FALSE
SPECIFICATION LTFairSpec
CONSTANTS
  p1 = p1
  p2 = p2
  f1 = f1
  f2 = f2
  f3 = f3
  io1 = io1
  wakeupChannel = wakeupChannel
  Threads <- MCThreads
  Tasks <- MCTasks
  IoChannels <- MCIoChannels
  WakeupChannel <- wakeupChannel
  EventFdMax = 2
  Owner = p1
INVARIANTS
  NoLostWakeup
  FreedAfterThread
PROPERTIES
  QueuedRuns
  QuitStops
  StartReturns
  JoinReturns
  ImplementsTaskQueue
