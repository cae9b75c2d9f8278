SPECIFICATION FairSpec
CONSTANTS
  t1 = t1
  t2 = t2
  loop = loop
  Threads <- MCThreads
  Loop = loop
  Sends <- MCSends
  MsgSize = 2
  MaxCloses = 2
INVARIANTS
  WriteInterest
  StreamInOrder
PROPERTIES
  FinAfterDrain
  NeverUpAgain
  OnlyShutdownRevives
  ShutdownTakesEffect
CHECK_DEADLOCK FALSE
