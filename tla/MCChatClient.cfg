CHECK_DEADLOCK FALSE
SPECIFICATION ClientFairSpec
CONSTANTS
  MaxLinks = 2
  MaxCommands = 2
  MaxPushes = 1
  MaxGroups = 1
INVARIANTS
  OneReader
  MenuKeepsFraming
  DiesForAReason
  TablesAgree
PROPERTIES
  MenuComesBack
