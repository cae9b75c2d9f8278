SPECIFICATION FairSpec
CONSTANTS
  p1 = p1
  p2 = p2
  c1 = c1
  none = none
  noanswer = noanswer
  noprovider = noprovider
  Providers <- MCProviders
  Calls <- MCCalls
  MaxStarts = 2
  NoSession <- none
  NoAnswer <- noanswer
  NoProvider <- noprovider
  Sizes = {0, 1, 3}
  BufSize = 2
INVARIANTS
  NoLeak
PROPERTIES
  
  Returns
CHECK_DEADLOCK FALSE
