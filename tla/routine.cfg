CONSTANTS
  r = r
  s = s
  p = p
  small = small
  big = big
  h1 = h1
  h2 = h2
  k1 = k1
  k2 = k2
  n1 = n1
  n2 = n2
  x1 = x1
  x2 = x2
  x3 = x3
  None = None
  Fn <- MCFn
  Callable <- MCCallable
  Small <- MCSmall
  Param = p
  Holder <- MCHolder
  Number <- MCNumber
  File <- MCFile
  Capture <- MCCapture
  Faults <- MCFaults
SPECIFICATION Spec
INVARIANTS
  TypeOK
  HoldersOwn
  Truthful
  NothingLeaks
  CapturesOpen
CONSTRAINT Bound
CHECK_DEADLOCK FALSE
SYMMETRY Same
