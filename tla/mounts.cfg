CONSTANTS
  t1 = t1
  b1 = b1
  f1 = f1
  f2 = f2
  dir = dir
  file = file
  s1 = s1
  s2 = s2
  s3 = s3
  own = own
  Obj <- MCObj
  Dest <- MCDest
  Tree <- MCTree
  Kind <- MCKind
  DestOf <- MCDestOf
  Below <- MCBelow
  SourceOf <- MCSourceOf
  Inside <- MCInside
  Writable <- SomeWritable
  NoRec = {}
  Faults <- AllFaults
  MaxMounts = 3
SPECIFICATION Spec
INVARIANTS
  TypeOK
  NoStrayMount
  ReadOnlySourceIntact
  NeverTerminated
CHECK_DEADLOCK FALSE
