CONSTANTS
  p1 = p1
  p2 = p2
  c1 = c1
  g1 = g1
  g2 = g2
  g3 = g3
  Proc <- MCProc
  Root <- MCRoot
  Guard <- MCGuard
  Owner <- MCOwner
SPECIFICATION Spec
INVARIANTS
  TypeOK
  WriterExcludes
  GrantBacked
  WriteLockIsGranted
PROPERTY DestroyedWriterReleases
CHECK_DEADLOCK FALSE
