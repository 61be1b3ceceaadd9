CONSTANTS
  p1 = p1
  p2 = p2
  c1 = c1
  t1 = t1
  t2 = t2
  t3 = t3
  t4 = t4
  Proc <- MCProc
  Root <- MCRoot
  Thread <- MCThread
  Owner <- MCOwner
  Nobody = Nobody
  Delegate = TRUE
  Events <- Interruptions
SPECIFICATION Spec
INVARIANTS
  TypeOK
  BodyAlone
  BodyOnce
  ReturnedReady
PROPERTY Promise
CHECK_DEADLOCK FALSE
SYMMETRY SameProcess
