CONSTANTS
  p1 = p1
  p2 = p2
  c1 = c1
  t1 = t1
  t2 = t2
  t3 = t3
  t4 = t4
  Proc <- LiveProc
  Root <- LiveRoot
  Thread <- LiveThread
  Owner <- LiveOwner
  Nobody = Nobody
  Delegate = TRUE
  Events <- Anything
SPECIFICATION FairSpec
PROPERTY Progress
CHECK_DEADLOCK FALSE
