CONSTANTS
  c1 = c1
  c2 = c2
  q1 = q1
  q2 = q2
  Call <- MCCall
  Pid <- MCPid
  Custom <- MCCustom
  Faults <- CloneFaults
SPECIFICATION Spec
INVARIANTS
  TypeOK
  OwnChild
  KnobPidfd
CHECK_DEADLOCK FALSE
SYMMETRY SamePid
