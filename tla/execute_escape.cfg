CONSTANTS
  c1 = c1
  c2 = c2
  q1 = q1
  q2 = q2
  Call <- MCCall
  Pid <- MCPid
  Custom <- NoCustom
  Faults <- MapFaults
SPECIFICATION Spec
INVARIANT ScopeIntact
CHECK_DEADLOCK FALSE
