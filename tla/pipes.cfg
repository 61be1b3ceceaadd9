SPECIFICATION FairSpec
CONSTANTS
  main = main  runner = runner  other = other
  transfer = transfer  result = result
  Proc = {main, runner, other}
  Main = main
  Runner = runner
  Chan = {transfer, result}
  Captured = {result}
  Senders <- MCSenders
  Receivers <- MCReceivers
  Size <- MCSize
  Capacity = 4
  Atomic = 2
  Rounds = 2
INVARIANTS TypeOK WholeInOrder EndMeansEnded
PROPERTY EndComes
CHECK_DEADLOCK FALSE
