SPECIFICATION FairSpec
CONSTANTS
  c1 = c1  c2 = c2  sandbox = sandbox
  Ctl = {c1, c2}
  Name = {sandbox}
  Proc = {p1, p2}
  NameOf <- MCNameOf
  Asked <- MCAsked
  Tuned <- MCTuned
INVARIANTS TypeOK Confined
PROPERTIES TidyDestroys KilledEnd
CHECK_DEADLOCK FALSE
