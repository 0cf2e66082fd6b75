CONSTANTS
  t1 = t1
  t2 = t2
  th1 = th1
  th2 = th2
  T35 = T35
  RESPOND = RESPOND
  Timers = {t1, t2}
  IsrTimers = {t1, t2}
  Threads = {th1, th2}
  Modes = {T35, RESPOND}
  ModesOf <- MCModesOf
  Period <- MCPeriod
  TickMod = 10
  MaxPreempt = 1
  MaxOverlap = 0
SYMMETRY MCSymmetry
CHECK_DEADLOCK FALSE
SPECIFICATION Spec
INVARIANTS TypeOK DamageNeedsOverlap ListSorted FlagMatchesList ModeMatchesPeriod
PROPERTY CheckMissesNone
