\* One requester on a processor that interrupts may outrun.
SPECIFICATION Spec
CONSTANTS
  a1 = a1
  a2 = a2
  NoApp = NoApp
  Apps <- OneApp
  Prio <- EqualPrio
  PollPrio = 0
  TransPrio = 0
  Impatient = {}
  TotalSlaveNum = 2
  PduSizeMin = 2
  PduSizeMax = 3
  SndBytes = 1
  Contents <- AllContents
  Faults = {"busy"}
  SemMax = 2
INVARIANTS
  OwnResult
  NoMergedEvents
  StateAssertionsHold
