\* Two requesters, threads interleaved in any way, ideal bus.
SPECIFICATION Spec
CONSTANTS
  a1 = a1
  a2 = a2
  NoApp = NoApp
  Apps <- TwoApps
  Prio <- EqualPrio
  PollPrio = 0
  TransPrio = 0
  Impatient = {a2}
  TotalSlaveNum = 2
  PduSizeMin = 2
  PduSizeMax = 3
  SndBytes = 1
  Contents <- AllContents
  Faults = {}
  SemMax = 2
INVARIANTS
  TypeOK
  OneRequester
  StateAssertionsHold
  ExecutesCheckedFrame
PROPERTIES
  SendBufferStable
  KeepsPromises
