\* Threads faster than the bus.
SPECIFICATION FairSpec
CONSTANTS
  Address = 1
  PduSizeMin = 2
  PduSizeMax = 3
  SndBytes = 1
  Contents <- AllContents
  Faults = {}
INVARIANTS
  TypeOK
  NoMergedEvents
  StateAssertionsHold
  ExecutesEachRequestOnce
  SendsOnlyWhenDue
  ServedAndListening
PROPERTIES
  ResponseStable
  RequestsAnswered
