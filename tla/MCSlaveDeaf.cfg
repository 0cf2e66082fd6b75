\* Bytes and ticks at any moment.
SPECIFICATION Spec
CONSTANTS
  Address = 1
  PduSizeMin = 1
  PduSizeMax = 1
  SndBytes = 1
  Contents <- AllContents
  Faults = {"busy"}
CHECK_DEADLOCK FALSE
INVARIANTS
  ListensAtRest
