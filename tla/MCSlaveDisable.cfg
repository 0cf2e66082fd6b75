\* A thread disables and enables the stack at any moment.
SPECIFICATION Spec
CONSTANTS
  Address = 1
  PduSizeMin = 1
  PduSizeMax = 2
  SndBytes = 1
  Contents <- AllContents
  Faults = {"disable"}
INVARIANTS
  ReceiverTimed
  ListensAtRest
  SendsOnlyWhenDue
