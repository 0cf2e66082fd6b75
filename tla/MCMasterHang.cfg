\* One requester and a slave that answers at once.
SPECIFICATION FairSpec
CHECK_DEADLOCK FALSE
CONSTANTS
  a1 = a1
  a2 = a2
  NoApp = NoApp
  Apps <- OneApp
  Prio <- AppPrio
  PollPrio = 9
  TransPrio = 10
  Impatient = {}
  TotalSlaveNum = 1
  PduSizeMin = 1
  PduSizeMax = 1
  SndBytes = 1
  Contents <- FewContents
  Faults = {"prompt"}
  SemMax = 3
PROPERTIES
  RequestsReturn
