\* One requester on a bus with noise.
SPECIFICATION Spec
\* The bus may stop the master for good, and the bound on the semaphore does.
CHECK_DEADLOCK FALSE
CONSTANTS
  a1 = a1
  a2 = a2
  NoApp = NoApp
  Apps <- OneApp
  Prio <- AppPrio
  PollPrio = 9
  TransPrio = 10
  Impatient = {}
  TotalSlaveNum = 1
  PduSizeMin = 1
  PduSizeMax = 2
  SndBytes = 1
  Contents <- FewContents
  Faults = {"noise"}
  SemMax = 2
INVARIANTS
  ReceiverTimed
  MasterNeverLost
