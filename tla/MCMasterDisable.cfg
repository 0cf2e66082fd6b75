\* Two requesters, and a thread that disables and enables the stack.
SPECIFICATION FairSpec
\* The bus may stop the master for good, and the bound on the semaphore does.
CHECK_DEADLOCK FALSE
CONSTANTS
  a1 = a1
  a2 = a2
  NoApp = NoApp
  Apps <- TwoApps
  Prio <- AppPrio
  PollPrio = 9
  TransPrio = 10
  Impatient = {}
  TotalSlaveNum = 1
  PduSizeMin = 1
  PduSizeMax = 1
  SndBytes = 1
  Contents <- FewContents
  Faults = {"disable"}
  SemMax = 2
PROPERTIES
  EnabledBecomesEstablished
  RequestsReturn
  BlockedGetsMaster
  DecidedReturns
