\* Two requesters and a slave that answers late.
SPECIFICATION Spec
CONSTANTS
  a1 = a1
  a2 = a2
  NoApp = NoApp
  Apps <- TwoApps
  Prio <- AppPrio
  PollPrio = 9
  TransPrio = 10
  Impatient = {}
  TotalSlaveNum = 1
  PduSizeMin = 1
  PduSizeMax = 1
  SndBytes = 1
  Contents <- FewContents
  Faults = {"late"}
  SemMax = 3
INVARIANTS
  OneRequester
