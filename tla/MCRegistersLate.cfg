CONSTANTS
  BitsUchar = 2
  NCoils = 4
  NDiscretes = 2
  NInputs = 2
  NHoldings = 3
  ReadBitsMax = 6
  WriteBitsMax = 5
  ReadRegsMax = 4
  WriteRegsMax = 4
  RWWriteMax = 4
  FuncHandlersMax = 10
  TotalSlaveNum = 2
  MaxRounds = 2
  Dests = {0, 1, 3}
  Requests <- MCRequests
  ForeignRequests <- MCForeignRequests
  FirstMemories <- MCFirstMemories
  Removable <- MCRemovable
SPECIFICATION Spec
PROPERTY BehindUntouched
