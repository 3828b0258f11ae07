CONSTANTS
  Capacity = 1
  MaxChunk = 1
  EpochMax = 4
  Machines = {m1}
  GenMax = 2
  MaxOpens = 1
  NoTransfer = NoTransfer
  BadTransfer = BadTransfer
  Unbound = Unbound
  Transfers <- MCTransfers
  MaxRoles = 32
  MaxCandidates = 8
  SequenceOf <- MCSequenceOf
  ExpectedCount <- MCExpectedCount
SPECIFICATION ParserSpec
INVARIANT NoHybrid
