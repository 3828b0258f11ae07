CONSTANTS
  Capacity = 1
  MaxChunk = 1
  EpochMax = 5
  Machines = {m1, m2}
  GenMax = 4
  MaxOpens = 2
  NoTransfer = NoTransfer
  BadTransfer = BadTransfer
  Unbound = Unbound
  Transfers <- MCTransfers
  MaxRoles = 2
  MaxCandidates = 2
  SequenceOf <- MCSequenceOf
  ExpectedCount <- MCExpectedCount
SPECIFICATION ParserSpec
INVARIANTS VerifiedMeansUninterrupted GenerationsDiffer
INVARIANTS LiveBindingIsUnbroken ActiveIsExact ParserNeverCorrupt CompleteNamesItsProfile
PROPERTY NoRevival
