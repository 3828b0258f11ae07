CONSTANTS
  NoTransfer = NoTransfer
  BadTransfer = BadTransfer
  Transfers <- MCTransfers
  MaxRoles = 32
  MaxCandidates = 8
SPECIFICATION ExchangeSpec
INVARIANTS AliveMeansObserved NeverInconsistent
PROPERTY AgreesWithMatcher
