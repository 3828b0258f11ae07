CONSTANTS
  a = a
  b = b
  NoTransfer = NoTransfer
  BadTransfer = BadTransfer
  Transfers <- MCTransfers
  MaxRoles = 4
  MaxCandidates = 3
  Orders <- MCOrders
SPECIFICATION Spec
INVARIANTS FrontierIsExact NeverCorrupt NeverStuck
PROPERTIES RejectsOnlyTheInexplicable
