CONSTANTS
  Transfers <- MCTransfers
  NoTransfer = NoTransfer
  PrefixSize = 2
  Alignment = 4
  Small = 8
  Largest = 16
  MaxEvents = 4
  ByteMax = 64
SPECIFICATION Spec
INVARIANTS NeverCorrupted RegimeIsOfTheWholeWindow
PROPERTIES RefusesOnlyWhenFull
