CONSTANTS
  MaxEvents = 6
  MaxTransferLength = 3
  MaxTotalBytes = 4
  Handles = {h1, h2}
  Pipes = {p1, p2, p3, p4}
  Lengths = {3}
  MaxClock = 2
  MaxDevices = 2
  MaxTransfers = 2
  Lateness = 1
  Limits = {1, 2}
SPECIFICATION ImportSpec
SYMMETRY MCSymmetry
INVARIANTS AttributionIsExact EnvelopesAreAccepted
PROPERTY PublishedForGood
CHECK_DEADLOCK FALSE
