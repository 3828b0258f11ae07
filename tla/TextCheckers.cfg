CONSTANTS
  MaxEvents = 7
  MaxTransferLength = 5
  MaxTotalBytes = 8
  Capacity = 1
  MaxChunk = 2
  EpochMax = 4
  Lines <- MCLines
  TranscriptLines <- MCTranscriptLines
  MaxInterfaces = 2
  MaxObservedTransfers = 3
  MaxObservedLength = 2
SPECIFICATION CheckersSpec
INVARIANTS ParsesTheGrammar ReportMatchesWindow TranscriptsAreParsed
PROPERTY ReplaySucceeds
CHECK_DEADLOCK FALSE
