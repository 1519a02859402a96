SPECIFICATION PrinterSpec
CONSTANTS
  PendingSize = 8
  Bytes <- MCBytes
  LongMax = 131071
  Commands <- MCCommands
  MaxAsked = 2
  MaxOthers = 1
INVARIANTS
  DoesWhatArrives
  NoDelimiterShown
PROPERTIES
  ShowsTheTime
  IsFifo
