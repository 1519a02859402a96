SPECIFICATION PrinterSpec
CONSTANTS
  PendingSize = 50
  Bytes <- MCBytes
  LongMax = 131071
  Commands <- MCTextCommands
  MaxAsked = 1
  MaxOthers = 0
INVARIANT DoesAsAsked
