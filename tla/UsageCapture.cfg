SPECIFICATION Spec
CONSTANTS
  None = None
  Symbols <- MCSymbols
  Texts <- MCTexts
  Bodies <- MCBodies
  Usages <- MCUsages
  MaxLines = 5
  TailSize = 7
  MaxJSON = 4
  MaxChunk = 8
CHECK_DEADLOCK FALSE
INVARIANTS TypeOK TailKept BilledIsReported KeptIsBilled
