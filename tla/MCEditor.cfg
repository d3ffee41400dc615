SPECIFICATION Spec
CONSTANTS
  Char <- MCChar
  TypedKeys <- MCTypedKeys
  KeyText <- MCKeyText
  InitialBuffers <- MCInitialBuffers
  GotoLines <- MCGotoLines
  MaxLines = 3
  MaxCols = 2
  MaxRepeat = 2
INVARIANTS
  TypeOK
  CursorNearBuffer
  SaveSeesEveryEdit
  NumericRepeat
  FaultsNeedStrayCursor
  TypingIsUndone
PROPERTIES
  GotoLandsInBuffer
  CursorStraysOnlyByDeletion
  DeletesAroundCursor
  InsertModeIsLocal
