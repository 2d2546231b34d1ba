SPECIFICATION HistorySpec
CONSTANTS
  TabSize = 2
  WrapAt = 4
  EditWinCols = 3
  EditWinRows = 3
  Sessions <- MCSessions
  Reuse = FALSE
INVARIANTS SizeCounted   NeverFaults
PROPERTIES ImplementsUndoList OnlyCutsFillTheClip   ReplaceKeepsFrame
CHECK_DEADLOCK FALSE
