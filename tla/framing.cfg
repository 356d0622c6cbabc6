CONSTANTS
  Letters = {"x", "y"}
  Texts <- MCTexts
  MaxTexts = 3
SPECIFICATION Spec
CHECK_DEADLOCK FALSE
INVARIANTS FramingInv
PROPERTIES LinesArrive ReadsLines
