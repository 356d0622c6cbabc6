CONSTANTS
  Names = {1, 2}
  Literals = {3}
  MaxTokens = 12
SPECIFICATION Spec
CHECK_DEADLOCK FALSE
INVARIANTS ParserInv AcceptsJson SavedIsLoaded
