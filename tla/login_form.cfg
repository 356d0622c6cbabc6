CONSTANTS
  Chars = {x}
  OtherChars = {y}
  kDefaultFontSize = 3
  kMinFontSize = 1
  kDefaultFontSpacing = 1
  Cursor = x
  Dash = x
  Width = 6
  Growth = 1
  NoRequest = NoRequest
  MaxText = 4
  MaxTyped = 2
SPECIFICATION Spec
INVARIANTS FocusFollowsClick ReleaseOfClick FormInv
PROPERTIES SentAsSeen
