CONSTANTS
  Conns = {c1}
  Malformed = Malformed
  Lines = {login, Malformed}
  MaxLines = 3
  MaxSends = 4
SPECIFICATION Spec
CHECK_DEADLOCK FALSE
INVARIANT SentInOrder
PROPERTIES SendsArrive LinesAreRead ClosedIsReleased
