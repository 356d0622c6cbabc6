CONSTANTS
  Conns = {c1, c2, c3}
  Users = {u1}
  Passwords = {p1, p2}
  Uuids = {id1, id2}
  NoAccount = NoAccount
  NoUuid = NoUuid
  NoSession = NoSession
  NoId = NoId
  Malformed = Malformed
  Unhandled = Unhandled
  Noise = {Malformed, Unhandled}
  IdSpace = 2
  DiskFaults = {"rename"}
  MaxLines = 2
  MaxTicks = 1
SPECIFICATION Spec
SYMMETRY Symmetry
INVARIANTS FoundOrDisplaced RegisteredIsRead OnlyOwnAccount
