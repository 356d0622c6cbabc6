CONSTANTS
  Conns = {c1}
  Users = {u1, u2}
  Passwords = {p1, p2}
  Uuids = {id1, id2}
  NoAccount = NoAccount
  NoUuid = NoUuid
  NoSession = NoSession
  NoId = NoId
  Malformed = Malformed
  Unhandled = Unhandled
  Nothing = Nothing
  Noise = {}
  IdSpace = 2
  DiskFaults = {}
  MaxLines = 2
  MaxTicks = 3
SPECIFICATION SysFairSpec
INVARIANTS ResultIsDurable
PROPERTIES ScreenCatchesUp ClickEnters
