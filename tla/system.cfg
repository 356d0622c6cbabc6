CONSTANTS
  Conns = {c1, c2}
  Users = {u1, u2}
  Passwords = {p1}
  Uuids = {id1, id2}
  NoAccount = NoAccount
  NoUuid = NoUuid
  NoSession = NoSession
  NoId = NoId
  Malformed = Malformed
  Unhandled = Unhandled
  Nothing = Nothing
  Noise = {}
  IdSpace = 2
  DiskFaults = {"rename"}
  MaxLines = 2
  MaxTicks = 2
SPECIFICATION SysSpec
SYMMETRY Symmetry
INVARIANTS PlayersInv UpdatesContiguous NoLostUpdate
PROPERTIES ScreenGrows LedgerSpec
