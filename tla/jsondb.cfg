CONSTANTS
  Users = {u1, u2}
  Passwords = {p1, p2}
  Uuids = {id1, id2}
  r0 = r0
  r1 = r1
  Resources <- MCResources
  NoResources = r0
  Camps = {camp}
  Levels = {0, 1}
  NoAccount = NoAccount
  NoUuid = NoUuid
  NoUser = NoUser
  Down = Down
  Absent = Absent
  Torn = Torn
  DiskFaults = {}
SPECIFICATION Spec
INVARIANTS IdleIsSynced IdentityDurable
PROPERTY StoreSpec
