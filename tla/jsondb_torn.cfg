CONSTANTS
  Users = {u1, u2}
  Passwords = {p1}
  Uuids = {id1, id2}
  r0 = r0
  r1 = r1
  Resources <- OneResource
  NoResources = r0
  Camps = {camp}
  Levels = {0}
  NoAccount = NoAccount
  NoUuid = NoUuid
  NoUser = NoUser
  Down = Down
  Absent = Absent
  Torn = Torn
  DiskFaults = {"write"}
SPECIFICATION Spec
INVARIANT AtomicWrite
