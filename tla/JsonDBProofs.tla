---------------------------- MODULE JsonDBProofs ----------------------------
(***************************************************************************)
(* Theorems about JsonDB for every set of users, uuids and values.  The    *)
(* type invariant comes first; AtomicWrite and the durability invariants   *)
(* rest on what is known at each step of save().                           *)
(***************************************************************************)
EXTENDS JsonDB, TLAPS

-----------------------------------------------------------------------------
(* Type correctness *)

(* A map with one account replaced by an account is a map of accounts. *)
LEMMA ReplacedAccount ==
  ASSUME NEW accounts \in Accounts, NEW u \in Users, NEW a \in Account
  PROVE  [accounts EXCEPT ![u] = a] \in Accounts
BY DEF Accounts

(* A registered user's account is an account. *)
LEMMA RegisteredAccount ==
  ASSUME NEW accounts \in Accounts, NEW u \in Users, accounts[u] # NoAccount
  PROVE  accounts[u] \in Account
BY DEF Accounts

(* What load() makes of a readable file is a map of accounts. *)
LEMMA LoadedAccounts ==
  ASSUME NEW content \in Accounts \cup {Absent}
  PROVE  Loaded(content) \in Accounts
BY DEF Loaded, NoAccounts, Accounts

(* A user that a loop over m_accounts stops at is registered. *)
LEMMA HolderRegistered ==
  ASSUME NEW id, NEW u \in Holders(id)
  PROVE  u \in Users /\ m_accounts[u] # NoAccount /\ m_accounts[u].uuid = id
BY DEF Holders, Registered

(* Changing the game data of an account leaves an account. *)
LEMMA ChangedResources ==
  ASSUME NEW a \in Account, NEW r \in Resources
  PROVE  WithResources(a, r) \in Account
BY DEF Account, WithResources

(* Changing a camp level leaves an account. *)
LEMMA ChangedCamp ==
  ASSUME NEW a \in Account, NEW camp \in Camps, NEW level \in Levels
  PROVE  WithCamp(a, camp, level) \in Account
BY DEF Account, WithCamp

(* The account that addUser makes is an account. *)
LEMMA NewAccountType ==
  ASSUME NEW p \in Passwords, NEW id \in Uuids
  PROVE  NewAccount(p, id) \in Account
BY ConstantsAssumption DEF NewAccount, Account

(* In a file, "torn" and "absent" are told apart from every map. *)
LEMMA FileContents ==
  ASSUME NEW content \in Accounts
  PROVE  content # Torn /\ content # Absent
BY ConstantsAssumption

(* What TypeOK rests on: the user that a save() under addUser is for is     *)
(* registered, so that the uuid returned at its end is one.                 *)
AddingRegistered ==
  adding # NoUser => pc # "idle" /\ pc # "down" /\ m_accounts[adding] # NoAccount

TypeInv == TypeOK /\ AddingRegistered

(* TypeInv is preserved by every step. *)
LEMMA TypeStep ==
  ASSUME TypeInv, [Next]_vars
  PROVE  TypeInv'
<1> USE DEF TypeInv, TypeOK, AddingRegistered
<1>1. ASSUME NEW u \in Users, NEW p \in Passwords, AddUser(u, p) PROVE TypeInv'
  <2>1. PICK id \in FreshUuids : m_accounts' = [m_accounts EXCEPT ![u] = NewAccount(p, id)]
    BY <1>1 DEF AddUser
  <2>2. NewAccount(p, id) \in Account /\ NewAccount(p, id) # NoAccount
    BY NewAccountType, ConstantsAssumption DEF FreshUuids
  <2>3. m_accounts' \in Accounts
    BY <2>1, <2>2, ReplacedAccount
  <2>4. m_accounts'[u] # NoAccount
    BY <2>1, <2>2 DEF Accounts
  <2> QED
    BY <1>1, <2>3, <2>4 DEF AddUser
<1>2. ASSUME NEW u \in Users, NEW p \in Passwords, GetUser(u, p) PROVE TypeInv'
  <2>1. m_accounts[u].uuid \in Uuids
    BY <1>2, RegisteredAccount DEF GetUser, Account
  <2> QED
    BY <1>2, <2>1 DEF GetUser
<1>3. ASSUME NEW id \in Uuids, NEW r \in Resources, UpdateResources(id, r) PROVE TypeInv'
  <2>1. PICK u \in Holders(id) : m_accounts' = [m_accounts EXCEPT ![u] = WithResources(@, r)]
    BY <1>3 DEF UpdateResources
  <2>2. u \in Users /\ m_accounts[u] \in Account
    BY HolderRegistered, RegisteredAccount
  <2>3. WithResources(m_accounts[u], r) \in Account
    BY <2>2, ChangedResources
  <2>4. m_accounts' \in Accounts
    BY <2>1, <2>2, <2>3, ReplacedAccount
  <2> QED
    BY <1>3, <2>4 DEF UpdateResources
<1>4. ASSUME NEW id \in Uuids, NEW camp \in Camps, NEW level \in Levels,
             SetCampLevel(id, camp, level)
      PROVE TypeInv'
  <2>1. PICK u \in Holders(id) :
          m_accounts' = [m_accounts EXCEPT ![u] = WithCamp(@, camp, level)]
    BY <1>4 DEF SetCampLevel
  <2>2. u \in Users /\ m_accounts[u] \in Account
    BY HolderRegistered, RegisteredAccount
  <2>3. WithCamp(m_accounts[u], camp, level) \in Account
    BY <2>2, ChangedCamp
  <2>4. m_accounts' \in Accounts
    BY <2>1, <2>2, <2>3, ReplacedAccount
  <2> QED
    BY <1>4, <2>4 DEF SetCampLevel
<1>5. CASE SaveOpen
  BY <1>5 DEF SaveOpen
<1>6. CASE SaveOpenFails
  BY <1>6 DEF SaveOpenFails
<1>7. CASE SaveWrite
  BY <1>7 DEF SaveWrite
<1>8. CASE SaveWriteFails
  BY <1>8 DEF SaveWriteFails
<1>9. CASE SaveRename
  <2>1. adding # NoUser => m_accounts[adding].uuid \in Uuids
    BY RegisteredAccount DEF Account
  <2> QED
    BY <1>9, <2>1 DEF SaveRename
<1>10. CASE SaveRenameThrows
  BY <1>10 DEF SaveRenameThrows
<1>11. CASE Crash
  BY <1>11 DEF Crash, NoAccounts, Accounts
<1>12. CASE Load
  BY <1>12, LoadedAccounts DEF Load
<1>13. CASE LoadUnreadable
  BY <1>13 DEF LoadUnreadable, NoAccounts, Accounts
<1>14. CASE UNCHANGED vars
  BY <1>14 DEF vars
<1> QED
  BY <1>1, <1>2, <1>3, <1>4, <1>5, <1>6, <1>7, <1>8, <1>9, <1>10, <1>11, <1>12, <1>13, <1>14
     DEF Next, Call, Save

LEMMA TypeInvariant == Spec => []TypeInv
<1>1. Init => TypeInv
  BY DEF Init, TypeInv, TypeOK, AddingRegistered, NoAccounts, Accounts
<1> QED
  BY <1>1, TypeStep, PTL DEF Spec

(* JsonDBTyped: the variables of JsonDB keep their types; in particular a   *)
(* call never hands out anything but a uuid.                                *)
THEOREM JsonDBTyped == Spec => []TypeOK
BY TypeInvariant, PTL DEF TypeInv

-----------------------------------------------------------------------------
(* The file *)

(* At the rename, the temporary file is the map: this holds when neither    *)
(* opening nor writing it fails, and is why the file is never torn.         *)
WholeInv ==
  /\ AtomicWrite
  /\ pc = "rename" => tmp = m_accounts

LEMMA WholeStep ==
  ASSUME DiskFaults \cap {"open", "write"} = {}, TypeInv, WholeInv, [Next]_vars
  PROVE  WholeInv'
<1> USE DEF WholeInv, AtomicWrite
<1>1. CASE Call
  BY <1>1 DEF Call, AddUser, GetUser, UpdateResources, SetCampLevel
<1>2. CASE SaveOpen \/ SaveOpenFails \/ SaveWrite \/ SaveWriteFails \/ SaveRenameThrows
  BY <1>2 DEF SaveOpen, SaveOpenFails, SaveWrite, SaveWriteFails, SaveRenameThrows
<1>3. CASE SaveRename
  BY <1>3, FileContents DEF SaveRename, TypeInv, TypeOK
<1>4. CASE Crash \/ Load \/ LoadUnreadable
  BY <1>4 DEF Crash, Load, LoadUnreadable
<1>5. CASE UNCHANGED vars
  BY <1>5 DEF vars
<1> QED
  BY <1>1, <1>2, <1>3, <1>4, <1>5 DEF Next, Save

LEMMA WholeInvariant ==
  ASSUME DiskFaults \cap {"open", "write"} = {}
  PROVE  Spec => [](TypeInv /\ WholeInv)
<1>1. Init => WholeInv
  BY ConstantsAssumption DEF Init, WholeInv, AtomicWrite
<1>2. TypeInv /\ WholeInv /\ [Next]_vars => WholeInv'
  BY WholeStep
<1> QED
  BY <1>1, <1>2, TypeInvariant, PTL DEF Spec

(* AtomicWriteHolds: as long as the temporary file can be opened and        *)
(* written, save() is the atomic write it says it is, whatever step the     *)
(* process dies in and whether the rename throws or not.                    *)
THEOREM AtomicWriteHolds ==
  ASSUME DiskFaults \cap {"open", "write"} = {}
  PROVE  Spec => []AtomicWrite
BY WholeInvariant, PTL DEF WholeInv

-----------------------------------------------------------------------------
(* Durability *)

(* A running process remembers every uuid that was handed out, so that a    *)
(* save() of the whole map keeps it in the file.                            *)
MemoryKeeps ==
  pc # "down" =>
    \A u \in Users : known[u] # NoUuid =>
      m_accounts[u] # NoAccount /\ m_accounts[u].uuid = known[u]

DurableInv == IdleIsSynced /\ IdentityDurable /\ MemoryKeeps

(* Changing an account's game data leaves every owner as it was. *)
LEMMA OwnersKept ==
  ASSUME TypeInv, NEW u \in Users, m_accounts[u] # NoAccount,
         NEW a \in Account, a.uuid = m_accounts[u].uuid, a.password = m_accounts[u].password,
         m_accounts' = [m_accounts EXCEPT ![u] = a]
  PROVE  SameOwner(m_accounts, m_accounts')
<1>1. m_accounts \in Accounts /\ a # NoAccount
  BY ConstantsAssumption DEF TypeInv, TypeOK
<1> QED
  BY <1>1 DEF Accounts, SameOwner

(* UpdateResources and SetCampLevel change the game data of one account. *)
LEMMA ChangesKeepOwners ==
  ASSUME TypeInv,
         \/ \E id \in Uuids, r \in Resources : UpdateResources(id, r)
         \/ \E id \in Uuids, c \in Camps, l \in Levels : SetCampLevel(id, c, l)
  PROVE  \E u \in Users, a \in Account :
           /\ m_accounts[u] # NoAccount
           /\ a.uuid = m_accounts[u].uuid
           /\ a.password = m_accounts[u].password
           /\ m_accounts' = [m_accounts EXCEPT ![u] = a]
<1>0. m_accounts \in Accounts
  BY DEF TypeInv, TypeOK
<1>1. ASSUME NEW id \in Uuids, NEW r \in Resources, UpdateResources(id, r)
      PROVE  \E u \in Users, a \in Account :
               /\ m_accounts[u] # NoAccount
               /\ a.uuid = m_accounts[u].uuid
               /\ a.password = m_accounts[u].password
               /\ m_accounts' = [m_accounts EXCEPT ![u] = a]
  <2>1. PICK u \in Holders(id) : m_accounts' = [m_accounts EXCEPT ![u] = WithResources(@, r)]
    BY <1>1 DEF UpdateResources
  <2>2. u \in Users /\ m_accounts[u] # NoAccount /\ m_accounts[u] \in Account
    BY <1>0, HolderRegistered, RegisteredAccount
  <2>3. WithResources(m_accounts[u], r) \in Account
    BY <2>2, ChangedResources
  <2>4. /\ WithResources(m_accounts[u], r).uuid = m_accounts[u].uuid
        /\ WithResources(m_accounts[u], r).password = m_accounts[u].password
    BY <2>2 DEF WithResources, Account
  <2> QED
    BY <2>1, <2>2, <2>3, <2>4
<1>2. ASSUME NEW id \in Uuids, NEW c \in Camps, NEW l \in Levels, SetCampLevel(id, c, l)
      PROVE  \E u \in Users, a \in Account :
               /\ m_accounts[u] # NoAccount
               /\ a.uuid = m_accounts[u].uuid
               /\ a.password = m_accounts[u].password
               /\ m_accounts' = [m_accounts EXCEPT ![u] = a]
  <2>1. PICK u \in Holders(id) : m_accounts' = [m_accounts EXCEPT ![u] = WithCamp(@, c, l)]
    BY <1>2 DEF SetCampLevel
  <2>2. u \in Users /\ m_accounts[u] # NoAccount /\ m_accounts[u] \in Account
    BY <1>0, HolderRegistered, RegisteredAccount
  <2>3. WithCamp(m_accounts[u], c, l) \in Account
    BY <2>2, ChangedCamp
  <2>4. /\ WithCamp(m_accounts[u], c, l).uuid = m_accounts[u].uuid
        /\ WithCamp(m_accounts[u], c, l).password = m_accounts[u].password
    BY <2>2 DEF WithCamp, Account
  <2> QED
    BY <2>1, <2>2, <2>3, <2>4
<1> QED
  BY <1>1, <1>2

(* A registration leaves every owner as it was. *)
LEMMA AddUserKeepsOwners ==
  ASSUME TypeInv, NEW u \in Users, NEW p \in Passwords, AddUser(u, p)
  PROVE  SameOwner(m_accounts, m_accounts')
BY DEF TypeInv, TypeOK, AddUser, Accounts, SameOwner

(* No call changes whose an account is. *)
LEMMA CallKeepsOwners ==
  ASSUME TypeInv, Call
  PROVE  SameOwner(m_accounts, m_accounts')
<1>1. ASSUME NEW u \in Users, NEW p \in Passwords, AddUser(u, p)
      PROVE  SameOwner(m_accounts, m_accounts')
  BY <1>1, AddUserKeepsOwners
<1>2. ASSUME NEW u \in Users, NEW p \in Passwords, GetUser(u, p)
      PROVE  SameOwner(m_accounts, m_accounts')
  BY <1>2 DEF GetUser, SameOwner
<1>3. CASE \/ \E id \in Uuids, r \in Resources : UpdateResources(id, r)
           \/ \E id \in Uuids, c \in Camps, l \in Levels : SetCampLevel(id, c, l)
  <2>1. PICK u \in Users, a \in Account :
          /\ m_accounts[u] # NoAccount
          /\ a.uuid = m_accounts[u].uuid
          /\ a.password = m_accounts[u].password
          /\ m_accounts' = [m_accounts EXCEPT ![u] = a]
    BY <1>3, ChangesKeepOwners
  <2> QED
    BY <2>1, OwnersKept
<1> QED
  BY <1>1, <1>2, <1>3 DEF Call

(* IdentityKeptHolds: whatever the file system does, an account of a        *)
(* running process never disappears and never changes hands.                *)
THEOREM IdentityKeptHolds == Spec => IdentityKept
<1>1. ASSUME TypeInv, [Next]_vars, pc # "down", pc' # "down"
      PROVE  SameOwner(m_accounts, m_accounts')
  <2>1. CASE Call
    BY <1>1, <2>1, CallKeepsOwners
  <2>2. CASE Save \/ UNCHANGED vars
    BY <2>2 DEF Save, SaveOpen, SaveOpenFails, SaveWrite, SaveWriteFails, SaveRename,
                SaveRenameThrows, vars, SameOwner
  <2>3. CASE Crash \/ Load \/ LoadUnreadable
    BY <1>1, <2>3 DEF Crash, Load, LoadUnreadable
  <2> QED
    BY <1>1, <2>1, <2>2, <2>3 DEF Next
<1>2. TypeInv /\ [Next]_vars
        => [pc # "down" /\ pc' # "down" => SameOwner(m_accounts, m_accounts')]_vars
  BY <1>1
<1> QED
  BY <1>2, TypeInvariant, PTL DEF Spec, IdentityKept

(* A file that holds the whole map is a map in which a known uuid is found. *)
LEMMA DurableStep ==
  ASSUME DiskFaults = {}, TypeInv, WholeInv, DurableInv, [Next]_vars
  PROVE  DurableInv'
<1> USE DEF DurableInv
<1>1. CASE Call
  <2>1. SameOwner(m_accounts, m_accounts') /\ pc = "idle" /\ UNCHANGED file
    BY <1>1, CallKeepsOwners DEF Call, AddUser, GetUser, UpdateResources, SetCampLevel
  <2>2. CASE \E u \in Users, p \in Passwords : GetUser(u, p)
    <3>1. PICK u \in Users : /\ m_accounts[u] # NoAccount
                             /\ known' = [known EXCEPT ![u] = m_accounts[u].uuid]
                             /\ UNCHANGED <<m_accounts, file, pc>>
      BY <2>2 DEF GetUser
    <3>2. file \in Accounts /\ file = m_accounts
      BY <2>1, <3>1 DEF IdleIsSynced, Loaded, NoAccounts, WholeInv, AtomicWrite, TypeInv, TypeOK
    <3> QED
      BY <3>1, <3>2 DEF IdleIsSynced, IdentityDurable, MemoryKeeps, TypeInv, TypeOK
  <2>3. CASE ~ \E u \in Users, p \in Passwords : GetUser(u, p)
    <3>1. pc' = "open" /\ UNCHANGED known
      BY <1>1, <2>3 DEF Call, AddUser, UpdateResources, SetCampLevel
    <3> QED
      BY <2>1, <3>1 DEF IdleIsSynced, IdentityDurable, MemoryKeeps, SameOwner
  <2> QED
    BY <2>2, <2>3
<1>2. CASE SaveOpen \/ SaveWrite
  BY <1>2 DEF SaveOpen, SaveWrite, IdleIsSynced, IdentityDurable, MemoryKeeps
<1>3. CASE SaveRename
  <2>1. file' = m_accounts /\ m_accounts \in Accounts /\ UNCHANGED m_accounts /\ pc # "down"
    BY <1>3 DEF SaveRename, WholeInv, TypeInv, TypeOK
  <2>2. \A u \in Users : known'[u] # NoUuid =>
          m_accounts[u] # NoAccount /\ m_accounts[u].uuid = known'[u]
    BY <1>3 DEF SaveRename, MemoryKeeps, TypeInv, TypeOK, AddingRegistered
  <2> QED
    BY <2>1, <2>2, FileContents DEF IdleIsSynced, IdentityDurable, MemoryKeeps, Loaded
<1>4. CASE SaveRenameThrows
  BY <1>4, FileContents DEF SaveRenameThrows, WholeInv, TypeInv, TypeOK
<1>5. CASE Crash
  BY <1>5 DEF Crash, IdleIsSynced, IdentityDurable, MemoryKeeps
<1>6. CASE Load
  BY <1>6, FileContents DEF Load, Loaded, IdleIsSynced, IdentityDurable, MemoryKeeps
<1>7. CASE SaveOpenFails \/ SaveWriteFails \/ LoadUnreadable
  BY <1>7 DEF SaveOpenFails, SaveWriteFails, LoadUnreadable
<1>8. CASE UNCHANGED vars
  BY <1>8 DEF vars, IdleIsSynced, IdentityDurable, MemoryKeeps
<1> QED
  BY <1>1, <1>2, <1>3, <1>4, <1>5, <1>6, <1>7, <1>8 DEF Next, Save

LEMMA DurableInvariant ==
  ASSUME DiskFaults = {}
  PROVE  Spec => []DurableInv
<1>1. Init => DurableInv
  BY DEF Init, DurableInv, IdleIsSynced, IdentityDurable, MemoryKeeps
<1>2. TypeInv /\ WholeInv /\ DurableInv /\ [Next]_vars => DurableInv'
  BY DurableStep
<1>3. DiskFaults \cap {"open", "write"} = {}
  OBVIOUS
<1>4. Spec => [](TypeInv /\ WholeInv)
  BY <1>3, WholeInvariant
<1> QED
  BY <1>1, <1>2, <1>4, PTL DEF Spec

(* IdleIsSyncedHolds: with a file system that does not fail, no value a     *)
(* caller can read between two calls is lost by a crash.                    *)
THEOREM IdleIsSyncedHolds ==
  ASSUME DiskFaults = {}
  PROVE  Spec => []IdleIsSynced
BY DurableInvariant, PTL DEF DurableInv

(* IdentityDurableHolds: with a file system that does not fail, a uuid that *)
(* was handed out is its user's uuid on disk for ever.                      *)
THEOREM IdentityDurableHolds ==
  ASSUME DiskFaults = {}
  PROVE  Spec => []IdentityDurable
BY DurableInvariant, PTL DEF DurableInv

-----------------------------------------------------------------------------
(* Refinement: JsonDB implements AccountStore *)

(* A registration in JsonDB is one in the store, not yet durable. *)
LEMMA AddUserRegisters ==
  ASSUME TypeInv, NEW u \in Users, NEW p \in Passwords, AddUser(u, p)
  PROVE  Store!Register(u)
<1>1. PICK id \in FreshUuids : m_accounts' = [m_accounts EXCEPT ![u] = NewAccount(p, id)]
  BY DEF AddUser
<1>2. NewAccount(p, id) \in Account
  BY NewAccountType DEF FreshUuids
<1>3. pc # "down" /\ pc' # "down" /\ m_accounts # Down /\ m_accounts[u] = NoAccount /\ UNCHANGED file
  BY ConstantsAssumption DEF AddUser, TypeInv, TypeOK
<1> QED
  BY <1>1, <1>2, <1>3 DEF Store!Register

(* Changing game data in JsonDB is a change in the store. *)
LEMMA ChangesChange ==
  ASSUME TypeInv,
         \/ \E id \in Uuids, r \in Resources : UpdateResources(id, r)
         \/ \E id \in Uuids, c \in Camps, l \in Levels : SetCampLevel(id, c, l)
  PROVE  \E u \in Users : Store!Change(u)
<1>1. PICK u \in Users, a \in Account :
        /\ m_accounts[u] # NoAccount
        /\ a.uuid = m_accounts[u].uuid
        /\ a.password = m_accounts[u].password
        /\ m_accounts' = [m_accounts EXCEPT ![u] = a]
  BY ChangesKeepOwners
<1>2. pc # "down" /\ pc' # "down" /\ m_accounts # Down /\ UNCHANGED file
  BY ConstantsAssumption DEF UpdateResources, SetCampLevel, TypeInv, TypeOK
<1>3. Store!Change(u)
  BY <1>1, <1>2 DEF Store!Change
<1> QED
  BY <1>3

(* Every step of JsonDB is a step of the store, or none. *)
LEMMA StoreStep ==
  ASSUME DiskFaults \subseteq {"rename"}, TypeInv, WholeInv, [Next]_vars
  PROVE  [Store!Next]_(Store!vars)
<1>1. ASSUME NEW u \in Users, NEW p \in Passwords, AddUser(u, p) PROVE Store!Next
  BY <1>1, AddUserRegisters DEF Store!Next
<1>2. ASSUME NEW u \in Users, NEW p \in Passwords, GetUser(u, p) PROVE UNCHANGED Store!vars
  BY <1>2 DEF GetUser, Store!vars
<1>3. CASE \/ \E id \in Uuids, r \in Resources : UpdateResources(id, r)
           \/ \E id \in Uuids, c \in Camps, l \in Levels : SetCampLevel(id, c, l)
  BY <1>3, ChangesChange DEF Store!Next
<1>4. CASE SaveOpen \/ SaveWrite \/ SaveRenameThrows
  BY <1>4 DEF SaveOpen, SaveWrite, SaveRenameThrows, Store!vars
<1>5. CASE SaveRename
  <2>1. /\ file' = m_accounts /\ m_accounts \in Accounts /\ m_accounts # Down
        /\ UNCHANGED m_accounts /\ pc = "rename" /\ pc' = "idle"
    BY <1>5, ConstantsAssumption DEF SaveRename, WholeInv, TypeInv, TypeOK
  <2>2. Loaded(file') = m_accounts
    BY <2>1, FileContents DEF Loaded
  <2>3. Loaded(file)' = m_accounts
    BY <2>2 DEF Loaded
  <2> QED
    BY <2>1, <2>3 DEF Store!Next, Store!Commit
<1>6. CASE Crash
  <2>1. m_accounts # Down
    BY ConstantsAssumption DEF TypeInv, TypeOK
  <2> QED
    BY <1>6, <2>1 DEF Crash, Loaded, Store!Next, Store!Crash
<1>7. CASE Load
  BY <1>7 DEF Load, Loaded, Store!Next, Store!Restart
<1>8. CASE SaveOpenFails \/ SaveWriteFails \/ LoadUnreadable
  BY <1>8 DEF SaveOpenFails, SaveWriteFails, LoadUnreadable
<1>9. CASE UNCHANGED vars
  BY <1>9 DEF vars, Loaded, Store!vars
<1> QED
  BY <1>1, <1>2, <1>3, <1>4, <1>5, <1>6, <1>7, <1>8, <1>9 DEF Next, Call, Save

(* StoreSpecHolds: save()'s steps, crashes and a throwing rename included,  *)
(* JsonDB is seen from outside as AccountStore: the durable accounts are    *)
(* the last map that was committed as a whole.                              *)
THEOREM StoreSpecHolds ==
  ASSUME DiskFaults \subseteq {"rename"}
  PROVE  Spec => StoreSpec
<1>1. Init => Store!Init
  BY ConstantsAssumption DEF Init, Loaded, NoAccounts, Store!Init
<1>2. TypeInv /\ WholeInv /\ [Next]_vars => [Store!Next]_(Store!vars)
  BY StoreStep
<1>3. DiskFaults \cap {"open", "write"} = {}
  OBVIOUS
<1>4. Spec => [](TypeInv /\ WholeInv)
  BY <1>3, WholeInvariant
<1> QED
  BY <1>1, <1>2, <1>4, PTL DEF Spec, StoreSpec, Store!Spec

=============================================================================
