------------------------------- MODULE JsonDB -------------------------------
(***************************************************************************)
(* The account database of the server: class JsonDB of JsonDB.hpp.  The    *)
(* accounts live in memory (m_accounts); every call that changes them ends *)
(* with save(), which writes the whole map to a temporary file and renames *)
(* it over the real one.  All public calls hold m_mutex from start to end, *)
(* so at most one call is under way; pc says which of its steps comes      *)
(* next.  The process may be killed between any two steps, and the file    *)
(* system may refuse the operations named in DiskFaults.                   *)
(***************************************************************************)
EXTENDS Naturals, FiniteSets

CONSTANTS
  Users,      \* user names, the keys of m_accounts
  Passwords,
  Uuids,      \* what generateUuid() may return
  Resources,  \* the values of struct Resources; the database never looks inside
  Camps,      \* camp names, the keys of campLevels
  Levels,     \* camp levels; 0 is what getCampLevel returns for an absent camp
  NoAccount,  \* a user that is not a key of m_accounts
  NoUuid,     \* no uuid was returned for this user yet
  NoUser,     \* no registration is under way
  Down,       \* see AccountStore
  Absent,     \* there is no such file
  Torn,       \* a file that is empty or cut short: not valid JSON
  NoResources,\* a default-constructed struct Resources
  DiskFaults  \* the file operations that may fail: open, write, rename, read

Account == [password : Passwords, uuid : Uuids, resources : Resources,
            campLevels : [Camps -> Levels]]

Accounts == [Users -> Account \cup {NoAccount}]

ASSUME ConstantsAssumption ==
  /\ 0 \in Levels
  /\ NoResources \in Resources
  /\ NoAccount \notin Account
  /\ NoUuid \notin Uuids
  /\ NoUser \notin Users
  /\ Absent # Torn
  /\ Down \notin Accounts
  /\ Absent \notin Accounts
  /\ Torn \notin Accounts
  /\ DiskFaults \subseteq {"open", "write", "rename", "read"}

VARIABLES
  m_accounts, \* the map in memory; meaningless while pc = "down"
  file,       \* what m_filepath holds
  tmp,        \* what m_filepath + ".tmp" holds
  pc,         \* "idle", or the next step of save(), or "down"
  adding,     \* the user an unfinished addUser is registering, or NoUser
  known       \* history: the uuid that addUser or getUser returned for a user

vars == <<m_accounts, file, tmp, pc, adding, known>>

NoAccounts == [u \in Users |-> NoAccount]

Registered(accounts) == {u \in Users : accounts[u] # NoAccount}

(* The users whose account carries this uuid, for the loops over m_accounts. *)
Holders(id) == {u \in Registered(m_accounts) : m_accounts[u].uuid = id}

(* What load() makes of a file it can read; it throws on a torn one. *)
Loaded(content) == IF content = Absent THEN NoAccounts ELSE content

TypeOK ==
  /\ m_accounts \in Accounts
  /\ file \in Accounts \cup {Absent, Torn}
  /\ tmp \in Accounts \cup {Absent, Torn}
  /\ pc \in {"down", "idle", "open", "write", "rename"}
  /\ adding \in Users \cup {NoUser}
  /\ known \in [Users -> Uuids \cup {NoUuid}]

Init ==
  /\ m_accounts = NoAccounts
  /\ file = Absent
  /\ tmp = Absent
  /\ pc = "down"
  /\ adding = NoUser
  /\ known = [u \in Users |-> NoUuid]

-----------------------------------------------------------------------------
(* The calls.  Each changes the map and leaves the rest to save(). *)

(* generateUuid(): 128 random bits, taken here to be fresh. *)
FreshUuids == {id \in Uuids : Holders(id) = {}}

NewAccount(p, id) ==
  [password |-> p, uuid |-> id, resources |-> NoResources,
   campLevels |-> [c \in Camps |-> 0]]

WithResources(account, r) == [account EXCEPT !.resources = r]

WithCamp(account, camp, level) ==
  [account EXCEPT !.campLevels = [@ EXCEPT ![camp] = level]]

(* Mutant: the check for an existing user is missing. *)
AddUserUnchecked(u, p) ==
  /\ pc = "idle"
  /\ \E id \in FreshUuids :
       m_accounts' = [m_accounts EXCEPT ![u] = NewAccount(p, id)]
  /\ pc' = "open"
  /\ adding' = u
  /\ UNCHANGED <<file, tmp, known>>

(* Mutant: addUser returns without calling save(). *)
AddUserUnsaved(u, p) ==
  /\ pc = "idle"
  /\ m_accounts[u] = NoAccount
  /\ \E id \in FreshUuids :
       /\ m_accounts' = [m_accounts EXCEPT ![u] = NewAccount(p, id)]
       /\ known' = [known EXCEPT ![u] = id]
  /\ UNCHANGED <<file, tmp, pc, adding>>

(* addUser throws when the user exists: then nothing changes. *)
AddUser(u, p) ==
  /\ pc = "idle"
  /\ m_accounts[u] = NoAccount
  /\ \E id \in FreshUuids :
       m_accounts' = [m_accounts EXCEPT ![u] = NewAccount(p, id)]
  /\ pc' = "open"
  /\ adding' = u
  /\ UNCHANGED <<file, tmp, known>>

(* getUser throws on an unknown user or a wrong password. *)
GetUser(u, p) ==
  /\ pc = "idle"
  /\ m_accounts[u] # NoAccount
  /\ m_accounts[u].password = p
  /\ known' = [known EXCEPT ![u] = m_accounts[u].uuid]
  /\ UNCHANGED <<m_accounts, file, tmp, pc, adding>>

(* updateResources and setCampLevel throw when no account has the uuid. *)
UpdateResources(id, r) ==
  /\ pc = "idle"
  /\ \E u \in Holders(id) :
       m_accounts' = [m_accounts EXCEPT ![u] = WithResources(@, r)]
  /\ pc' = "open"
  /\ UNCHANGED <<file, tmp, adding, known>>

(* Mutant: setCampLevel returns without calling save(). *)
SetCampLevelUnsaved(id, camp, level) ==
  /\ pc = "idle"
  /\ \E u \in Holders(id) :
       m_accounts' = [m_accounts EXCEPT ![u] = WithCamp(@, camp, level)]
  /\ UNCHANGED <<file, tmp, pc, adding, known>>

SetCampLevel(id, camp, level) ==
  /\ pc = "idle"
  /\ \E u \in Holders(id) :
       m_accounts' = [m_accounts EXCEPT ![u] = WithCamp(@, camp, level)]
  /\ pc' = "open"
  /\ UNCHANGED <<file, tmp, adding, known>>

-----------------------------------------------------------------------------
(* save(), step by step.  No step looks at the state of the stream. *)

(* std::ofstream out(tmp) truncates the temporary file. *)
SaveOpen ==
  /\ pc = "open"
  /\ tmp' = Torn
  /\ pc' = "write"
  /\ UNCHANGED <<m_accounts, file, adding, known>>

(* When it cannot be opened the writes are no-ops and save() goes on. *)
SaveOpenFails ==
  /\ pc = "open"
  /\ "open" \in DiskFaults
  /\ pc' = "rename"
  /\ UNCHANGED <<m_accounts, file, tmp, adding, known>>

(* The dump of the whole map is written and the stream closed. *)
SaveWrite ==
  /\ pc = "write"
  /\ tmp' = m_accounts
  /\ pc' = "rename"
  /\ UNCHANGED <<m_accounts, file, adding, known>>

(* A short write leaves the temporary file torn, and save() goes on. *)
SaveWriteFails ==
  /\ pc = "write"
  /\ "write" \in DiskFaults
  /\ pc' = "rename"
  /\ UNCHANGED <<m_accounts, file, tmp, adding, known>>

(* rename() replaces the file at once, and the call returns. *)
SaveRename ==
  /\ pc = "rename"
  /\ tmp # Absent
  /\ file' = tmp
  /\ tmp' = Absent
  /\ pc' = "idle"
  /\ known' = IF adding = NoUser THEN known
              ELSE [known EXCEPT ![adding] = m_accounts[adding].uuid]
  /\ adding' = NoUser
  /\ UNCHANGED m_accounts

(* rename() throws: the call does not return, the map keeps the change. *)
SaveRenameThrows ==
  /\ pc = "rename"
  /\ tmp = Absent \/ "rename" \in DiskFaults
  /\ pc' = "idle"
  /\ adding' = NoUser
  /\ UNCHANGED <<m_accounts, file, tmp, known>>

Save ==
  \/ SaveOpen \/ SaveOpenFails
  \/ SaveWrite \/ SaveWriteFails
  \/ SaveRename \/ SaveRenameThrows

-----------------------------------------------------------------------------
(* The process dies; later it is started again and the constructor loads.  *)

Crash ==
  /\ pc # "down"
  /\ pc' = "down"
  /\ m_accounts' = NoAccounts
  /\ adding' = NoUser
  /\ UNCHANGED <<file, tmp, known>>

(* Mutant: a complete temporary file left by a crash is preferred. *)
LoadLeftover ==
  /\ pc = "down"
  /\ file # Torn
  /\ m_accounts' = IF tmp \in {Absent, Torn} THEN Loaded(file) ELSE tmp
  /\ pc' = "idle"
  /\ UNCHANGED <<file, tmp, adding, known>>

(* On a torn file load() throws out of main: the process never comes up. *)
Load ==
  /\ pc = "down"
  /\ file # Torn
  /\ m_accounts' = Loaded(file)
  /\ pc' = "idle"
  /\ UNCHANGED <<file, tmp, adding, known>>

(* A file that exists but cannot be opened is taken for a missing one. *)
LoadUnreadable ==
  /\ pc = "down"
  /\ "read" \in DiskFaults
  /\ m_accounts' = NoAccounts
  /\ pc' = "idle"
  /\ UNCHANGED <<file, tmp, adding, known>>

Call ==
  \/ \E u \in Users, p \in Passwords : AddUser(u, p) \/ GetUser(u, p)
  \/ \E id \in Uuids, r \in Resources : UpdateResources(id, r)
  \/ \E id \in Uuids, c \in Camps, l \in Levels : SetCampLevel(id, c, l)

Next == Call \/ Save \/ Crash \/ Load \/ LoadUnreadable

Spec == Init /\ [][Next]_vars

-----------------------------------------------------------------------------
(* AtomicWrite: the account file is never torn, whatever step of save() the *)
(* process dies in.  This is the promise of save()'s "atomic write".        *)
AtomicWrite == file # Torn

(* IdleIsSynced: whenever no call is under way, a restart would find the    *)
(* accounts exactly as they are in memory, so nothing that a caller could   *)
(* have read (getUser, getResources, getCampLevels) is ever taken back.     *)
IdleIsSynced == pc = "idle" => Loaded(file) = m_accounts

(* IdentityDurable: a uuid that addUser or getUser returned for a user is   *)
(* the uuid of that user's account on disk from then on, across crashes in  *)
(* any step of any later save().                                            *)
IdentityDurable ==
  \A u \in Users : known[u] # NoUuid =>
    /\ file \in Accounts
    /\ file[u] # NoAccount
    /\ file[u].uuid = known[u]

(* IdentityKept: as long as the process lives, an account never disappears  *)
(* from memory and never changes its password or uuid, whatever the file    *)
(* system does; a repeated registration cannot take an account over.        *)
SameOwner(before, after) ==
  \A u \in Users : before[u] # NoAccount =>
    /\ after[u] # NoAccount
    /\ after[u].password = before[u].password
    /\ after[u].uuid = before[u].uuid

IdentityKept ==
  [][pc # "down" /\ pc' # "down" => SameOwner(m_accounts, m_accounts')]_vars

(* Store!Spec: seen from outside, the database keeps the promises of        *)
(* AccountStore: the durable accounts change only by taking over the whole  *)
(* map, although save() takes several steps and may be cut short.           *)
Store == INSTANCE AccountStore WITH
           durable <- Loaded(file),
           view <- IF pc = "down" THEN Down ELSE m_accounts

StoreSpec == Store!Spec

=============================================================================
