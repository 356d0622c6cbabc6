------------------------------- MODULE Server -------------------------------
(***************************************************************************)
(* The server process: class Server of Server.cpp with its sessions, the   *)
(* login handler of main.cpp, and the account database as AccountStore     *)
(* promises it (each call that changes accounts makes the whole map        *)
(* durable at once, or throws, or the process dies before or after that).  *)
(* main() runs one thread in io_context::run(), so every handler is one    *)
(* step; handlers of different connections, the timer and the clients      *)
(* interleave in every order.                                              *)
(***************************************************************************)
EXTENDS Session, FiniteSets, Functions

CONSTANTS
  Users, Passwords, Uuids,
  NoAccount, NoUuid, NoSession, NoId,
  Unhandled,  \* a message whose type has no handler
  Noise,      \* which of Malformed and Unhandled the clients send
  IdSpace,    \* how many client ids there are: 256, m_nextClientId is a uint8_t
  DiskFaults, \* {"rename"} if save() may throw, {} if not
  MaxLines,   \* bound: lines all clients send together
  MaxTicks    \* bound: ResourceUpdates sent under one client id

ASSUME ConstantsAssumption ==
  /\ IdSpace \in Nat \ {0, 1}
  /\ MaxLines \in Nat
  /\ MaxTicks \in Nat
  /\ NoUuid \notin Uuids
  /\ NoSession \notin Conns
  /\ NoId \notin Nat
  /\ NoAccount \notin [password : Passwords, uuid : Uuids, wood : Nat]
  /\ NoAccount \notin Nat
  /\ Noise \subseteq {Malformed, Unhandled}
  /\ {Malformed, Unhandled} \cap [id : Users, password : Passwords] = {}

VARIABLES
  up,               \* the process is running
  m_nextClientId,
  m_sessions,       \* id -> connection of the session object, or NoSession
  m_lastSeqByType,  \* id -> last sequence of a ResourceUpdate, 0 if none
  m_clientId,       \* connection -> id its session object was made with
  m_uuid,           \* connection -> uuid its session is logged in as
  m_accounts,       \* the database in memory; no accounts while not up
  file,             \* the accounts a restart would load
  asked             \* history: the lines each client sent

dbVars == <<m_accounts, file>>
idVars == <<m_nextClientId, m_lastSeqByType, m_clientId>>
vars == <<sessionVars, up, m_sessions, m_uuid, idVars, dbVars, asked>>

(* wood stands for the three resources: every update adds the same to each. *)
Gain == 10

Credentials == [id : Users, password : Passwords]
Line == Credentials \cup Noise
Account == [password : Passwords, uuid : Uuids, wood : Nat]
Accounts == [Users -> Account \cup {NoAccount}]
ClientIds == 0 .. IdSpace - 1

Message ==
  [type : {"AssignClientId"}, sequence : {1}, clientId : ClientIds]
    \cup [type : {"LoginResult"}, sequence : {1}, uuid : Uuids]
    \cup [type : {"ResourceUpdate"}, sequence : Nat, uuid : Uuids, wood : Nat]

TypeOK ==
  /\ SessionTypeOK(Line, Message)
  /\ up \in BOOLEAN
  /\ m_nextClientId \in ClientIds
  /\ m_sessions \in [ClientIds -> Conns \cup {NoSession}]
  /\ m_lastSeqByType \in [ClientIds -> Nat]
  /\ m_clientId \in [Conns -> ClientIds \cup {NoId}]
  /\ m_uuid \in [Conns -> Uuids \cup {NoUuid}]
  /\ m_accounts \in Accounts
  /\ file \in Accounts
  /\ asked \in [Conns -> Seq(Line)]

NoAccounts == [u \in Users |-> NoAccount]

(* What the members of Server and of its sessions hold in a new process. *)
FreshServer(next, sessions, lastSeqs, clientIds, uuids) ==
  /\ next = 1
  /\ sessions = [i \in ClientIds |-> NoSession]
  /\ lastSeqs = [i \in ClientIds |-> 0]
  /\ clientIds = [c \in Conns |-> NoId]
  /\ uuids = [c \in Conns |-> NoUuid]

Init ==
  /\ SessionInit
  /\ up = TRUE
  /\ FreshServer(m_nextClientId, m_sessions, m_lastSeqByType, m_clientId, m_uuid)
  /\ m_accounts = NoAccounts
  /\ file = NoAccounts
  /\ asked = [c \in Conns |-> <<>>]

-----------------------------------------------------------------------------
(* The clients: they connect while the server listens, send lines, close. *)

ClientConnects(c) ==
  /\ up
  /\ Connect(c)
  /\ UNCHANGED <<up, m_sessions, m_uuid, idVars, dbVars, asked>>

LinesSent == FoldFunction(LAMBDA lines, n : Len(lines) + n, 0, asked)

ClientSends(c, line) ==
  /\ LinesSent < MaxLines
  /\ SendLine(c, line)
  /\ asked' = [asked EXCEPT ![c] = Append(@, line)]
  /\ UNCHANGED <<up, m_sessions, m_uuid, idVars, dbVars>>

ClientCloses(c) ==
  /\ Close(c)
  /\ UNCHANGED <<up, m_sessions, m_uuid, idVars, dbVars, asked>>

-----------------------------------------------------------------------------
(* Mutant: the session is stored under the counter after its increment. *)
onAcceptLate(c) ==
  /\ up
  /\ peer[c] # "new"
  /\ reader[c] = "none"
  /\ m_nextClientId' = (m_nextClientId + 1) % IdSpace
  /\ m_clientId' = [m_clientId EXCEPT ![c] = m_nextClientId]
  /\ m_sessions' = [m_sessions EXCEPT ![m_nextClientId'] = c]
  /\ SendEach(Only(c, [type |-> "AssignClientId", sequence |-> 1,
                       clientId |-> m_nextClientId]))
  /\ StartReading(c)
  /\ UNCHANGED <<peer, m_incoming, m_outgoing, writer, wire>>
  /\ UNCHANGED <<up, m_uuid, m_lastSeqByType, dbVars, asked>>

(* onAccept: a session under the next id, its handshake, its first read.    *)
(* A session that had the id keeps running but is in the map no more.       *)
onAccept(c) ==
  /\ up
  /\ peer[c] # "new"
  /\ reader[c] = "none"
  /\ m_nextClientId' = (m_nextClientId + 1) % IdSpace
  /\ m_clientId' = [m_clientId EXCEPT ![c] = m_nextClientId]
  /\ m_sessions' = [m_sessions EXCEPT ![m_nextClientId] = c]
  /\ SendEach(Only(c, [type |-> "AssignClientId", sequence |-> 1,
                       clientId |-> m_nextClientId]))
  /\ StartReading(c)
  /\ UNCHANGED <<peer, m_incoming, m_outgoing, writer, wire>>
  /\ UNCHANGED <<up, m_uuid, m_lastSeqByType, dbVars, asked>>

(* Mutant: a disconnect is only logged. *)
onClientDisconnectIgnored(id) == UNCHANGED m_sessions

(* onClientDisconnect: whatever session has the id is dropped from the map. *)
onClientDisconnect(id) == m_sessions' = [m_sessions EXCEPT ![id] = NoSession]

PostedRuns(c) ==
  /\ RunPosted(c)
  /\ UNCHANGED <<up, m_sessions, m_uuid, idVars, dbVars, asked>>

WriteCompletes(c) ==
  /\ WriteDone(c)
  /\ UNCHANGED <<up, m_sessions, m_uuid, idVars, dbVars, asked>>

WriteBreaks(c) ==
  /\ WriteFail(c)
  /\ onClientDisconnect(m_clientId[c])
  /\ UNCHANGED <<up, m_uuid, idVars, dbVars, asked>>

ReadBreaks(c) ==
  /\ ReadEnd(c)
  /\ onClientDisconnect(m_clientId[c])
  /\ UNCHANGED <<up, m_uuid, idVars, dbVars, asked>>

-----------------------------------------------------------------------------
(* The read handler of c with a line, and onClientMessage under it.  The    *)
(* login handler finds the session by the id of c, which is not always c.   *)

(* Mutant: the session that was accepted last. *)
TargetLatest(c) == m_sessions[(m_nextClientId + IdSpace - 1) % IdSpace]

Target(c) == m_sessions[m_clientId[c]]

(* It does not parse, or its type has no handler: it is only logged. *)
IgnoresLine(c) ==
  /\ \/ TakeMalformed(c)
     \/ TakeLine(c) /\ Head(m_incoming[c]) = Unhandled /\ UNCHANGED posted
  /\ UNCHANGED <<up, m_sessions, m_uuid, idVars, dbVars, asked>>

(* The next line of c is a LoginRequest with these credentials. *)
LoginRequest(c, cred) ==
  /\ TakeLine(c)
  /\ Head(m_incoming[c]) = cred

(* The account exists and the password is wrong: no reply. *)
LoginRejected(c, cred) ==
  /\ LoginRequest(c, cred)
  /\ m_accounts[cred.id] # NoAccount
  /\ m_accounts[cred.id].password # cred.password
  /\ UNCHANGED posted
  /\ UNCHANGED <<up, m_sessions, m_uuid, idVars, dbVars, asked>>

(* Mutant: verifyUser is not called. *)
VerifiedByName(cred) == m_accounts[cred.id] # NoAccount

(* userExists and verifyUser hold: the database is only read. *)
Verified(cred) ==
  /\ m_accounts[cred.id] # NoAccount
  /\ m_accounts[cred.id].password = cred.password

(* addUser: a fresh uuid, no resources yet. *)
Added(cred, id, accounts) ==
  /\ m_accounts[cred.id] = NoAccount
  /\ \A u \in Users : m_accounts[u] # NoAccount => m_accounts[u].uuid # id
  /\ accounts = [m_accounts EXCEPT ![cred.id] =
                   [password |-> cred.password, uuid |-> id, wood |-> 0]]

(* Mutant: the map is not written to the file. *)
Skipped == UNCHANGED file

(* save(): the file is replaced by the whole map. *)
Saved == file' = m_accounts'

(* The account is there, or added and saved: setUUID and the reply. *)
LoginSucceeds(c, cred) ==
  /\ LoginRequest(c, cred)
  /\ Target(c) # NoSession
  /\ \/ Verified(cred) /\ UNCHANGED dbVars
     \/ (\E id \in Uuids : Added(cred, id, m_accounts')) /\ Saved
  /\ LET uuid == m_accounts'[cred.id].uuid
     IN  /\ m_uuid' = [m_uuid EXCEPT ![Target(c)] = uuid]
         /\ SendEach(Only(Target(c), [type |-> "LoginResult", sequence |-> 1,
                                      uuid |-> uuid]))
  /\ UNCHANGED <<up, m_sessions, idVars, asked>>

(* save() throws in addUser: the account stays in memory, and the exception *)
(* is logged by the read handler, so there is no reply.                     *)
LoginSaveThrows(c, cred) ==
  /\ "rename" \in DiskFaults
  /\ LoginRequest(c, cred)
  /\ \E id \in Uuids : Added(cred, id, m_accounts')
  /\ UNCHANGED posted
  /\ UNCHANGED <<up, m_sessions, m_uuid, idVars, file, asked>>

-----------------------------------------------------------------------------
(* onResourceTick: every logged-in session is sent its account's resources, *)
(* increased and saved.  rank is the order of the loop over m_sessions.     *)

LoggedIn == {i \in ClientIds : m_sessions[i] # NoSession /\ m_uuid[m_sessions[i]] # NoUuid}

UuidOf(i) == m_uuid[m_sessions[i]]

TickOrders ==
  {rank \in [LoggedIn -> 1 .. Cardinality(LoggedIn)] :
     \A i, j \in LoggedIn : rank[i] = rank[j] => i = j}

(* Mutant: the pools are read before the loop, so one update per account *)
(* counts.                                                                *)
CreditedOnce(done) ==
  [u \in Users |->
     IF m_accounts[u] = NoAccount THEN NoAccount
     ELSE [m_accounts[u] EXCEPT !.wood =
             @ + IF \E i \in done : UuidOf(i) = m_accounts[u].uuid THEN Gain ELSE 0]]

(* The accounts after the updates of the sessions with the ids in done. *)
Credited(done) ==
  [u \in Users |->
     IF m_accounts[u] = NoAccount THEN NoAccount
     ELSE [m_accounts[u] EXCEPT !.wood =
             @ + Gain * Cardinality({i \in done : UuidOf(i) = m_accounts[u].uuid})]]

(* The resources stored under a uuid, in accounts. *)
WoodOf(accounts, id) ==
  accounts[CHOOSE u \in Users : accounts[u] # NoAccount /\ accounts[u].uuid = id].wood

(* The update for id i: the pool after everything up to i in the order. *)
UpdateFor(i, rank) ==
  [type |-> "ResourceUpdate",
   sequence |-> m_lastSeqByType[i] + 1,
   uuid |-> UuidOf(i),
   wood |-> WoodOf(Credited({j \in LoggedIn : rank[j] <= rank[i]}), UuidOf(i))]

(* Mutant: the sequence is counted for sessions that are not logged in, too. *)
onResourceTickCountsAll ==
  /\ up
  /\ LoggedIn # {}
  /\ \A i \in LoggedIn : m_lastSeqByType[i] < MaxTicks
  /\ \E rank \in TickOrders :
       SendEach([c \in Conns |->
                   IF \E i \in LoggedIn : m_sessions[i] = c
                   THEN <<UpdateFor(CHOOSE i \in LoggedIn : m_sessions[i] = c, rank)>>
                   ELSE <<>>])
  /\ m_lastSeqByType' = [i \in ClientIds |->
                           m_lastSeqByType[i] + IF m_sessions[i] # NoSession THEN 1 ELSE 0]
  /\ m_accounts' = Credited(LoggedIn)
  /\ Saved
  /\ UNCHANGED <<peer, m_incoming, reader, m_outgoing, writer, wire>>
  /\ UNCHANGED <<up, m_sessions, m_uuid, m_nextClientId, m_clientId, asked>>

(* The timer's handler.  When no session is logged in it only rearms the timer. *)
onResourceTick ==
  /\ up
  /\ LoggedIn # {}
  /\ \A i \in LoggedIn : m_lastSeqByType[i] < MaxTicks
  /\ \E rank \in TickOrders :
       SendEach([c \in Conns |->
                   IF \E i \in LoggedIn : m_sessions[i] = c
                   THEN <<UpdateFor(CHOOSE i \in LoggedIn : m_sessions[i] = c, rank)>>
                   ELSE <<>>])
  /\ m_lastSeqByType' = [i \in ClientIds |->
                           m_lastSeqByType[i] + IF i \in LoggedIn THEN 1 ELSE 0]
  /\ m_accounts' = Credited(LoggedIn)
  /\ Saved
  /\ UNCHANGED <<peer, m_incoming, reader, m_outgoing, writer, wire>>
  /\ UNCHANGED <<up, m_sessions, m_uuid, m_nextClientId, m_clientId, asked>>

-----------------------------------------------------------------------------
(* The process dies: all that is left are the clients and the file. *)

Dies ==
  /\ up' = FALSE
  /\ LoseSessions
  /\ FreshServer(m_nextClientId', m_sessions', m_lastSeqByType', m_clientId', m_uuid')
  /\ m_accounts' = NoAccounts
  /\ UNCHANGED asked

(* Killed between two handlers. *)
Killed == up /\ Dies /\ UNCHANGED file

(* The login handler got NoSession from getSession() and writes through the *)
(* null pointer, after an addUser that was saved.                           *)
NullSession(c, cred) ==
  /\ up
  /\ reader[c] = "armed"
  /\ m_incoming[c] # <<>>
  /\ Head(m_incoming[c]) = cred
  /\ Target(c) = NoSession
  /\ \/ Verified(cred) /\ UNCHANGED file
     \/ \E id \in Uuids : Added(cred, id, file')
  /\ Dies

(* Killed in the login handler, after addUser's save() and before the reply. *)
KilledInLogin(c, cred) ==
  /\ up
  /\ reader[c] = "armed"
  /\ m_incoming[c] # <<>>
  /\ Head(m_incoming[c]) = cred
  /\ \E id \in Uuids : Added(cred, id, file')
  /\ Dies

(* Killed in the tick, or save() throws out of io_context::run() and main(), *)
(* when some sessions, a prefix of the loop, have been updated.              *)
KilledInTick ==
  /\ up
  /\ \E rank \in TickOrders, done \in 1 .. Cardinality(LoggedIn) :
       file' = Credited({i \in LoggedIn : rank[i] <= done})
  /\ \A i \in LoggedIn : m_lastSeqByType[i] < MaxTicks
  /\ Dies

(* main() again: the database is loaded. *)
Restart ==
  /\ ~up
  /\ up' = TRUE
  /\ m_accounts' = file
  /\ UNCHANGED <<sessionVars, m_sessions, m_uuid, idVars, file, asked>>

-----------------------------------------------------------------------------
HandlesLine(c) ==
  \/ IgnoresLine(c)
  \/ \E cred \in Credentials :
       LoginRejected(c, cred) \/ LoginSucceeds(c, cred) \/ LoginSaveThrows(c, cred)

Client(c) ==
  \/ ClientConnects(c)
  \/ \E line \in Line : ClientSends(c, line)
  \/ ClientCloses(c)

Handler(c) ==
  \/ onAccept(c)
  \/ PostedRuns(c)
  \/ WriteCompletes(c) \/ WriteBreaks(c)
  \/ HandlesLine(c) \/ ReadBreaks(c)

Death ==
  \/ Killed
  \/ KilledInTick
  \/ \E c \in Conns, cred \in Credentials : NullSession(c, cred) \/ KilledInLogin(c, cred)

Next ==
  \/ \E c \in Conns : Client(c) \/ Handler(c)
  \/ onResourceTick
  \/ Death
  \/ Restart

Spec == Init /\ [][Next]_vars

(* The read handler of c runs, whatever becomes of the process in it. *)
Reads(c) ==
  \/ HandlesLine(c) \/ ReadBreaks(c)
  \/ \E cred \in Credentials : NullSession(c, cred)

(* run() executes every handler that is ready, a pending accept or read      *)
(* completes when there is something to take, and a pending write completes  *)
(* because the client's receive loop drains the socket until it closes it.   *)
(* Nothing restarts a dead process for sure, no client must send or close.   *)
Fairness ==
  \A c \in Conns :
    /\ WF_vars(onAccept(c))
    /\ WF_vars(PostedRuns(c))
    /\ WF_vars(WriteCompletes(c) \/ WriteBreaks(c))
    /\ WF_vars(Reads(c))

FairSpec == Spec /\ Fairness

-----------------------------------------------------------------------------
(* No other session of this process was given the id of c. *)
Unshared(c) == \A d \in Conns \ {c} : m_clientId[d] # m_clientId[c]

Updates(c) == {k \in 1 .. Len(Pipeline(c)) : Pipeline(c)[k].type = "ResourceUpdate"}

(* ReaderRegistered: a session that can still be handed a LoginRequest is   *)
(* the one that getSession and sendToClient find under its id, so the login *)
(* handler neither dereferences a null session nor logs in a stranger.      *)
(* It needs both conditions, of which FoundOrDisplaced says more.           *)
ReaderRegistered ==
  \A c \in Conns :
    reader[c] = "armed" /\ Unshared(c) /\ writer[c] # "failed"
      => m_sessions[m_clientId[c]] = c

(* FoundOrDisplaced: why getSession of a session that still reads does not  *)
(* find it, and a login from its client dereferences null or is answered to *)
(* someone else: a write of its own failed, or another connection was given *)
(* the same id, which has taken the entry or, by its disconnect, erased it. *)
(* No step of a connection with another id, of the tick or of a login ever  *)
(* takes a session out of the map.                                          *)
FoundOrDisplaced ==
  \A c \in Conns : reader[c] = "armed" =>
    \/ m_sessions[m_clientId[c]] = c
    \/ writer[c] = "failed"
    \/ \E d \in Conns \ {c} :
         /\ m_clientId[d] = m_clientId[c]
         /\ \/ m_sessions[m_clientId[c]] = d
            \/ reader[d] = "ended" \/ writer[d] = "failed"

(* RegisteredIsRead: whatever session an id leads to is the one it was given *)
(* to last, and that session's read loop still runs: each side of a session *)
(* reports its disconnect on its own, and perhaps to an id that was handed   *)
(* out again, and still none that stopped reading stays in the map, where    *)
(* nothing would ever take it out.                                           *)
RegisteredIsRead ==
  \A i \in ClientIds :
    m_sessions[i] # NoSession =>
      /\ reader[m_sessions[i]] = "armed"
      /\ m_clientId[m_sessions[i]] = i

(* OnlyOwnAccount: what a connection is sent about an account is about one  *)
(* whose name and password came in over that connection, across ticks,      *)
(* reconnections and several logins, as long as its id is not handed out    *)
(* again.                                                                   *)
OnlyOwnAccount ==
  \A c \in Conns : m_clientId[c] # NoId /\ Unshared(c) =>
    \A k \in 1 .. Len(Pipeline(c)) :
      Pipeline(c)[k].type # "AssignClientId" =>
        \E n \in 1 .. Len(asked[c]) :
          /\ asked[c][n] \in Credentials
          /\ m_accounts[asked[c][n].id] # NoAccount
          /\ m_accounts[asked[c][n].id].password = asked[c][n].password
          /\ m_accounts[asked[c][n].id].uuid = Pipeline(c)[k].uuid

(* UpdatesContiguous: the ResourceUpdates of a connection are numbered 1,   *)
(* 2, 3, ... without a gap, which the client insists on (Application::      *)
(* Update drops every other one), as long as its id is not handed out again *)
(* (m_lastSeqByType outlives the session).                                  *)
UpdatesContiguous ==
  \A c \in Conns : m_clientId[c] # NoId /\ Unshared(c) =>
    \A k \in Updates(c) :
      Pipeline(c)[k].sequence = Cardinality({j \in Updates(c) : j <= k})

(* NoLostUpdate: two ResourceUpdates about one account never carry the same *)
(* amount, whether one session or two were credited, in one tick or two,    *)
(* before or after a restart: no read-modify-write of the pool overwrote    *)
(* another one.                                                             *)
NoLostUpdate ==
  \A c, d \in Conns : \A k \in Updates(c), l \in Updates(d) :
    c # d \/ k # l => \/ Pipeline(c)[k].uuid # Pipeline(d)[l].uuid
                       \/ Pipeline(c)[k].wood # Pipeline(d)[l].wood

(* TickFindsAccounts: every logged-in session's uuid is in the database, so *)
(* getResources does not throw in the tick, which nobody would catch.       *)
TickFindsAccounts ==
  \A i \in LoggedIn : \E u \in Users :
    m_accounts[u] # NoAccount /\ m_accounts[u].uuid = UuidOf(i)

(* ResultIsDurable: a LoginResult's uuid is on disk before it is sent and   *)
(* stays there: a player who was told of a registration keeps the account   *)
(* over a restart.  It needs save() not to throw.                           *)
ResultIsDurable ==
  \A c \in Conns : \A k \in 1 .. Len(Pipeline(c)) :
    Pipeline(c)[k].type = "LoginResult" =>
      \E u \in Users : file[u] # NoAccount /\ file[u].uuid = Pipeline(c)[k].uuid

(* The stock of an account as a restart would find it, and the most that a  *)
(* client was sent of it.                                                   *)
Stock(id) ==
  IF \E u \in Users : file[u] # NoAccount /\ file[u].uuid = id
  THEN WoodOf(file, id) ELSE NoAccount

Shown(id) ==
  LET amounts == UNION {{wire[c][k].wood : k \in {k \in DOMAIN wire[c] :
                                                  /\ wire[c][k].type = "ResourceUpdate"
                                                  /\ wire[c][k].uuid = id}} : c \in Conns}
  IN  CHOOSE n \in amounts \cup {0} : \A m \in amounts : m <= n

ServerLedger == INSTANCE Ledger WITH
  NoStock <- NoAccount, MaxGains <- IdSpace,
  stock <- [id \in Uuids |-> Stock(id)], shown <- [id \in Uuids |-> Shown(id)]

(* LedgerSpec: seen from the players, the server with its sessions, ticks,  *)
(* failing saves, crashes and restarts is a Ledger: a stock on disk never   *)
(* shrinks or disappears, and what is sent never exceeds it.                *)
LedgerSpec == ServerLedger!Spec

=============================================================================
