---------------------------- MODULE ServerProofs ----------------------------
(***************************************************************************)
(* Proofs about Server, for any number of connections, users and client    *)
(* ids.  The invariant IInv joins what the handlers rely on from each      *)
(* other: the sessions' soundness (SessionProofs), a dead process has no   *)
(* reader and no session logged in, ids are given exactly by onAccept, and *)
(* every session's uuid is the uuid of an account in memory.               *)
(*                                                                         *)
(* The second part, from "Pipelines" on, is about what was sent: answers   *)
(* last, updates are the receiver's own, gapless and never of the same     *)
(* amount, and the server implements Ledger.  There each step either       *)
(* leaves the pipelines of all sessions as they are, or adds a message to  *)
(* some of them, or is the death of the process.                           *)
(*                                                                         *)
(* The last part, from "The server in the system" on, is about System:     *)
(* whatever the players do, the server stays a Server, so all that is      *)
(* shown of it holds; and what a client plays and shows is bound to        *)
(* messages that it was sent.                                              *)
(***************************************************************************)
EXTENDS System, SessionProofs, FiniteSetTheorems, SequenceTheorems

(* A dead process handles nothing and has nobody logged in. *)
DownInv ==
  ~up => /\ \A c \in Conns : reader[c] # "armed"
         /\ m_uuid = [c \in Conns |-> NoUuid]

(* onAccept starts reading and gives the id in one step. *)
IdInv ==
  \A c \in Conns :
    /\ reader[c] = "armed" => m_clientId[c] # NoId
    /\ reader[c] = "none" => m_clientId[c] = NoId

(* Some account in accounts has this uuid. *)
Known(accounts, id) == \E u \in Users : accounts[u] # NoAccount /\ accounts[u].uuid = id

(* TickFindsAccounts, also of the sessions that are in the map no more. *)
UuidInv == \A c \in Conns : m_uuid[c] # NoUuid => Known(m_accounts, m_uuid[c])

IInv ==
  /\ TypeOK
  /\ LoopInv
  /\ DownInv
  /\ IdInv
  /\ UuidInv
  /\ ReaderRegistered

-----------------------------------------------------------------------------
(* Accounts *)

(* Crediting keeps which accounts there are and whose they are. *)
LEMMA CreditedTyped ==
  ASSUME m_accounts \in Accounts, NEW done, done \subseteq ClientIds
  PROVE  /\ Credited(done) \in Accounts
         /\ \A id : Known(m_accounts, id) => Known(Credited(done), id)
<1>1. ASSUME NEW S, S \subseteq done PROVE Cardinality(S) \in Nat
  <2>1. IsFiniteSet(ClientIds)
    BY ConstantsAssumption, FS_Interval DEF ClientIds
  <2>2. IsFiniteSet(S)
    BY <1>1, <2>1, FS_Subset
  <2> QED
    BY <2>2, FS_CardinalityType
<1>2. ASSUME NEW u \in Users, m_accounts[u] # NoAccount
      PROVE  /\ Credited(done)[u] \in Account
             /\ Credited(done)[u].uuid = m_accounts[u].uuid
  <2> DEFINE S == {i \in done : UuidOf(i) = m_accounts[u].uuid}
  <2>1. Cardinality(S) \in Nat
    BY <1>1
  <2>2. m_accounts[u] \in Account
    BY <1>2 DEF Accounts
  <2> HIDE DEF S
  <2>3. m_accounts[u].wood + Gain * Cardinality(S) \in Nat
    BY <2>1, <2>2 DEF Account, Gain
  <2>4. Credited(done)[u] = [m_accounts[u] EXCEPT !.wood = @ + Gain * Cardinality(S)]
    BY <1>2 DEF Credited, S
  <2> QED
    BY <2>2, <2>3, <2>4 DEF Account
<1>3. ASSUME NEW u \in Users, m_accounts[u] = NoAccount
      PROVE  Credited(done)[u] = NoAccount
  BY <1>3 DEF Credited
<1>4. Credited(done) = [u \in Users |-> Credited(done)[u]]
  BY DEF Credited
<1>5. Credited(done) \in Accounts
  <2>1. \A u \in Users : Credited(done)[u] \in Account \cup {NoAccount}
    BY <1>2, <1>3
  <2> QED
    BY <2>1, <1>4 DEF Accounts
<1>6. NoAccount \notin Account
  BY ConstantsAssumption DEF Account
<1>7. ASSUME NEW id, Known(m_accounts, id) PROVE Known(Credited(done), id)
  BY <1>2, <1>6, <1>7 DEF Known
<1> QED
  BY <1>5, <1>7

(* addUser adds an account and leaves the others alone. *)
LEMMA AddedTyped ==
  ASSUME m_accounts \in Accounts, NEW cred \in Credentials, NEW id \in Uuids,
         NEW accounts, Added(cred, id, accounts)
  PROVE  /\ accounts \in Accounts
         /\ accounts[cred.id] # NoAccount
         /\ accounts[cred.id].uuid = id
         /\ \A x : Known(m_accounts, x) => Known(accounts, x)
<1> DEFINE account == [password |-> cred.password, uuid |-> id, wood |-> 0]
<1>1. account \in Account /\ account.uuid = id /\ cred.id \in Users
  BY DEF Credentials, Account
<1>2. account # NoAccount
  BY <1>1, ConstantsAssumption DEF Account
<1>3. accounts = [m_accounts EXCEPT ![cred.id] = account] /\ m_accounts[cred.id] = NoAccount
  BY DEF Added
<1> HIDE DEF account
<1> QED
  BY <1>1, <1>2, <1>3 DEF Accounts, Known

(* What the tick sends is a message. *)
LEMMA UpdateTyped ==
  ASSUME TypeOK, UuidInv, NEW i \in LoggedIn, NEW rank
  PROVE  UpdateFor(i, rank) \in Message
<1> DEFINE done == {j \in LoggedIn : rank[j] <= rank[i]}
           accounts == Credited(done)
<1>1. /\ i \in ClientIds /\ m_sessions[i] \in Conns
      /\ UuidOf(i) \in Uuids /\ Known(m_accounts, UuidOf(i))
      /\ m_lastSeqByType[i] + 1 \in Nat
  BY DEF LoggedIn, UuidOf, TypeOK, UuidInv
<1>2. done \subseteq ClientIds
  BY DEF LoggedIn
<1> HIDE DEF done
<1>3. accounts \in Accounts /\ Known(accounts, UuidOf(i))
  BY <1>1, <1>2, CreditedTyped DEF TypeOK
<1> HIDE DEF accounts
<1>4. WoodOf(accounts, UuidOf(i)) \in Nat
  BY <1>3 DEF WoodOf, Known, Accounts, Account
<1>5. UpdateFor(i, rank) = [type |-> "ResourceUpdate", sequence |-> m_lastSeqByType[i] + 1,
                            uuid |-> UuidOf(i), wood |-> WoodOf(accounts, UuidOf(i))]
  BY DEF UpdateFor, accounts, done
<1> QED
  BY <1>1, <1>4, <1>5 DEF Message

-----------------------------------------------------------------------------
(* The parts of IInv, by who can break them *)

(* The variables that are not the sessions'. *)
ServerTypeOK ==
  /\ up \in BOOLEAN
  /\ m_nextClientId \in ClientIds
  /\ m_sessions \in [ClientIds -> Conns \cup {NoSession}]
  /\ m_lastSeqByType \in [ClientIds -> Nat]
  /\ m_clientId \in [Conns -> ClientIds \cup {NoId}]
  /\ m_uuid \in [Conns -> Uuids \cup {NoUuid}]
  /\ m_accounts \in Accounts
  /\ file \in Accounts
  /\ asked \in [Conns -> Seq(Line)]

LEMMA TypeParts ==
  /\ TypeOK /\ LoopInv <=> Sound(Line, Message) /\ ServerTypeOK
  /\ (TypeOK /\ LoopInv)' <=> Sound(Line, Message)' /\ ServerTypeOK'
BY DEF TypeOK, ServerTypeOK, Sound

(* A step that reads, writes or sends, and leaves the readers, the ids, the *)
(* map, the accounts and the logins as they are.                            *)
LEMMA SameServer ==
  ASSUME IInv, UNCHANGED <<reader, up, m_sessions, m_uuid, m_clientId, m_accounts>>,
         \A c \in Conns : writer[c] = "failed" => writer'[c] = "failed"
  PROVE  DownInv' /\ IdInv' /\ UuidInv' /\ ReaderRegistered'
<1>1. DownInv' /\ IdInv' /\ UuidInv'
  BY DEF IInv, DownInv, IdInv, UuidInv, Known
<1>2. ReaderRegistered'
  BY DEF IInv, ReaderRegistered, Unshared
<1> QED
  BY <1>1, <1>2

-----------------------------------------------------------------------------
(* One lemma per kind of step *)

LEMMA InitInv ==
  ASSUME Init
  PROVE  IInv
<1>1. Sound(Line, Message)
  BY InitSound DEF Init
<1>2. ServerTypeOK
  BY ConstantsAssumption
  DEF Init, FreshServer, ServerTypeOK, NoAccounts, Accounts, ClientIds
<1>3. DownInv /\ IdInv /\ UuidInv /\ ReaderRegistered
  BY DEF Init, FreshServer, SessionInit, DownInv, IdInv, UuidInv, ReaderRegistered
<1> QED
  BY <1>1, <1>2, <1>3, TypeParts DEF IInv

LEMMA ClientInv ==
  ASSUME IInv, NEW c \in Conns, Client(c)
  PROVE  IInv'
<1>0. Sound(Line, Message) /\ ServerTypeOK
  BY TypeParts DEF IInv
<1>1. CASE ClientConnects(c)
  <2>1. Sound(Line, Message)'
    BY <1>0, <1>1, ConnectSound DEF ClientConnects
  <2>2. ServerTypeOK'
    BY <1>0, <1>1 DEF ClientConnects, ServerTypeOK, idVars, dbVars
  <2>3. DownInv' /\ IdInv' /\ UuidInv' /\ ReaderRegistered'
    BY <1>1, SameServer DEF ClientConnects, Connect, idVars, dbVars
  <2> QED
    BY <2>1, <2>2, <2>3, TypeParts DEF IInv
<1>2. CASE \E line \in Line : ClientSends(c, line)
  <2>0. PICK line \in Line : ClientSends(c, line)
    BY <1>2
  <2>1. Sound(Line, Message)'
    BY <1>0, <2>0, SendLineSound DEF ClientSends
  <2>2. ServerTypeOK'
    BY <1>0, <2>0 DEF ClientSends, ServerTypeOK, idVars, dbVars
  <2>3. DownInv' /\ IdInv' /\ UuidInv' /\ ReaderRegistered'
    BY <2>0, SameServer DEF ClientSends, SendLine, idVars, dbVars
  <2> QED
    BY <2>1, <2>2, <2>3, TypeParts DEF IInv
<1>3. CASE ClientCloses(c)
  <2>1. Sound(Line, Message)'
    BY <1>0, <1>3, CloseSound DEF ClientCloses
  <2>2. ServerTypeOK'
    BY <1>0, <1>3 DEF ClientCloses, ServerTypeOK, idVars, dbVars
  <2>3. DownInv' /\ IdInv' /\ UuidInv' /\ ReaderRegistered'
    BY <1>3, SameServer DEF ClientCloses, Close, idVars, dbVars
  <2> QED
    BY <2>1, <2>2, <2>3, TypeParts DEF IInv
<1> QED
  BY <1>1, <1>2, <1>3 DEF Client

(* The new session has an id that no live session shares, or shares it with *)
(* the session whose place in the map it takes.                             *)
LEMMA AcceptInv ==
  ASSUME IInv, NEW c \in Conns, onAccept(c)
  PROVE  IInv'
<1> DEFINE assign == [type |-> "AssignClientId", sequence |-> 1, clientId |-> m_nextClientId]
<1>0. Sound(Line, Message) /\ ServerTypeOK
  BY TypeParts DEF IInv
<1>1. posted' \in [Conns -> Seq(Message)]
  <2>1. assign \in Message
    BY <1>0 DEF ServerTypeOK, Message
  <2>2. \A x \in Conns : Only(c, assign)[x] \in Seq(Message)
    BY <2>1, OnlyTyped
  <2>3. SendEach(Only(c, assign))
    BY DEF onAccept
  <2> HIDE DEF assign
  <2> QED
    BY <1>0, <2>2, <2>3, SendEachTyped DEF Sound, SessionTypeOK
<1>2. Sound(Line, Message)'
  BY <1>0, <1>1, StartReadingSound DEF onAccept
<1>3. m_nextClientId' \in ClientIds
  BY <1>0, ConstantsAssumption DEF onAccept, ServerTypeOK, ClientIds
<1>4. ServerTypeOK'
  BY <1>0, <1>3 DEF onAccept, ServerTypeOK, dbVars
<1>5. m_nextClientId # NoId /\ m_nextClientId \in ClientIds
  BY <1>0, ConstantsAssumption DEF ServerTypeOK, ClientIds
<1>6. DownInv' /\ IdInv' /\ UuidInv'
  BY <1>0, <1>5
  DEF IInv, DownInv, IdInv, UuidInv, Known, onAccept, StartReading, dbVars, ServerTypeOK,
      Sound, SessionTypeOK
<1>7. ReaderRegistered'
  <2> SUFFICES ASSUME NEW d \in Conns, reader'[d] = "armed", Unshared(d)', writer'[d] # "failed"
               PROVE  m_sessions'[m_clientId'[d]] = d
    BY DEF ReaderRegistered
  <2>1. CASE d = c
    BY <1>0, <1>5, <2>1 DEF onAccept, ServerTypeOK
  <2>2. CASE d # c
    <3>1. /\ reader[d] = "armed" /\ writer[d] # "failed"
          /\ m_clientId'[d] = m_clientId[d] /\ m_clientId'[c] = m_nextClientId
      BY <1>0, <2>2 DEF onAccept, StartReading, ServerTypeOK, Sound, SessionTypeOK
    <3>2. m_clientId[d] # m_nextClientId
      BY <2>2, <3>1 DEF Unshared
    <3>3. m_clientId[c] = NoId /\ m_clientId[d] # NoId
      BY <3>1 DEF IInv, IdInv, onAccept
    <3>4. Unshared(d)
      BY <1>0, <3>1, <3>3 DEF Unshared, onAccept, ServerTypeOK
    <3>5. m_sessions[m_clientId[d]] = d
      BY <3>1, <3>4 DEF IInv, ReaderRegistered
    <3>6. m_clientId[d] \in ClientIds
      BY <1>0, <3>3 DEF ServerTypeOK
    <3> QED
      BY <1>0, <3>1, <3>2, <3>5, <3>6 DEF onAccept, ServerTypeOK
  <2> QED
    BY <2>1, <2>2
<1> QED
  BY <1>2, <1>4, <1>6, <1>7, TypeParts DEF IInv

LEMMA WriteInv ==
  ASSUME IInv, NEW c \in Conns, PostedRuns(c) \/ WriteCompletes(c)
  PROVE  IInv'
<1>0. Sound(Line, Message) /\ ServerTypeOK
  BY TypeParts DEF IInv
<1>1. CASE PostedRuns(c)
  <2>1. Sound(Line, Message)'
    BY <1>0, <1>1, RunPostedSound DEF PostedRuns
  <2>2. ServerTypeOK'
    BY <1>0, <1>1 DEF PostedRuns, ServerTypeOK, idVars, dbVars
  <2>3. \A d \in Conns : writer[d] = "failed" => writer'[d] = "failed"
    BY <1>0, <1>1 DEF PostedRuns, RunPosted, Sound, LoopInv, SessionTypeOK
  <2>4. DownInv' /\ IdInv' /\ UuidInv' /\ ReaderRegistered'
    BY <1>1, <2>3, SameServer DEF PostedRuns, RunPosted, idVars, dbVars
  <2> QED
    BY <2>1, <2>2, <2>4, TypeParts DEF IInv
<1>2. CASE WriteCompletes(c)
  <2>1. Sound(Line, Message)'
    BY <1>0, <1>2, WriteDoneSound DEF WriteCompletes
  <2>2. ServerTypeOK'
    BY <1>0, <1>2 DEF WriteCompletes, ServerTypeOK, idVars, dbVars
  <2>3. \A d \in Conns : writer[d] = "failed" => writer'[d] = "failed"
    BY <1>0, <1>2 DEF WriteCompletes, WriteDone, Sound, SessionTypeOK
  <2>4. DownInv' /\ IdInv' /\ UuidInv' /\ ReaderRegistered'
    BY <1>2, <2>3, SameServer DEF WriteCompletes, WriteDone, idVars, dbVars
  <2> QED
    BY <2>1, <2>2, <2>4, TypeParts DEF IInv
<1> QED
  BY <1>1, <1>2

(* The id of a session that is dropped is no live unshared session's id,    *)
(* but its own; and it is not armed, or has failed, from now on.            *)
LEMMA BreakInv ==
  ASSUME IInv, NEW c \in Conns, WriteBreaks(c) \/ ReadBreaks(c)
  PROVE  IInv'
<1>0. Sound(Line, Message) /\ ServerTypeOK
  BY TypeParts DEF IInv
<1>1. Sound(Line, Message)'
  BY <1>0, WriteFailSound, ReadEndSound DEF WriteBreaks, ReadBreaks
<1>2. /\ m_sessions' = [m_sessions EXCEPT ![m_clientId[c]] = NoSession]
      /\ UNCHANGED <<up, m_uuid, m_nextClientId, m_lastSeqByType, m_clientId, m_accounts,
                     file, asked>>
  BY DEF WriteBreaks, ReadBreaks, onClientDisconnect, idVars, dbVars
<1>3. ServerTypeOK'
  BY <1>0, <1>2 DEF ServerTypeOK
<1>4. /\ \A d \in Conns : reader'[d] = "armed" => reader[d] = "armed"
      /\ \A d \in Conns : reader'[d] = "none" => reader[d] = "none"
      /\ \A d \in Conns : writer[d] = "failed" => writer'[d] = "failed"
      /\ reader'[c] # "armed" \/ writer'[c] = "failed"
  BY <1>0 DEF WriteBreaks, ReadBreaks, WriteFail, ReadEnd, Sound, SessionTypeOK
<1>5. DownInv' /\ IdInv' /\ UuidInv'
  BY <1>2, <1>4 DEF IInv, DownInv, IdInv, UuidInv, Known
<1>6. ReaderRegistered'
  <2> SUFFICES ASSUME NEW d \in Conns, reader'[d] = "armed", Unshared(d)', writer'[d] # "failed"
               PROVE  m_sessions'[m_clientId[d]] = d
    BY <1>2 DEF ReaderRegistered
  <2>1. d # c
    BY <1>4
  <2>2. m_clientId[d] # m_clientId[c]
    BY <1>2, <2>1 DEF Unshared
  <2>3. m_clientId[d] \in ClientIds
    BY <1>0, <1>4 DEF IInv, IdInv, ServerTypeOK
  <2>4. m_sessions[m_clientId[d]] = d
    BY <1>2, <1>4 DEF IInv, ReaderRegistered, Unshared
  <2> QED
    BY <1>0, <1>2, <2>2, <2>3, <2>4 DEF ServerTypeOK
<1> QED
  BY <1>1, <1>3, <1>5, <1>6, TypeParts DEF IInv

-----------------------------------------------------------------------------
(* Lines: what is taken off, and what a login changes *)

LEMMA IgnoreInv ==
  ASSUME IInv, NEW c \in Conns,
         IgnoresLine(c) \/ \E cred \in Credentials : LoginRejected(c, cred)
  PROVE  IInv'
<1>0. Sound(Line, Message) /\ ServerTypeOK
  BY TypeParts DEF IInv
<1>1. /\ TakeLine(c) /\ UNCHANGED posted
      /\ UNCHANGED <<up, m_sessions, m_uuid, idVars, dbVars, asked>>
  BY DEF IgnoresLine, TakeMalformed, LoginRejected, LoginRequest
<1>2. Sound(Line, Message)'
  <2>1. posted' \in [Conns -> Seq(Message)]
    BY <1>0, <1>1 DEF Sound, SessionTypeOK
  <2> QED
    BY <1>0, <1>1, <2>1, TakeLineSound
<1>3. ServerTypeOK'
  BY <1>0, <1>1 DEF ServerTypeOK, idVars, dbVars
<1>4. DownInv' /\ IdInv' /\ UuidInv' /\ ReaderRegistered'
  BY <1>1, SameServer DEF TakeLine, idVars, dbVars
<1> QED
  BY <1>2, <1>3, <1>4, TypeParts DEF IInv

(* A login changes the accounts, the uuid of one session, and posted. *)
LEMMA LoginKeeps ==
  ASSUME IInv, NEW c \in Conns, TakeLine(c), UNCHANGED <<up, m_sessions, m_clientId>>
  PROVE  DownInv' /\ IdInv' /\ ReaderRegistered'
<1>1. up /\ UNCHANGED <<reader, writer>>
  BY DEF IInv, DownInv, TakeLine
<1>2. DownInv' /\ IdInv'
  BY <1>1 DEF IInv, DownInv, IdInv
<1>3. ReaderRegistered'
  BY <1>1 DEF IInv, ReaderRegistered, Unshared
<1> QED
  BY <1>2, <1>3

LEMMA LoginSucceedsInv ==
  ASSUME IInv, NEW c \in Conns, NEW cred \in Credentials, LoginSucceeds(c, cred)
  PROVE  IInv'
<1> DEFINE granted == m_accounts'[cred.id].uuid
           result == [type |-> "LoginResult", sequence |-> 1, uuid |-> granted]
<1>0. Sound(Line, Message) /\ ServerTypeOK
  BY TypeParts DEF IInv
<1>1. /\ m_accounts' \in Accounts /\ file' \in Accounts
      /\ m_accounts'[cred.id] # NoAccount
      /\ \A x : Known(m_accounts, x) => Known(m_accounts', x)
  <2>1. CASE Verified(cred) /\ UNCHANGED dbVars
    BY <1>0, <2>1 DEF Verified, dbVars, ServerTypeOK, Known
  <2>2. CASE (\E id \in Uuids : Added(cred, id, m_accounts')) /\ Saved
    BY <1>0, <2>2, AddedTyped DEF Saved, ServerTypeOK
  <2> QED
    BY <2>1, <2>2 DEF LoginSucceeds
<1>2. granted \in Uuids /\ Known(m_accounts', granted)
  BY <1>1 DEF Credentials, Accounts, Account, Known
<1>3. /\ TakeLine(c)
      /\ m_uuid' = [m_uuid EXCEPT ![Target(c)] = granted]
      /\ SendEach(Only(Target(c), result))
      /\ UNCHANGED <<up, m_sessions, m_nextClientId, m_lastSeqByType, m_clientId, asked>>
  BY DEF LoginSucceeds, LoginRequest, idVars
<1>4. Sound(Line, Message)'
  <2>1. result \in Message
    BY <1>2 DEF Message
  <2>2. \A x \in Conns : Only(Target(c), result)[x] \in Seq(Message)
    BY <2>1, OnlyTyped
  <2>3. posted \in [Conns -> Seq(Message)]
    BY <1>0 DEF Sound, SessionTypeOK
  <2> HIDE DEF result
  <2>4. posted' \in [Conns -> Seq(Message)]
    BY <1>3, <2>2, <2>3, SendEachTyped
  <2> QED
    BY <1>0, <1>3, <2>4, TakeLineSound
<1> HIDE DEF granted
<1>5. ServerTypeOK'
  BY <1>0, <1>1, <1>2, <1>3 DEF ServerTypeOK
<1>6. UuidInv'
  <2> SUFFICES ASSUME NEW d \in Conns, m_uuid'[d] # NoUuid PROVE Known(m_accounts', m_uuid'[d])
    BY DEF UuidInv, Known
  <2>1. CASE d = Target(c)
    BY <1>0, <1>2, <1>3, <2>1 DEF ServerTypeOK
  <2>2. CASE d # Target(c)
    BY <1>0, <1>1, <1>3, <2>2 DEF ServerTypeOK, IInv, UuidInv
  <2> QED
    BY <2>1, <2>2
<1>7. DownInv' /\ IdInv' /\ ReaderRegistered'
  BY <1>3, LoginKeeps
<1> QED
  BY <1>4, <1>5, <1>6, <1>7, TypeParts DEF IInv

LEMMA LoginSaveThrowsInv ==
  ASSUME IInv, NEW c \in Conns, NEW cred \in Credentials, LoginSaveThrows(c, cred)
  PROVE  IInv'
<1>0. Sound(Line, Message) /\ ServerTypeOK
  BY TypeParts DEF IInv
<1>1. m_accounts' \in Accounts /\ \A x : Known(m_accounts, x) => Known(m_accounts', x)
  BY <1>0, AddedTyped DEF LoginSaveThrows, ServerTypeOK
<1>2. /\ TakeLine(c)
      /\ UNCHANGED <<posted, up, m_sessions, m_uuid, m_nextClientId, m_lastSeqByType,
                     m_clientId, file, asked>>
  BY DEF LoginSaveThrows, LoginRequest, idVars
<1>3. Sound(Line, Message)'
  <2>1. posted' \in [Conns -> Seq(Message)]
    BY <1>0, <1>2 DEF Sound, SessionTypeOK
  <2> QED
    BY <1>0, <1>2, <2>1, TakeLineSound
<1>4. ServerTypeOK'
  BY <1>0, <1>1, <1>2 DEF ServerTypeOK
<1>5. UuidInv'
  BY <1>1, <1>2 DEF IInv, UuidInv, Known
<1>6. DownInv' /\ IdInv' /\ ReaderRegistered'
  BY <1>2, LoginKeeps
<1> QED
  BY <1>3, <1>4, <1>5, <1>6, TypeParts DEF IInv

-----------------------------------------------------------------------------
(* The tick *)

LEMMA TickInv ==
  ASSUME IInv, onResourceTick
  PROVE  IInv'
<1>0. Sound(Line, Message) /\ ServerTypeOK
  BY TypeParts DEF IInv
<1>1. PICK rank \in TickOrders :
        SendEach([c \in Conns |->
                    IF \E i \in LoggedIn : m_sessions[i] = c
                    THEN <<UpdateFor(CHOOSE i \in LoggedIn : m_sessions[i] = c, rank)>>
                    ELSE <<>>])
  BY DEF onResourceTick
<1> DEFINE batch == [c \in Conns |->
                       IF \E i \in LoggedIn : m_sessions[i] = c
                       THEN <<UpdateFor(CHOOSE i \in LoggedIn : m_sessions[i] = c, rank)>>
                       ELSE <<>>]
<1>2. ASSUME NEW c \in Conns PROVE batch[c] \in Seq(Message)
  <2>1. CASE \E i \in LoggedIn : m_sessions[i] = c
    <3>1. PICK j : j = (CHOOSE i \in LoggedIn : m_sessions[i] = c)
      OBVIOUS
    <3>2. j \in LoggedIn
      BY <2>1, <3>1
    <3>3. UpdateFor(j, rank) \in Message
      BY <3>2, UpdateTyped DEF IInv
    <3>4. batch[c] = <<UpdateFor(j, rank)>>
      BY <2>1, <3>1
    <3> HIDE DEF batch
    <3> QED
      BY <3>3, <3>4
  <2>2. CASE ~ \E i \in LoggedIn : m_sessions[i] = c
    BY <2>2
  <2> QED
    BY <2>1, <2>2
<1>3. posted' \in [Conns -> Seq(Message)]
  <2>1. SendEach(batch) /\ posted \in [Conns -> Seq(Message)]
    BY <1>0, <1>1 DEF Sound, SessionTypeOK
  <2> HIDE DEF batch
  <2> QED
    BY <1>2, <2>1, SendEachTyped
<1>4. /\ up
      /\ UNCHANGED <<peer, m_incoming, reader, m_outgoing, writer, wire>>
      /\ UNCHANGED <<up, m_sessions, m_uuid, m_nextClientId, m_clientId, asked>>
      /\ m_accounts' = Credited(LoggedIn) /\ file' = m_accounts'
      /\ m_lastSeqByType' = [i \in ClientIds |->
                               m_lastSeqByType[i] + IF i \in LoggedIn THEN 1 ELSE 0]
  BY DEF onResourceTick, Saved
<1>5. Sound(Line, Message)'
  BY <1>0, <1>3, <1>4 DEF Sound, SessionTypeOK, LoopInv
<1>6. /\ m_accounts' \in Accounts
      /\ \A x : Known(m_accounts, x) => Known(m_accounts', x)
  <2>1. LoggedIn \subseteq ClientIds
    BY DEF LoggedIn
  <2> QED
    BY <1>0, <1>4, <2>1, CreditedTyped DEF ServerTypeOK
<1>7. ServerTypeOK'
  BY <1>0, <1>4, <1>6 DEF ServerTypeOK
<1>8. DownInv' /\ IdInv'
  BY <1>4 DEF IInv, DownInv, IdInv
<1>9. UuidInv'
  BY <1>4, <1>6 DEF IInv, UuidInv, Known
<1>10. ReaderRegistered'
  BY <1>4 DEF IInv, ReaderRegistered, Unshared
<1> QED
  BY <1>5, <1>7, <1>8, <1>9, <1>10, TypeParts DEF IInv

-----------------------------------------------------------------------------
(* Death and restart *)

LEMMA DiesInv ==
  ASSUME IInv, Dies, file' \in Accounts
  PROVE  IInv'
<1>0. Sound(Line, Message) /\ ServerTypeOK
  BY TypeParts DEF IInv
<1>1. Sound(Line, Message)'
  BY <1>0, LoseSessionsSound DEF Dies
<1>2. ServerTypeOK'
  <2>1. /\ m_nextClientId' = 1 /\ 1 \in ClientIds
        /\ up' = FALSE /\ asked' = asked
    BY ConstantsAssumption DEF Dies, FreshServer, ClientIds
  <2>2. /\ m_sessions' \in [ClientIds -> Conns \cup {NoSession}]
        /\ m_lastSeqByType' \in [ClientIds -> Nat]
        /\ m_clientId' \in [Conns -> ClientIds \cup {NoId}]
        /\ m_uuid' \in [Conns -> Uuids \cup {NoUuid}]
    BY DEF Dies, FreshServer
  <2>3. m_accounts' \in Accounts
    BY DEF Dies, NoAccounts, Accounts
  <2> QED
    BY <1>0, <2>1, <2>2, <2>3 DEF ServerTypeOK
<1>3. \A c \in Conns : reader'[c] # "armed" /\ m_uuid'[c] = NoUuid /\ m_clientId'[c] = NoId
  BY DEF Dies, LoseSessions, FreshServer
<1>4. DownInv'
  BY DEF Dies, LoseSessions, FreshServer, DownInv
<1>5. IdInv' /\ UuidInv' /\ ReaderRegistered'
  BY <1>3 DEF IdInv, UuidInv, ReaderRegistered
<1> QED
  BY <1>1, <1>2, <1>4, <1>5, TypeParts DEF IInv

LEMMA DeathInv ==
  ASSUME IInv, Death
  PROVE  IInv'
<1>1. m_accounts \in Accounts /\ file \in Accounts
  BY DEF IInv, TypeOK
<1>2. CASE Killed
  BY <1>1, <1>2, DiesInv DEF Killed
<1>3. CASE KilledInTick
  <2>1. PICK rank \in TickOrders, done \in 1 .. Cardinality(LoggedIn) :
          file' = Credited({i \in LoggedIn : rank[i] <= done})
    BY <1>3 DEF KilledInTick
  <2>2. {i \in LoggedIn : rank[i] <= done} \subseteq ClientIds
    BY DEF LoggedIn
  <2>3. file' \in Accounts
    BY <1>1, <2>1, <2>2, CreditedTyped
  <2> QED
    BY <1>3, <2>3, DiesInv DEF KilledInTick
<1>4. ASSUME NEW c \in Conns, NEW cred \in Credentials,
             NullSession(c, cred) \/ KilledInLogin(c, cred)
      PROVE  IInv'
  <2>1. UNCHANGED file \/ \E id \in Uuids : Added(cred, id, file')
    BY <1>4 DEF NullSession, KilledInLogin
  <2>2. file' \in Accounts
    BY <1>1, <2>1, AddedTyped
  <2> QED
    BY <1>4, <2>2, DiesInv DEF NullSession, KilledInLogin
<1> QED
  BY <1>2, <1>3, <1>4 DEF Death

LEMMA RestartInv ==
  ASSUME IInv, Restart
  PROVE  IInv'
<1>0. Sound(Line, Message) /\ ServerTypeOK
  BY TypeParts DEF IInv
<1>1. Sound(Line, Message)'
  BY <1>0 DEF Restart, sessionVars, Sound, SessionTypeOK, LoopInv
<1>2. ServerTypeOK'
  BY <1>0 DEF Restart, idVars, ServerTypeOK
<1>3. \A c \in Conns : m_uuid'[c] = NoUuid
  BY DEF Restart, IInv, DownInv
<1>4. DownInv' /\ UuidInv'
  BY <1>3 DEF Restart, DownInv, UuidInv
<1>5. IdInv' /\ ReaderRegistered'
  BY DEF Restart, sessionVars, idVars, IInv, IdInv, ReaderRegistered, Unshared
<1> QED
  BY <1>1, <1>2, <1>4, <1>5, TypeParts DEF IInv

-----------------------------------------------------------------------------
(* Every step keeps IInv. *)

LEMMA NextInv ==
  ASSUME IInv, [Next]_vars
  PROVE  IInv'
<1>1. ASSUME NEW c \in Conns, Client(c) PROVE IInv'
  BY <1>1, ClientInv
<1>2. ASSUME NEW c \in Conns, Handler(c) PROVE IInv'
  <2>1. ASSUME HandlesLine(c) PROVE IInv'
    BY <2>1, IgnoreInv, LoginSucceedsInv, LoginSaveThrowsInv DEF HandlesLine
  <2> QED
    BY <1>2, <2>1, AcceptInv, WriteInv, BreakInv DEF Handler
<1>3. CASE UNCHANGED vars
  BY <1>3
  DEF vars, sessionVars, idVars, dbVars, IInv, TypeOK, SessionTypeOK, LoopInv, DownInv, IdInv,
      UuidInv, Known, ReaderRegistered, Unshared
<1> QED
  BY <1>1, <1>2, <1>3, TickInv, DeathInv, RestartInv DEF Next

LEMMA InvHolds == Spec => []IInv
BY InitInv, NextInv, PTL DEF Spec

-----------------------------------------------------------------------------
(* RegisteredIsRead: only onAccept registers, and it starts to read; only   *)
(* ReadEnd stops reading, and its session, if it is in the map at all, is   *)
(* under the id whose entry is erased.                                      *)

LEMMA SameRegistered ==
  ASSUME RegisteredIsRead, UNCHANGED <<reader, m_sessions, m_clientId>>
  PROVE  RegisteredIsRead'
BY DEF RegisteredIsRead

LEMMA AcceptRegistered ==
  ASSUME IInv, RegisteredIsRead, NEW c \in Conns, onAccept(c)
  PROVE  RegisteredIsRead'
<1>1. /\ m_sessions \in [ClientIds -> Conns \cup {NoSession}]
      /\ m_clientId \in [Conns -> ClientIds \cup {NoId}]
      /\ reader \in [Conns -> {"none", "armed", "ended"}]
  BY DEF IInv, TypeOK, SessionTypeOK
<1>2. /\ reader[c] = "none"
      /\ reader' = [reader EXCEPT ![c] = "armed"]
      /\ m_clientId' = [m_clientId EXCEPT ![c] = m_nextClientId]
      /\ m_sessions' = [m_sessions EXCEPT ![m_nextClientId] = c]
  BY DEF onAccept, StartReading
<1> SUFFICES ASSUME NEW i \in ClientIds, m_sessions'[i] # NoSession
             PROVE  reader'[m_sessions'[i]] = "armed" /\ m_clientId'[m_sessions'[i]] = i
  BY DEF RegisteredIsRead
<1>3. CASE i = m_nextClientId
  BY <1>1, <1>2, <1>3
<1>4. CASE i # m_nextClientId
  <2>1. m_sessions'[i] = m_sessions[i] /\ m_sessions[i] \in Conns
    BY <1>1, <1>2, <1>4
  <2>2. reader[m_sessions[i]] = "armed" /\ m_clientId[m_sessions[i]] = i
    BY <2>1 DEF RegisteredIsRead
  <2>3. m_sessions[i] # c
    BY <1>2, <2>2
  <2> QED
    BY <1>1, <1>2, <2>1, <2>2, <2>3
<1> QED
  BY <1>3, <1>4

LEMMA BreakRegistered ==
  ASSUME IInv, RegisteredIsRead, NEW c \in Conns, WriteBreaks(c) \/ ReadBreaks(c)
  PROVE  RegisteredIsRead'
<1>1. /\ m_sessions \in [ClientIds -> Conns \cup {NoSession}]
      /\ reader \in [Conns -> {"none", "armed", "ended"}]
  BY DEF IInv, TypeOK, SessionTypeOK
<1>2. /\ m_sessions' = [m_sessions EXCEPT ![m_clientId[c]] = NoSession]
      /\ m_clientId' = m_clientId
      /\ \A d \in Conns \ {c} : reader'[d] = reader[d]
  BY <1>1 DEF WriteBreaks, ReadBreaks, onClientDisconnect, idVars, WriteFail, ReadEnd
<1> SUFFICES ASSUME NEW i \in ClientIds, m_sessions'[i] # NoSession
             PROVE  reader'[m_sessions'[i]] = "armed" /\ m_clientId'[m_sessions'[i]] = i
  BY DEF RegisteredIsRead
<1>3. i # m_clientId[c] /\ m_sessions'[i] = m_sessions[i] /\ m_sessions[i] \in Conns
  BY <1>1, <1>2
<1>4. reader[m_sessions[i]] = "armed" /\ m_clientId[m_sessions[i]] = i
  BY <1>3 DEF RegisteredIsRead
<1>5. m_sessions[i] # c
  BY <1>3, <1>4
<1> QED
  BY <1>2, <1>3, <1>4, <1>5

LEMMA NextRegistered ==
  ASSUME IInv, RegisteredIsRead, [Next]_vars
  PROVE  RegisteredIsRead'
<1>1. ASSUME NEW c \in Conns, Client(c) PROVE RegisteredIsRead'
  BY <1>1, SameRegistered
  DEF Client, ClientConnects, ClientSends, ClientCloses, Connect, SendLine, Close, idVars
<1>2. ASSUME NEW c \in Conns, Handler(c) PROVE RegisteredIsRead'
  <2>1. CASE PostedRuns(c) \/ WriteCompletes(c)
    BY <2>1, SameRegistered DEF PostedRuns, WriteCompletes, RunPosted, WriteDone, idVars
  <2>2. CASE HandlesLine(c)
    BY <2>2, SameRegistered
    DEF HandlesLine, IgnoresLine, LoginRejected, LoginSucceeds, LoginSaveThrows,
        LoginRequest, TakeMalformed, TakeLine, idVars
  <2> QED
    BY <1>2, <2>1, <2>2, AcceptRegistered, BreakRegistered DEF Handler
<1>3. CASE onResourceTick
  BY <1>3, SameRegistered DEF onResourceTick
<1>4. CASE Death
  <2>1. Dies
    BY <1>4 DEF Death, Killed, KilledInTick, NullSession, KilledInLogin
  <2> QED
    BY <2>1 DEF Dies, FreshServer, RegisteredIsRead
<1>5. CASE Restart
  BY <1>5, SameRegistered DEF Restart, sessionVars, idVars
<1>6. CASE UNCHANGED vars
  BY <1>6, SameRegistered DEF vars, sessionVars, idVars
<1> QED
  BY <1>1, <1>2, <1>3, <1>4, <1>5, <1>6 DEF Next

-----------------------------------------------------------------------------
(* FoundOrDisplaced: an entry changes only when onAccept or a disconnect    *)
(* of a connection with that id writes to it, and whatever displaced a      *)
(* session has the id for good, and stays ended or failed once it is.       *)

LEMMA SameFound ==
  ASSUME FoundOrDisplaced, UNCHANGED <<reader, m_sessions, m_clientId>>,
         \A c \in Conns : writer[c] = "failed" => writer'[c] = "failed"
  PROVE  FoundOrDisplaced'
BY DEF FoundOrDisplaced

LEMMA AcceptFound ==
  ASSUME IInv, FoundOrDisplaced, NEW e \in Conns, onAccept(e)
  PROVE  FoundOrDisplaced'
<1>1. /\ m_sessions \in [ClientIds -> Conns \cup {NoSession}]
      /\ m_clientId \in [Conns -> ClientIds \cup {NoId}]
      /\ m_nextClientId \in ClientIds
      /\ reader \in [Conns -> {"none", "armed", "ended"}]
  BY DEF IInv, TypeOK, SessionTypeOK
<1>2. /\ reader[e] = "none" /\ m_clientId[e] = NoId
      /\ reader' = [reader EXCEPT ![e] = "armed"]
      /\ m_clientId' = [m_clientId EXCEPT ![e] = m_nextClientId]
      /\ m_sessions' = [m_sessions EXCEPT ![m_nextClientId] = e]
      /\ writer' = writer
  BY DEF onAccept, StartReading, IInv, IdInv
<1> SUFFICES ASSUME NEW c \in Conns, reader'[c] = "armed"
             PROVE  \/ m_sessions'[m_clientId'[c]] = c
                    \/ writer'[c] = "failed"
                    \/ \E d \in Conns \ {c} :
                         /\ m_clientId'[d] = m_clientId'[c]
                         /\ \/ m_sessions'[m_clientId'[c]] = d
                            \/ reader'[d] = "ended" \/ writer'[d] = "failed"
  BY DEF FoundOrDisplaced
<1>3. CASE c = e
  BY <1>1, <1>2, <1>3
<1>4. CASE c # e
  <2>1. reader[c] = "armed" /\ m_clientId'[c] = m_clientId[c]
    BY <1>1, <1>2, <1>4
  <2>2. m_clientId[c] \in ClientIds /\ m_clientId[c] # NoId
    BY <1>1, <2>1 DEF IInv, IdInv
  <2>3. CASE m_clientId[c] = m_nextClientId
    BY <1>1, <1>2, <1>4, <2>1, <2>3
  <2>4. CASE m_clientId[c] # m_nextClientId
    <3>1. m_sessions'[m_clientId[c]] = m_sessions[m_clientId[c]]
      BY <1>1, <1>2, <2>2, <2>4
    <3>2. CASE \E d \in Conns \ {c} :
                 /\ m_clientId[d] = m_clientId[c]
                 /\ \/ m_sessions[m_clientId[c]] = d
                    \/ reader[d] = "ended" \/ writer[d] = "failed"
      <4>1. PICK d \in Conns \ {c} :
                   /\ m_clientId[d] = m_clientId[c]
                   /\ \/ m_sessions[m_clientId[c]] = d
                      \/ reader[d] = "ended" \/ writer[d] = "failed"
        BY <3>2
      <4>2. d # e
        BY <1>2, <2>2, <4>1
      <4>3. m_clientId'[d] = m_clientId[d] /\ reader'[d] = reader[d]
        BY <1>1, <1>2, <4>2
      <4> QED
        BY <1>2, <2>1, <3>1, <4>1, <4>3
    <3>3. CASE m_sessions[m_clientId[c]] = c \/ writer[c] = "failed"
      BY <1>2, <2>1, <3>1, <3>3
    <3> QED
      BY <2>1, <3>2, <3>3 DEF FoundOrDisplaced
  <2> QED
    BY <2>3, <2>4
<1> QED
  BY <1>3, <1>4

LEMMA BreakFound ==
  ASSUME IInv, FoundOrDisplaced, NEW e \in Conns, WriteBreaks(e) \/ ReadBreaks(e)
  PROVE  FoundOrDisplaced'
<1>1. /\ m_sessions \in [ClientIds -> Conns \cup {NoSession}]
      /\ m_clientId \in [Conns -> ClientIds \cup {NoId}]
      /\ reader \in [Conns -> {"none", "armed", "ended"}]
      /\ writer \in [Conns -> {"idle", "busy", "failed"}]
  BY DEF IInv, TypeOK, SessionTypeOK
<1>2. /\ m_sessions' = [m_sessions EXCEPT ![m_clientId[e]] = NoSession]
      /\ m_clientId' = m_clientId
      /\ \A d \in Conns : reader'[d] = "armed" => reader[d] = "armed"
      /\ \A d \in Conns : reader[d] = "ended" => reader'[d] = "ended"
      /\ \A d \in Conns : writer[d] = "failed" => writer'[d] = "failed"
      /\ reader'[e] = "ended" \/ writer'[e] = "failed"
  BY <1>1 DEF WriteBreaks, ReadBreaks, onClientDisconnect, idVars, WriteFail, ReadEnd
<1> SUFFICES ASSUME NEW c \in Conns, reader'[c] = "armed"
             PROVE  \/ m_sessions'[m_clientId[c]] = c
                    \/ writer'[c] = "failed"
                    \/ \E d \in Conns \ {c} :
                         /\ m_clientId[d] = m_clientId[c]
                         /\ \/ m_sessions'[m_clientId[c]] = d
                            \/ reader'[d] = "ended" \/ writer'[d] = "failed"
  BY <1>2 DEF FoundOrDisplaced
<1>3. CASE c = e
  BY <1>2, <1>3
<1>4. CASE c # e /\ m_clientId[c] = m_clientId[e]
  BY <1>2, <1>4
<1>5. CASE c # e /\ m_clientId[c] # m_clientId[e]
  <2>1. m_sessions'[m_clientId[c]] = m_sessions[m_clientId[c]]
    <3>1. m_clientId[c] \in ClientIds
      BY <1>1, <1>2 DEF IInv, IdInv
    <3> QED
      BY <1>1, <1>2, <1>5, <3>1
  <2> QED
    BY <1>2, <2>1 DEF FoundOrDisplaced
<1> QED
  BY <1>3, <1>4, <1>5

LEMMA NextFound ==
  ASSUME IInv, FoundOrDisplaced, [Next]_vars
  PROVE  FoundOrDisplaced'
<1>1. ASSUME NEW c \in Conns, Client(c) PROVE FoundOrDisplaced'
  BY <1>1, SameFound
  DEF Client, ClientConnects, ClientSends, ClientCloses, Connect, SendLine, Close, idVars
<1>2. ASSUME NEW c \in Conns, Handler(c) PROVE FoundOrDisplaced'
  <2>1. CASE PostedRuns(c) \/ WriteCompletes(c)
    <3>1. UNCHANGED <<reader, m_sessions, m_clientId>>
      BY <2>1 DEF PostedRuns, WriteCompletes, RunPosted, WriteDone, idVars
    <3>2. \A d \in Conns : writer[d] = "failed" => writer'[d] = "failed"
      BY <2>1
      DEF PostedRuns, WriteCompletes, RunPosted, WriteDone, IInv, TypeOK, LoopInv, SessionTypeOK
    <3> QED
      BY <3>1, <3>2, SameFound
  <2>2. CASE HandlesLine(c)
    BY <2>2, SameFound
    DEF HandlesLine, IgnoresLine, LoginRejected, LoginSucceeds, LoginSaveThrows,
        LoginRequest, TakeMalformed, TakeLine, idVars
  <2> QED
    BY <1>2, <2>1, <2>2, AcceptFound, BreakFound DEF Handler
<1>3. CASE onResourceTick
  BY <1>3, SameFound DEF onResourceTick
<1>4. CASE Death
  <2>1. Dies
    BY <1>4 DEF Death, Killed, KilledInTick, NullSession, KilledInLogin
  <2> QED
    BY <2>1 DEF Dies, LoseSessions, FoundOrDisplaced
<1>5. CASE Restart
  BY <1>5, SameFound DEF Restart, sessionVars, idVars
<1>6. CASE UNCHANGED vars
  BY <1>6, SameFound DEF vars, sessionVars, idVars
<1> QED
  BY <1>1, <1>2, <1>3, <1>4, <1>5, <1>6 DEF Next

-----------------------------------------------------------------------------
(* The theorems *)

(* Every value keeps its type: above all, the id of a new session is one of *)
(* the IdSpace ids, and the pool that the tick reads is always a number.    *)
THEOREM ServerTyped == Spec => []TypeOK
<1>1. IInv => TypeOK
  BY DEF IInv
<1> QED
  BY <1>1, InvHolds, PTL

(* ReaderRegistered, for any number of connections and of client ids: the   *)
(* login handler's getSession finds the session the line came in on, unless *)
(* its id was handed out again or a write of it failed.                     *)
THEOREM ReaderRegisteredHolds == Spec => []ReaderRegistered
<1>1. IInv => ReaderRegistered
  BY DEF IInv
<1> QED
  BY <1>1, InvHolds, PTL

(* FoundOrDisplaced, for any number of connections and of client ids, also  *)
(* when ids are handed out again: a session that still reads is missing     *)
(* from the map only through its own failed write or through another        *)
(* connection with its id.                                                  *)
THEOREM FoundOrDisplacedHolds == Spec => []FoundOrDisplaced
<1>1. Init => FoundOrDisplaced
  BY DEF Init, SessionInit, FoundOrDisplaced
<1>2. IInv /\ FoundOrDisplaced /\ [Next]_vars => FoundOrDisplaced'
  BY NextFound
<1> QED
  BY <1>1, <1>2, InvHolds, PTL DEF Spec

(* RegisteredIsRead, for any number of connections and of client ids, also  *)
(* when ids are handed out again: whatever session an id leads to is still  *)
(* being read, so its end will be reported, under this id.                  *)
THEOREM RegisteredIsReadHolds == Spec => []RegisteredIsRead
<1>1. Init => RegisteredIsRead
  BY DEF Init, FreshServer, RegisteredIsRead
<1>2. IInv /\ RegisteredIsRead /\ [Next]_vars => RegisteredIsRead'
  BY NextRegistered
<1> QED
  BY <1>1, <1>2, InvHolds, PTL DEF Spec

(* TickFindsAccounts, whatever save() does and whenever the process dies:   *)
(* no session is logged in to an account the database does not know, so     *)
(* the tick's getResources does not throw.                                  *)
THEOREM TickFindsAccountsHolds == Spec => []TickFindsAccounts
<1>1. IInv => TickFindsAccounts
  <2> SUFFICES ASSUME IInv, NEW i \in LoggedIn PROVE Known(m_accounts, UuidOf(i))
    BY DEF TickFindsAccounts, Known
  <2>1. m_sessions[i] \in Conns /\ UuidOf(i) # NoUuid
    BY DEF IInv, TypeOK, LoggedIn, UuidOf
  <2> QED
    BY <2>1 DEF IInv, UuidInv, UuidOf
<1> QED
  BY <1>1, InvHolds, PTL

-----------------------------------------------------------------------------
(* What was shown so far. *)
BaseInv == IInv /\ RegisteredIsRead

LEMMA BaseInvHolds == Spec => []BaseInv
BY InvHolds, RegisteredIsReadHolds, PTL DEF BaseInv

-----------------------------------------------------------------------------
(* Pipelines *)

(* The first of three sequences that are joined. *)
LEMMA PrefixOfThree ==
  ASSUME NEW S, NEW x \in Seq(S), NEW y \in Seq(S), NEW z \in Seq(S)
  PROVE  /\ Len(x) \in Nat
         /\ Len(x) <= Len(x \o y \o z)
         /\ \A k \in 1 .. Len(x) : (x \o y \o z)[k] = x[k]
<1>1. Len(x) \in Nat /\ Len(y) \in Nat /\ Len(z) \in Nat
  OBVIOUS
<1>2. PICK xy : xy = x \o y /\ xy \in Seq(S)
  <2>1. x \o y \in Seq(S)
    OBVIOUS
  <2> QED
    BY <2>1, Zenon
<1>3. Len(xy) = Len(x) + Len(y) /\ \A k \in 1 .. Len(x) : xy[k] = x[k]
  BY <1>2
<1>4. Len(xy \o z) = Len(xy) + Len(z) /\ \A k \in 1 .. Len(xy) : (xy \o z)[k] = xy[k]
  OBVIOUS
<1> QED
  BY <1>1, <1>2, <1>3, <1>4

(* Appending to the last of three sequences that are joined. *)
LEMMA AppendOfThree ==
  ASSUME NEW S, NEW x \in Seq(S), NEW y \in Seq(S), NEW z \in Seq(S), NEW e \in S
  PROVE  x \o y \o (z \o <<e>>) = Append(x \o y \o z, e)
<1>1. PICK xy : xy = x \o y /\ xy \in Seq(S)
  <2>1. x \o y \in Seq(S)
    OBVIOUS
  <2> QED
    BY <2>1, Zenon
<1>2. PICK last : last = <<e>> /\ last \in Seq(S)
  <2>1. <<e>> \in Seq(S)
    OBVIOUS
  <2> QED
    BY <2>1, Zenon
<1>3. PICK xyz : xyz = xy \o z /\ xyz \in Seq(S)
  <2>1. xy \o z \in Seq(S)
    BY <1>1
  <2> QED
    BY <2>1, Zenon
<1>4. xy \o (z \o last) = xyz \o last
  BY <1>1, <1>2, <1>3, ConcatAssociative
<1>5. xyz \o <<e>> = Append(xyz, e)
  BY <1>3
<1> QED
  BY <1>1, <1>2, <1>3, <1>4, <1>5, Zenon

LEMMA PipelineTyped ==
  ASSUME IInv, NEW c \in Conns
  PROVE  /\ wire[c] \in Seq(Message)
         /\ m_outgoing[c] \in Seq(Message)
         /\ posted[c] \in Seq(Message)
         /\ Pipeline(c) \in Seq(Message)
         /\ Len(Pipeline(c)) \in Nat
         /\ \A k \in 1 .. Len(Pipeline(c)) : Pipeline(c)[k] \in Message
<1>1. /\ wire[c] \in Seq(Message) /\ m_outgoing[c] \in Seq(Message)
      /\ posted[c] \in Seq(Message)
  BY DEF IInv, TypeOK, SessionTypeOK
<1>2. wire[c] \o m_outgoing[c] \in Seq(Message)
  BY <1>1
<1>3. Pipeline(c) \in Seq(Message)
  BY <1>1, <1>2 DEF Pipeline
<1> QED
  BY <1>1, <1>3, LenProperties, ElementOfSeq

(* What is on the wire is the beginning of the pipeline. *)
LEMMA WireIsPrefix ==
  ASSUME IInv, NEW c \in Conns
  PROVE  /\ Len(wire[c]) \in Nat
         /\ Len(wire[c]) <= Len(Pipeline(c))
         /\ \A k \in 1 .. Len(wire[c]) : Pipeline(c)[k] = wire[c][k]
<1>1. /\ wire[c] \in Seq(Message) /\ m_outgoing[c] \in Seq(Message)
      /\ posted[c] \in Seq(Message)
  BY PipelineTyped
<1>2. PICK x, y, z : x = wire[c] /\ y = m_outgoing[c] /\ z = posted[c]
  OBVIOUS
<1>3. x \in Seq(Message) /\ y \in Seq(Message) /\ z \in Seq(Message)
  BY <1>1, <1>2
<1>4. /\ Len(x) \in Nat
      /\ Len(x) <= Len(x \o y \o z)
      /\ \A k \in 1 .. Len(x) : (x \o y \o z)[k] = x[k]
  BY <1>3, PrefixOfThree
<1> QED
  BY <1>2, <1>4, Zenon DEF Pipeline

(* A pipeline after one message was sent through it. *)
Sends(c, message) ==
  /\ message \in Message
  /\ Pipeline(c)' = Append(Pipeline(c), message)

LEMMA SendsOne ==
  ASSUME IInv, NEW c \in Conns, NEW message, Sends(c, message)
  PROVE  /\ Len(Pipeline(c))' = Len(Pipeline(c)) + 1
         /\ Pipeline(c)'[Len(Pipeline(c)) + 1] = message
         /\ \A k \in 1 .. Len(Pipeline(c)) : Pipeline(c)'[k] = Pipeline(c)[k]
         /\ \A k \in 1 .. Len(Pipeline(c))' :
              k \in 1 .. Len(Pipeline(c)) \/ k = Len(Pipeline(c)) + 1
<1>1. Pipeline(c) \in Seq(Message) /\ Len(Pipeline(c)) \in Nat
  BY PipelineTyped
<1> QED
  BY <1>1, AppendProperties DEF Sends

(* send() called with batch[c] for each session: nothing else moves. *)
LEMMA BatchSent ==
  ASSUME IInv, NEW batch, SendEach(batch), UNCHANGED <<wire, m_outgoing>>,
         NEW c \in Conns
  PROVE  /\ batch[c] = <<>> => Pipeline(c)' = Pipeline(c)
         /\ \A message \in Message : batch[c] = <<message>> => Sends(c, message)
<1>1. /\ wire[c] \in Seq(Message) /\ m_outgoing[c] \in Seq(Message)
      /\ posted[c] \in Seq(Message)
  BY PipelineTyped
<1>2. /\ Pipeline(c) = wire[c] \o m_outgoing[c] \o posted[c]
      /\ Pipeline(c)' = wire[c] \o m_outgoing[c] \o (posted[c] \o batch[c])
  BY DEF SendEach, Pipeline
<1>3. posted[c] \o <<>> = posted[c]
  BY <1>1, ConcatEmptySeq
<1>4. ASSUME NEW message \in Message
      PROVE  wire[c] \o m_outgoing[c] \o (posted[c] \o <<message>>)
               = Append(wire[c] \o m_outgoing[c] \o posted[c], message)
  <2>1. PICK x, y, z : x = wire[c] /\ y = m_outgoing[c] /\ z = posted[c]
    OBVIOUS
  <2>2. x \in Seq(Message) /\ y \in Seq(Message) /\ z \in Seq(Message)
    BY <1>1, <2>1
  <2>3. x \o y \o (z \o <<message>>) = Append(x \o y \o z, message)
    BY <2>2, AppendOfThree
  <2> QED
    BY <2>1, <2>3, Zenon
<1> QED
  BY <1>2, <1>3, <1>4, Zenon DEF Sends

LEMMA OnlySent ==
  ASSUME IInv, NEW d, NEW message \in Message, SendEach(Only(d, message)),
         UNCHANGED <<wire, m_outgoing>>, NEW c \in Conns
  PROVE  IF c = d THEN Sends(c, message) ELSE Pipeline(c)' = Pipeline(c)
BY BatchSent DEF Only

-----------------------------------------------------------------------------
(* The steps, by what they do to the pipelines, the accounts and the ids *)

(* Nothing is sent, and no account, id or login changes. *)
Quiet ==
  /\ \A c \in Conns : Pipeline(c)' = Pipeline(c)
  /\ \A c \in Conns : reader'[c] = "none" => reader[c] = "none"
  /\ UNCHANGED <<up, m_uuid, m_lastSeqByType, m_clientId, m_accounts, file>>

(* A step that leaves the three queues of every session alone. *)
LEMMA SamePipelines ==
  ASSUME UNCHANGED <<posted, m_outgoing, wire>>
  PROVE  \A c \in Conns : Pipeline(c)' = Pipeline(c)
BY DEF Pipeline

(* The handlers of the clients, of the write loop and of lines that are not *)
(* a successful login, and the end of a read loop.                          *)
LEMMA QuietSteps ==
  ASSUME IInv, NEW c \in Conns,
         \/ Client(c)
         \/ PostedRuns(c) \/ WriteCompletes(c) \/ WriteBreaks(c) \/ ReadBreaks(c)
         \/ IgnoresLine(c) \/ \E cred \in Credentials : LoginRejected(c, cred)
  PROVE  Quiet
<1>0. Sound(Line, Message) /\ reader \in [Conns -> {"none", "armed", "ended"}]
  BY TypeParts DEF IInv, TypeOK, SessionTypeOK
<1>1. CASE Client(c)
  <2>1. /\ UNCHANGED <<posted, m_outgoing, wire, reader>>
        /\ UNCHANGED <<up, m_uuid, m_lastSeqByType, m_clientId, m_accounts, file>>
    BY <1>1 DEF Client, ClientConnects, ClientSends, ClientCloses, Connect, SendLine, Close,
                idVars, dbVars
  <2> QED
    BY <2>1, SamePipelines DEF Quiet
<1>2. CASE PostedRuns(c)
  BY <1>0, <1>2, RunPostedKeepsOrder DEF PostedRuns, RunPosted, Quiet, idVars, dbVars
<1>3. CASE WriteCompletes(c)
  BY <1>0, <1>3, WriteDoneKeepsOrder DEF WriteCompletes, WriteDone, Quiet, idVars, dbVars
<1>4. CASE WriteBreaks(c)
  <2>1. /\ UNCHANGED <<posted, m_outgoing, wire, reader>>
        /\ UNCHANGED <<up, m_uuid, m_lastSeqByType, m_clientId, m_accounts, file>>
    BY <1>4 DEF WriteBreaks, WriteFail, idVars, dbVars
  <2> QED
    BY <2>1, SamePipelines DEF Quiet
<1>5. CASE ReadBreaks(c)
  <2>1. /\ UNCHANGED <<posted, m_outgoing, wire>>
        /\ \A d \in Conns : reader'[d] = "none" => reader[d] = "none"
        /\ UNCHANGED <<up, m_uuid, m_lastSeqByType, m_clientId, m_accounts, file>>
    BY <1>0, <1>5 DEF ReadBreaks, ReadEnd, idVars, dbVars
  <2> QED
    BY <2>1, SamePipelines DEF Quiet
<1>6. CASE IgnoresLine(c) \/ \E cred \in Credentials : LoginRejected(c, cred)
  <2>1. /\ UNCHANGED <<posted, m_outgoing, wire, reader>>
        /\ UNCHANGED <<up, m_uuid, m_lastSeqByType, m_clientId, m_accounts, file>>
    BY <1>6 DEF IgnoresLine, LoginRejected, LoginRequest, TakeMalformed, TakeLine, idVars, dbVars
  <2> QED
    BY <2>1, SamePipelines DEF Quiet
<1> QED
  BY <1>1, <1>2, <1>3, <1>4, <1>5, <1>6

(* Every step is quiet, or one of the handlers that matter here. *)
LEMMA StepKinds ==
  ASSUME IInv, [Next]_vars
  PROVE  \/ Quiet
         \/ \E c \in Conns : onAccept(c)
         \/ \E c \in Conns, cred \in Credentials :
              LoginSucceeds(c, cred) \/ LoginSaveThrows(c, cred)
         \/ onResourceTick
         \/ Death
         \/ Restart
<1>1. CASE UNCHANGED vars
  <2>1. /\ UNCHANGED <<posted, m_outgoing, wire, reader>>
        /\ UNCHANGED <<up, m_uuid, m_lastSeqByType, m_clientId, m_accounts, file>>
    BY <1>1 DEF vars, sessionVars, idVars, dbVars
  <2> QED
    BY <2>1, SamePipelines DEF Quiet
<1>2. ASSUME NEW c \in Conns, Handler(c), ~Quiet
      PROVE  \/ onAccept(c)
             \/ \E cred \in Credentials : LoginSucceeds(c, cred) \/ LoginSaveThrows(c, cred)
  BY <1>2, QuietSteps DEF Handler, HandlesLine
<1> QED
  BY <1>1, <1>2, QuietSteps DEF Next

Assignment(i) == [type |-> "AssignClientId", sequence |-> 1, clientId |-> i]
Result(id) == [type |-> "LoginResult", sequence |-> 1, uuid |-> id]

(* onAccept sends the handshake. *)
LEMMA AcceptSends ==
  ASSUME IInv, NEW c \in Conns, onAccept(c)
  PROVE  \A d \in Conns :
           IF d = c THEN Sends(d, Assignment(m_nextClientId)) ELSE Pipeline(d)' = Pipeline(d)
<1> DEFINE assign == Assignment(m_nextClientId)
<1>1. assign \in Message
  BY DEF IInv, TypeOK, Message, Assignment
<1>2. SendEach(Only(c, assign)) /\ UNCHANGED <<wire, m_outgoing>>
  BY DEF onAccept, Assignment
<1> HIDE DEF assign
<1>3. \A d \in Conns : IF d = c THEN Sends(d, assign) ELSE Pipeline(d)' = Pipeline(d)
  BY <1>1, <1>2, OnlySent
<1> QED
  BY <1>3 DEF assign

(* What a successful login does: an account that is in memory and, without  *)
(* faults, on disk; its uuid for the session that is found; the reply.      *)
LEMMA LoginSends ==
  ASSUME IInv, NEW c \in Conns, NEW cred \in Credentials, LoginSucceeds(c, cred)
  PROVE  /\ up /\ UNCHANGED <<up, m_sessions, m_clientId, m_lastSeqByType, reader, asked>>
         /\ Target(c) \in Conns
         /\ m_clientId[c] \in ClientIds
         /\ Head(m_incoming[c]) = cred /\ m_incoming[c] # <<>>
         /\ m_accounts'[cred.id] # NoAccount
         /\ m_accounts'[cred.id].password = cred.password
         /\ \E granted \in Uuids :
              /\ granted = m_accounts'[cred.id].uuid
              /\ m_uuid' = [m_uuid EXCEPT ![Target(c)] = granted]
              /\ \A d \in Conns : IF d = Target(c) THEN Sends(d, Result(granted))
                                                   ELSE Pipeline(d)' = Pipeline(d)
<1> DEFINE granted == m_accounts'[cred.id].uuid
           result == Result(granted)
<1>1. /\ m_accounts' \in Accounts
      /\ m_accounts'[cred.id] # NoAccount
      /\ m_accounts'[cred.id].password = cred.password
  <2>0. m_accounts \in Accounts
    BY DEF IInv, TypeOK
  <2>1. CASE Verified(cred) /\ UNCHANGED dbVars
    BY <2>0, <2>1 DEF Verified, dbVars
  <2>2. CASE (\E id \in Uuids : Added(cred, id, m_accounts')) /\ Saved
    <3>1. PICK id \in Uuids : Added(cred, id, m_accounts')
      BY <2>2
    <3>2. m_accounts' \in Accounts /\ m_accounts'[cred.id] # NoAccount
      BY <2>0, <3>1, AddedTyped
    <3>3. m_accounts'[cred.id] = [password |-> cred.password, uuid |-> id, wood |-> 0]
      BY <2>0, <3>1 DEF Added, Accounts, Credentials
    <3> QED
      BY <3>2, <3>3
  <2> QED
    BY <2>1, <2>2 DEF LoginSucceeds
<1>2. granted \in Uuids
  BY <1>1 DEF Credentials, Accounts, Account
<1>3. reader[c] = "armed" /\ UNCHANGED <<reader, m_outgoing, wire>>
  BY DEF LoginSucceeds, LoginRequest, TakeLine
<1>4. up
  BY <1>3 DEF IInv, DownInv
<1>5. m_clientId[c] \in ClientIds
  BY <1>3 DEF IInv, IdInv, TypeOK
<1>6. Target(c) \in Conns
  BY <1>5 DEF LoginSucceeds, Target, IInv, TypeOK
<1>7. result \in Message
  BY <1>2 DEF Message, Result
<1>8. SendEach(Only(Target(c), result))
  BY DEF LoginSucceeds, Result
<1>9. \A d \in Conns : IF d = Target(c) THEN Sends(d, result) ELSE Pipeline(d)' = Pipeline(d)
  <2> HIDE DEF result
  <2> QED
    BY <1>3, <1>7, <1>8, OnlySent
<1>10. /\ UNCHANGED <<up, m_sessions, m_clientId, m_lastSeqByType, asked>>
       /\ Head(m_incoming[c]) = cred /\ m_incoming[c] # <<>>
       /\ m_uuid' = [m_uuid EXCEPT ![Target(c)] = granted]
  BY DEF LoginSucceeds, LoginRequest, TakeLine, idVars
<1> QED
  BY <1>1, <1>2, <1>3, <1>4, <1>5, <1>6, <1>9, <1>10

(* save() throws in addUser: nothing is sent and nothing is on disk. *)
LEMMA SaveThrowsSends ==
  ASSUME IInv, NEW c \in Conns, NEW cred \in Credentials, LoginSaveThrows(c, cred)
  PROVE  /\ up /\ UNCHANGED <<up, m_uuid, m_clientId, m_lastSeqByType, reader, file, asked>>
         /\ "rename" \in DiskFaults
         /\ \E id \in Uuids : Added(cred, id, m_accounts')
         /\ \A d \in Conns : Pipeline(d)' = Pipeline(d)
<1>1. reader[c] = "armed" /\ UNCHANGED <<posted, m_outgoing, wire>>
  BY DEF LoginSaveThrows, LoginRequest, TakeLine
<1>2. up
  BY <1>1 DEF IInv, DownInv
<1> QED
  BY <1>1, <1>2, SamePipelines DEF LoginSaveThrows, LoginRequest, TakeLine, idVars

(* The session that the tick's update for an id goes to is the one that was *)
(* given this id, so no session is sent two.                                *)
Due(c) == m_clientId[c] \in LoggedIn /\ m_sessions[m_clientId[c]] = c

LEMMA TickSends ==
  ASSUME BaseInv, onResourceTick
  PROVE  /\ up /\ UNCHANGED <<up, m_sessions, m_uuid, m_clientId, reader, asked>>
         /\ m_accounts' = Credited(LoggedIn) /\ file' = m_accounts'
         /\ m_lastSeqByType' = [i \in ClientIds |->
                                  m_lastSeqByType[i] + IF i \in LoggedIn THEN 1 ELSE 0]
         /\ \E rank \in TickOrders : \A c \in Conns :
              IF Due(c) THEN Sends(c, UpdateFor(m_clientId[c], rank))
                        ELSE Pipeline(c)' = Pipeline(c)
<1>1. PICK rank \in TickOrders :
        SendEach([c \in Conns |->
                    IF \E i \in LoggedIn : m_sessions[i] = c
                    THEN <<UpdateFor(CHOOSE i \in LoggedIn : m_sessions[i] = c, rank)>>
                    ELSE <<>>])
  BY DEF onResourceTick
<1> DEFINE batch == [c \in Conns |->
                       IF \E i \in LoggedIn : m_sessions[i] = c
                       THEN <<UpdateFor(CHOOSE i \in LoggedIn : m_sessions[i] = c, rank)>>
                       ELSE <<>>]
<1>2. /\ up /\ UNCHANGED <<up, m_sessions, m_uuid, m_clientId, reader, asked, wire, m_outgoing>>
      /\ m_accounts' = Credited(LoggedIn) /\ file' = m_accounts'
      /\ m_lastSeqByType' = [i \in ClientIds |->
                               m_lastSeqByType[i] + IF i \in LoggedIn THEN 1 ELSE 0]
  BY DEF onResourceTick, Saved
<1>3. ASSUME NEW i \in LoggedIn PROVE m_clientId[m_sessions[i]] = i
  BY DEF LoggedIn, BaseInv, RegisteredIsRead
<1>4. ASSUME NEW c \in Conns, Due(c)
      PROVE  batch[c] = <<UpdateFor(m_clientId[c], rank)>>
  <2>1. \E i \in LoggedIn : m_sessions[i] = c
    BY <1>4 DEF Due
  <2>2. \A i \in LoggedIn : m_sessions[i] = c => i = m_clientId[c]
    BY <1>3
  <2>3. (CHOOSE i \in LoggedIn : m_sessions[i] = c) = m_clientId[c]
    BY <2>1, <2>2
  <2> QED
    BY <2>1, <2>3
<1>5. ASSUME NEW c \in Conns, ~Due(c) PROVE batch[c] = <<>>
  <2>1. ~ \E i \in LoggedIn : m_sessions[i] = c
    BY <1>3, <1>5 DEF Due
  <2> QED
    BY <2>1
<1>6. ASSUME NEW c \in Conns, Due(c) PROVE UpdateFor(m_clientId[c], rank) \in Message
  BY <1>6, UpdateTyped DEF Due, BaseInv, IInv
<1>7. SendEach(batch)
  BY <1>1
<1> HIDE DEF batch
<1>8. ASSUME NEW c \in Conns
      PROVE  IF Due(c) THEN Sends(c, UpdateFor(m_clientId[c], rank))
                       ELSE Pipeline(c)' = Pipeline(c)
  BY <1>2, <1>4, <1>5, <1>6, <1>7, BatchSent DEF BaseInv
<1> QED
  BY <1>1, <1>2, <1>8

(* The process dies: what is in no socket yet is lost, and the file is as   *)
(* it was, or has the account or the credits that were being saved.         *)
LEMMA DeathLoses ==
  ASSUME IInv, Death
  PROVE  /\ up /\ up' = FALSE
         /\ \A c \in Conns : Pipeline(c)' = wire[c] /\ m_clientId'[c] = NoId
         /\ \A c \in Conns : m_uuid'[c] = NoUuid
         /\ \A c \in Conns : reader'[c] = "none" => peer[c] = "new"
         /\ \A i \in ClientIds : m_lastSeqByType'[i] = 0
         /\ m_accounts' = NoAccounts
         /\ \/ file' = file
            \/ \E cred \in Credentials, id \in Uuids : Added(cred, id, file')
            \/ \E done \in SUBSET LoggedIn : file' = Credited(done)
<1>1. up /\ Dies
  BY DEF Death, Killed, KilledInTick, NullSession, KilledInLogin
<1>2. \/ file' = file
      \/ \E cred \in Credentials, id \in Uuids : Added(cred, id, file')
      \/ \E done \in SUBSET LoggedIn : file' = Credited(done)
  <2>1. CASE KilledInTick
    <3>1. PICK rank \in TickOrders, done \in 1 .. Cardinality(LoggedIn) :
            file' = Credited({i \in LoggedIn : rank[i] <= done})
      BY <2>1 DEF KilledInTick
    <3>2. {i \in LoggedIn : rank[i] <= done} \in SUBSET LoggedIn
      OBVIOUS
    <3> QED
      BY <3>1, <3>2
  <2> QED
    BY <2>1 DEF Death, Killed, NullSession, KilledInLogin
<1>3. ASSUME NEW c \in Conns PROVE Pipeline(c)' = wire[c]
  <2>1. wire'[c] = wire[c] /\ m_outgoing'[c] = <<>> /\ posted'[c] = <<>>
    BY <1>1 DEF Dies, LoseSessions
  <2>2. wire[c] \in Seq(Message)
    BY PipelineTyped
  <2>3. wire[c] \o <<>> = wire[c]
    BY <2>2, ConcatEmptySeq
  <2>4. Pipeline(c)' = wire[c] \o <<>> \o <<>>
    BY <2>1 DEF Pipeline
  <2> QED
    BY <2>3, <2>4
<1> QED
  BY <1>1, <1>2, <1>3 DEF Dies, FreshServer, LoseSessions

-----------------------------------------------------------------------------
(* Accounts, in memory and in the file *)

(* No two accounts have one uuid: addUser takes a fresh one. *)
Distinct(accounts) ==
  \A u, v \in Users :
    accounts[u] # NoAccount /\ accounts[v] # NoAccount /\ accounts[u].uuid = accounts[v].uuid
      => u = v

(* more has all that accounts has: no account is lost or renamed, no stock *)
(* shrinks.                                                                *)
Grows(accounts, more) ==
  \A u \in Users : accounts[u] # NoAccount =>
    /\ more[u] # NoAccount
    /\ more[u].password = accounts[u].password
    /\ more[u].uuid = accounts[u].uuid
    /\ more[u].wood >= accounts[u].wood

(* What the file may lack of a running process's accounts: those whose      *)
(* save() threw, which have nothing yet; no save() came after it.           *)
AccountsInv ==
  /\ Distinct(m_accounts) /\ Distinct(file)
  /\ up => \A u \in Users : file[u] # NoAccount => file[u] = m_accounts[u]
  /\ up => \A u \in Users :
             m_accounts[u] # NoAccount /\ file[u] = NoAccount => m_accounts[u].wood = 0
  /\ up /\ "rename" \notin DiskFaults => file = m_accounts

(* How often the sessions with ids in done are credited to this uuid. *)
Share(done, id) == {i \in done : UuidOf(i) = id}

LEMMA ShareFinite ==
  ASSUME NEW done, done \subseteq ClientIds, NEW id
  PROVE  IsFiniteSet(Share(done, id)) /\ Cardinality(Share(done, id)) \in Nat
<1>1. IsFiniteSet(ClientIds)
  BY ConstantsAssumption, FS_Interval DEF ClientIds
<1>2. IsFiniteSet(Share(done, id))
  BY <1>1, FS_Subset DEF Share
<1> QED
  BY <1>2, FS_CardinalityType

LEMMA CreditedStock ==
  ASSUME m_accounts \in Accounts, NEW done, done \subseteq ClientIds,
         NEW u \in Users, m_accounts[u] # NoAccount
  PROVE  /\ Credited(done)[u] \in Account /\ Credited(done)[u] # NoAccount
         /\ Credited(done)[u].password = m_accounts[u].password
         /\ Credited(done)[u].uuid = m_accounts[u].uuid
         /\ Credited(done)[u].wood
              = m_accounts[u].wood + Gain * Cardinality(Share(done, m_accounts[u].uuid))
<1> DEFINE n == Cardinality(Share(done, m_accounts[u].uuid))
<1>1. n \in Nat
  BY ShareFinite
<1>2. Credited(done)[u] = [m_accounts[u] EXCEPT !.wood = @ + Gain * n]
  BY DEF Credited, Share
<1> HIDE DEF n
<1>3. m_accounts[u] \in Account
  BY DEF Accounts
<1>4. m_accounts[u].wood + Gain * n \in Nat
  BY <1>1, <1>3 DEF Account, Gain
<1>5. NoAccount \notin Account
  BY ConstantsAssumption DEF Account
<1>6. /\ Credited(done)[u] \in Account
      /\ Credited(done)[u].password = m_accounts[u].password
      /\ Credited(done)[u].uuid = m_accounts[u].uuid
      /\ Credited(done)[u].wood = m_accounts[u].wood + Gain * n
  BY <1>2, <1>3, <1>4 DEF Account
<1> QED
  BY <1>5, <1>6 DEF n

LEMMA CreditedGrows ==
  ASSUME m_accounts \in Accounts, NEW done, done \subseteq ClientIds
  PROVE  /\ Grows(m_accounts, Credited(done))
         /\ \A u \in Users : m_accounts[u] = NoAccount => Credited(done)[u] = NoAccount
         /\ Distinct(m_accounts) => Distinct(Credited(done))
<1>1. ASSUME NEW u \in Users, m_accounts[u] = NoAccount PROVE Credited(done)[u] = NoAccount
  BY <1>1 DEF Credited
<1>2. ASSUME NEW u \in Users, m_accounts[u] # NoAccount
      PROVE  /\ Credited(done)[u] # NoAccount
             /\ Credited(done)[u].password = m_accounts[u].password
             /\ Credited(done)[u].uuid = m_accounts[u].uuid
             /\ Credited(done)[u].wood >= m_accounts[u].wood
  <2> DEFINE n == Cardinality(Share(done, m_accounts[u].uuid))
  <2>1. n \in Nat
    BY ShareFinite
  <2>2. m_accounts[u].wood \in Nat
    BY <1>2 DEF Accounts, Account
  <2>3. Credited(done)[u].wood = m_accounts[u].wood + Gain * n
    BY <1>2, CreditedStock
  <2> HIDE DEF n
  <2>4. Credited(done)[u].wood >= m_accounts[u].wood
    BY <2>1, <2>2, <2>3 DEF Gain
  <2> QED
    BY <1>2, <2>4, CreditedStock
<1> QED
  BY <1>1, <1>2 DEF Grows, Distinct

LEMMA AddedGrows ==
  ASSUME m_accounts \in Accounts, NEW cred \in Credentials, NEW id \in Uuids,
         NEW accounts, Added(cred, id, accounts)
  PROVE  /\ Grows(m_accounts, accounts)
         /\ m_accounts[cred.id] = NoAccount
         /\ accounts[cred.id] # NoAccount
         /\ accounts[cred.id] = [password |-> cred.password, uuid |-> id, wood |-> 0]
         /\ \A u \in Users : u # cred.id => accounts[u] = m_accounts[u]
         /\ \A u \in Users : m_accounts[u] # NoAccount => m_accounts[u].uuid # id
         /\ Distinct(m_accounts) => Distinct(accounts)
<1> DEFINE account == [password |-> cred.password, uuid |-> id, wood |-> 0]
<1>1. accounts[cred.id] # NoAccount
  BY AddedTyped
<1>2. cred.id \in Users /\ account.uuid = id
  BY DEF Credentials
<1>3. /\ accounts = [m_accounts EXCEPT ![cred.id] = account]
      /\ m_accounts[cred.id] = NoAccount
      /\ \A u \in Users : m_accounts[u] # NoAccount => m_accounts[u].uuid # id
  BY DEF Added
<1> HIDE DEF account
<1>4. /\ accounts[cred.id] = account
      /\ \A u \in Users : u # cred.id => accounts[u] = m_accounts[u]
  BY <1>2, <1>3 DEF Accounts
<1>5. \A u \in Users : m_accounts[u] # NoAccount => m_accounts[u].wood \in Nat
  BY DEF Accounts, Account
<1>6. Grows(m_accounts, accounts)
  BY <1>3, <1>4, <1>5 DEF Grows
<1>7. Distinct(m_accounts) => Distinct(accounts)
  BY <1>2, <1>3, <1>4 DEF Distinct
<1> QED
  BY <1>1, <1>3, <1>4, <1>6, <1>7 DEF account

LEMMA GrowsReflexive ==
  ASSUME NEW accounts \in Accounts
  PROVE  Grows(accounts, accounts)
BY DEF Grows, Accounts, Account

LEMMA GrowsTransitive ==
  ASSUME NEW x \in Accounts, NEW y \in Accounts, NEW z \in Accounts, Grows(x, y), Grows(y, z)
  PROVE  Grows(x, z)
<1> SUFFICES ASSUME NEW u \in Users, x[u] # NoAccount
             PROVE  /\ z[u] # NoAccount
                    /\ z[u].password = x[u].password
                    /\ z[u].uuid = x[u].uuid
                    /\ z[u].wood >= x[u].wood
  BY DEF Grows
<1>1. /\ y[u] # NoAccount /\ y[u].password = x[u].password
      /\ y[u].uuid = x[u].uuid /\ y[u].wood >= x[u].wood
  BY DEF Grows
<1>2. /\ z[u] # NoAccount /\ z[u].password = y[u].password
      /\ z[u].uuid = y[u].uuid /\ z[u].wood >= y[u].wood
  BY <1>1 DEF Grows
<1>3. x[u].wood \in Nat /\ y[u].wood \in Nat /\ z[u].wood \in Nat
  BY <1>1, <1>2 DEF Accounts, Account
<1> QED
  BY <1>1, <1>2, <1>3

LEMMA AccountsInit == Init => AccountsInv
BY DEF Init, NoAccounts, AccountsInv, Distinct

(* What a running process has in memory has all that is in the file. *)
LEMMA MemoryHasFile ==
  ASSUME IInv, AccountsInv, up
  PROVE  Grows(file, m_accounts)
<1>1. \A u \in Users : file[u] # NoAccount => file[u] \in Account
  BY DEF IInv, TypeOK, Accounts
<1> QED
  BY <1>1 DEF AccountsInv, Grows, Account

LEMMA DeathAccounts ==
  ASSUME IInv, AccountsInv, Death
  PROVE  AccountsInv' /\ Grows(file, file')
<1>0. m_accounts \in Accounts /\ file \in Accounts /\ up /\ up' = FALSE
      /\ m_accounts' = NoAccounts
  BY DeathLoses DEF IInv, TypeOK
<1>1. file' \in Accounts
  BY NextInv DEF IInv, TypeOK, Next
<1>2. Grows(file, m_accounts)
  BY <1>0, MemoryHasFile
<1>3. CASE file' = file
  BY <1>0, <1>3, GrowsReflexive DEF AccountsInv, Distinct, NoAccounts
<1>4. CASE \E cred \in Credentials, id \in Uuids : Added(cred, id, file')
  <2>1. PICK cred \in Credentials, id \in Uuids : Added(cred, id, file')
    BY <1>4
  <2>2. Grows(m_accounts, file') /\ Distinct(file')
    BY <1>0, <2>1, AddedGrows DEF AccountsInv
  <2> QED
    BY <1>0, <1>1, <1>2, <2>2, GrowsTransitive DEF AccountsInv, Distinct, NoAccounts
<1>5. CASE \E done \in SUBSET LoggedIn : file' = Credited(done)
  <2>1. PICK done \in SUBSET LoggedIn : file' = Credited(done)
    BY <1>5
  <2>2. done \subseteq ClientIds
    BY DEF LoggedIn
  <2>3. Grows(m_accounts, file') /\ Distinct(file')
    BY <1>0, <2>1, <2>2, CreditedGrows DEF AccountsInv
  <2> QED
    BY <1>0, <1>1, <1>2, <2>3, GrowsTransitive DEF AccountsInv, Distinct, NoAccounts
<1> QED
  BY <1>3, <1>4, <1>5, DeathLoses

(* No step loses an account of the file or takes from its stock, and a      *)
(* running process keeps its accounts in memory as well.                    *)
LEMMA AccountsStep ==
  ASSUME BaseInv, AccountsInv, [Next]_vars
  PROVE  /\ AccountsInv'
         /\ Grows(file, file')
         /\ up /\ up' => Grows(m_accounts, m_accounts')
<1>0. IInv /\ m_accounts \in Accounts /\ file \in Accounts
  BY DEF BaseInv, IInv, TypeOK
<1>1. m_accounts' \in Accounts /\ file' \in Accounts
  BY NextInv DEF BaseInv, IInv, TypeOK
<1>2. CASE UNCHANGED <<up, m_accounts, file>>
  BY <1>0, <1>2, GrowsReflexive DEF AccountsInv, Distinct
<1>3. ASSUME NEW c \in Conns, NEW cred \in Credentials, LoginSucceeds(c, cred)
      PROVE  /\ AccountsInv'
             /\ Grows(file, file')
             /\ Grows(m_accounts, m_accounts')
  <2>1. up /\ up'
    BY <1>0, <1>3, LoginSends
  <2>2. CASE UNCHANGED dbVars
    BY <1>0, <2>1, <2>2, GrowsReflexive DEF AccountsInv, Distinct, dbVars
  <2>3. CASE (\E id \in Uuids : Added(cred, id, m_accounts')) /\ Saved
    <3>1. Grows(m_accounts, m_accounts') /\ Distinct(m_accounts') /\ file' = m_accounts'
      BY <1>0, <2>3, AddedGrows DEF AccountsInv, Saved
    <3>2. Grows(file, m_accounts)
      BY <1>0, <2>1, MemoryHasFile
    <3>3. Grows(file, file')
      BY <1>0, <1>1, <3>1, <3>2, GrowsTransitive
    <3> QED
      BY <3>1, <3>3 DEF AccountsInv, Distinct
  <2> QED
    BY <1>3, <2>2, <2>3 DEF LoginSucceeds
<1>4. ASSUME NEW c \in Conns, NEW cred \in Credentials, LoginSaveThrows(c, cred)
      PROVE  /\ AccountsInv'
             /\ Grows(file, file')
             /\ Grows(m_accounts, m_accounts')
  <2>1. /\ up /\ up' /\ file' = file /\ "rename" \in DiskFaults
        /\ \E id \in Uuids : Added(cred, id, m_accounts')
    BY <1>0, <1>4, SaveThrowsSends
  <2>2. /\ Grows(m_accounts, m_accounts') /\ Distinct(m_accounts')
        /\ m_accounts[cred.id] = NoAccount
        /\ m_accounts'[cred.id].wood = 0
        /\ \A u \in Users : u # cred.id => m_accounts'[u] = m_accounts[u]
    <3>1. PICK id \in Uuids : Added(cred, id, m_accounts')
      BY <2>1
    <3>2. m_accounts'[cred.id] = [password |-> cred.password, uuid |-> id, wood |-> 0]
      BY <1>0, <3>1, AddedGrows
    <3>3. m_accounts'[cred.id].wood = 0
      BY <3>2
    <3>4. Distinct(m_accounts)
      BY DEF AccountsInv
    <3>5. Grows(m_accounts, m_accounts') /\ Distinct(m_accounts')
      BY <1>0, <3>1, <3>4, AddedGrows
    <3>6. m_accounts[cred.id] = NoAccount
      BY <3>1 DEF Added
    <3>7. \A u \in Users : u # cred.id => m_accounts'[u] = m_accounts[u]
      BY <1>0, <3>1 DEF Added, Accounts
    <3> QED
      BY <3>3, <3>5, <3>6, <3>7
  <2>3. cred.id \in Users
    BY DEF Credentials
  <2>4. file[cred.id] = NoAccount
    BY <2>1, <2>2, <2>3 DEF AccountsInv
  <2>5. Distinct(file) /\ Distinct(file)'
    BY <2>1 DEF AccountsInv, Distinct
  <2>6. \A u \in Users : file'[u] # NoAccount => file'[u] = m_accounts'[u]
    BY <2>1, <2>2, <2>4 DEF AccountsInv
  <2>7. \A u \in Users : m_accounts'[u] # NoAccount /\ file'[u] = NoAccount
                           => m_accounts'[u].wood = 0
    BY <2>1, <2>2, <2>4 DEF AccountsInv
  <2> QED
    BY <1>0, <2>1, <2>2, <2>5, <2>6, <2>7, GrowsReflexive DEF AccountsInv, Distinct
<1>5. CASE onResourceTick
  <2>1. up /\ up' /\ m_accounts' = Credited(LoggedIn) /\ file' = m_accounts'
    BY <1>5, TickSends
  <2>2. LoggedIn \subseteq ClientIds
    BY DEF LoggedIn
  <2>3. Grows(m_accounts, m_accounts') /\ Distinct(m_accounts')
    BY <1>0, <2>1, <2>2, CreditedGrows DEF AccountsInv
  <2>4. Grows(file, file')
    BY <1>0, <1>1, <2>1, <2>3, MemoryHasFile, GrowsTransitive
  <2> QED
    BY <2>1, <2>3, <2>4 DEF AccountsInv, Distinct
<1>6. CASE Restart
  <2>1. ~up /\ up' /\ m_accounts' = file /\ file' = file
    BY <1>6 DEF Restart
  <2> QED
    BY <1>0, <2>1, GrowsReflexive DEF AccountsInv, Distinct
<1>7. CASE Death
  BY <1>0, <1>7, DeathAccounts, DeathLoses
<1>8. CASE Quiet \/ \E c \in Conns : onAccept(c)
  BY <1>2, <1>8 DEF Quiet, onAccept, dbVars
<1> QED
  BY <1>0, <1>3, <1>4, <1>5, <1>6, <1>7, <1>8, StepKinds

LEMMA AccountsInvHolds == Spec => []AccountsInv
BY AccountsInit, AccountsStep, BaseInvHolds, PTL DEF Spec

-----------------------------------------------------------------------------
(* The amounts of one tick *)

Upto(i, rank) == {j \in LoggedIn : rank[j] <= rank[i]}

(* The sessions of one account are credited one after the other, so each    *)
(* update counts another number of them, at least the session itself.       *)
LEMMA SharesDiffer ==
  ASSUME NEW rank \in TickOrders, NEW i \in LoggedIn, NEW j \in LoggedIn,
         NEW id, UuidOf(i) = id, UuidOf(j) = id, rank[i] < rank[j]
  PROVE  /\ Cardinality(Share(Upto(i, rank), id)) \in Nat
         /\ Cardinality(Share(Upto(j, rank), id)) \in Nat
         /\ Cardinality(Share(Upto(i, rank), id)) < Cardinality(Share(Upto(j, rank), id))
<1> DEFINE S == Share(Upto(i, rank), id)
           T == Share(Upto(j, rank), id)
<1>1. /\ IsFiniteSet(S) /\ Cardinality(S) \in Nat
      /\ IsFiniteSet(T) /\ Cardinality(T) \in Nat
  <2>1. Upto(i, rank) \subseteq ClientIds /\ Upto(j, rank) \subseteq ClientIds
    BY DEF Upto, LoggedIn
  <2> QED
    BY <2>1, ShareFinite
<1>2. \A k \in LoggedIn : rank[k] \in Int
  BY DEF TickOrders
<1>3. S \subseteq T
  BY <1>2 DEF Share, Upto
<1>4. j \in T /\ j \notin S
  BY <1>2 DEF Share, Upto
<1> HIDE DEF S, T
<1>5. Cardinality(S) <= Cardinality(T) /\ (Cardinality(S) = Cardinality(T) => S = T)
  <2>1. S \in SUBSET T
    BY <1>3
  <2> QED
    BY <1>1, <2>1, FS_Subset
<1>6. Cardinality(S) < Cardinality(T)
  BY <1>1, <1>4, <1>5
<1> QED
  BY <1>1, <1>6 DEF S, T

LEMMA ShareCounts ==
  ASSUME NEW rank \in TickOrders, NEW i \in LoggedIn
  PROVE  /\ Cardinality(Share(Upto(i, rank), UuidOf(i))) \in Nat
         /\ Cardinality(Share(LoggedIn, UuidOf(i))) \in Nat
         /\ 1 <= Cardinality(Share(Upto(i, rank), UuidOf(i)))
         /\ Cardinality(Share(Upto(i, rank), UuidOf(i)))
              <= Cardinality(Share(LoggedIn, UuidOf(i)))
<1> DEFINE S == Share(Upto(i, rank), UuidOf(i))
           T == Share(LoggedIn, UuidOf(i))
<1>1. /\ IsFiniteSet(S) /\ Cardinality(S) \in Nat
      /\ IsFiniteSet(T) /\ Cardinality(T) \in Nat
  <2>1. Upto(i, rank) \subseteq ClientIds /\ LoggedIn \subseteq ClientIds
    BY DEF Upto, LoggedIn
  <2> QED
    BY <2>1, ShareFinite
<1>2. S \in SUBSET T
  BY DEF Share, Upto
<1>3. i \in S
  <2>1. rank[i] \in Int
    BY DEF TickOrders
  <2> QED
    BY <2>1 DEF Share, Upto
<1> HIDE DEF S, T
<1>4. Cardinality(S) <= Cardinality(T)
  BY <1>1, <1>2, FS_Subset
<1>5. Cardinality(S) # 0
  BY <1>1, <1>3, FS_EmptySet
<1> QED
  BY <1>1, <1>4, <1>5 DEF S, T

(* Looking a uuid up finds the account that has it. *)
LEMMA WoodIsStock ==
  ASSUME NEW accounts, Distinct(accounts), NEW u \in Users, accounts[u] # NoAccount
  PROVE  WoodOf(accounts, accounts[u].uuid) = accounts[u].wood
<1>1. (CHOOSE v \in Users : accounts[v] # NoAccount /\ accounts[v].uuid = accounts[u].uuid) = u
  BY DEF Distinct
<1> QED
  BY <1>1 DEF WoodOf

(* An update says what its account has after the sessions up to its own. *)
LEMMA UpdateStock ==
  ASSUME IInv, Distinct(m_accounts), NEW i \in LoggedIn, NEW rank,
         NEW u \in Users, m_accounts[u] # NoAccount, m_accounts[u].uuid = UuidOf(i)
  PROVE  /\ UpdateFor(i, rank).type = "ResourceUpdate"
         /\ UpdateFor(i, rank).uuid = UuidOf(i)
         /\ UpdateFor(i, rank).sequence = m_lastSeqByType[i] + 1
         /\ UpdateFor(i, rank).wood
              = m_accounts[u].wood + Gain * Cardinality(Share(Upto(i, rank), UuidOf(i)))
<1>1. /\ UpdateFor(i, rank).type = "ResourceUpdate"
      /\ UpdateFor(i, rank).uuid = UuidOf(i)
      /\ UpdateFor(i, rank).sequence = m_lastSeqByType[i] + 1
      /\ UpdateFor(i, rank).wood = WoodOf(Credited(Upto(i, rank)), UuidOf(i))
  BY DEF UpdateFor, Upto
<1>2. m_accounts \in Accounts /\ Upto(i, rank) \subseteq ClientIds
  BY DEF IInv, TypeOK, Upto, LoggedIn
<1>3. Distinct(Credited(Upto(i, rank)))
  BY <1>2, CreditedGrows
<1>4. /\ Credited(Upto(i, rank))[u] # NoAccount
      /\ Credited(Upto(i, rank))[u].uuid = UuidOf(i)
      /\ Credited(Upto(i, rank))[u].wood
           = m_accounts[u].wood + Gain * Cardinality(Share(Upto(i, rank), UuidOf(i)))
  BY <1>2, CreditedStock
<1>5. WoodOf(Credited(Upto(i, rank)), UuidOf(i)) = Credited(Upto(i, rank))[u].wood
  BY <1>3, <1>4, WoodIsStock
<1> QED
  BY <1>1, <1>4, <1>5

(* The account that a session that is due is logged in to. *)
LEMMA DueAccount ==
  ASSUME IInv, NEW c \in Conns, Due(c)
  PROVE  /\ m_clientId[c] \in LoggedIn /\ m_clientId[c] \in ClientIds
         /\ UuidOf(m_clientId[c]) = m_uuid[c] /\ m_uuid[c] # NoUuid
         /\ \E u \in Users : m_accounts[u] # NoAccount /\ m_accounts[u].uuid = m_uuid[c]
BY DEF Due, LoggedIn, UuidOf, IInv, UuidInv, Known

-----------------------------------------------------------------------------
(* What was sent is on disk. *)

Holds(accounts, id, wood) ==
  \E u \in Users : accounts[u] # NoAccount /\ accounts[u].uuid = id /\ accounts[u].wood >= wood

(* The accounts that message speaks of are in accounts.  A reply to a login *)
(* of an account whose save() threw speaks of one that is not.              *)
Covered(accounts, message) ==
  /\ message.type = "ResourceUpdate" => Holds(accounts, message.uuid, message.wood)
  /\ message.type = "LoginResult" /\ "rename" \notin DiskFaults
       => Known(accounts, message.uuid)

SentInv ==
  \A c \in Conns : \A k \in 1 .. Len(Pipeline(c)) : Covered(file, Pipeline(c)[k])

LEMMA CoveredGrows ==
  ASSUME NEW x \in Accounts, NEW y \in Accounts, Grows(x, y),
         NEW message \in Message, Covered(x, message)
  PROVE  Covered(y, message)
<1>1. ASSUME message.type = "ResourceUpdate"
      PROVE  Holds(y, message.uuid, message.wood)
  <2>1. PICK u \in Users : /\ x[u] # NoAccount /\ x[u].uuid = message.uuid
                           /\ x[u].wood >= message.wood
    BY <1>1 DEF Covered, Holds
  <2>2. y[u] # NoAccount /\ y[u].uuid = message.uuid /\ y[u].wood >= x[u].wood
    BY <2>1 DEF Grows
  <2>3. x[u].wood \in Nat /\ y[u].wood \in Nat
    BY <2>1, <2>2 DEF Accounts, Account
  <2>4. message.wood \in Nat
    BY <1>1 DEF Message
  <2>5. y[u].wood >= message.wood
    BY <2>1, <2>2, <2>3, <2>4
  <2> QED
    BY <2>2, <2>5 DEF Holds
<1>2. ASSUME Known(x, message.uuid) PROVE Known(y, message.uuid)
  BY <1>2 DEF Known, Grows
<1> QED
  BY <1>1, <1>2 DEF Covered

(* The step sends nothing that is not covered. *)
LEMMA SentStep ==
  ASSUME IInv, file' \in Accounts, SentInv, Grows(file, file'),
         \A c \in Conns : \/ Pipeline(c)' = Pipeline(c)
                          \/ \E message : Sends(c, message) /\ Covered(file', message)
                          \/ Pipeline(c)' = wire[c]
  PROVE  SentInv'
<1> SUFFICES ASSUME NEW c \in Conns, NEW k \in 1 .. Len(Pipeline(c)')
             PROVE  Covered(file', Pipeline(c)'[k])
  BY DEF SentInv, Covered, Holds, Known
<1>1. ASSUME NEW j \in 1 .. Len(Pipeline(c)) PROVE Covered(file', Pipeline(c)[j])
  <2>1. Pipeline(c)[j] \in Message
    BY PipelineTyped
  <2>2. file \in Accounts /\ Covered(file, Pipeline(c)[j])
    BY DEF IInv, TypeOK, SentInv
  <2> QED
    BY <2>1, <2>2, CoveredGrows
<1>2. CASE Pipeline(c)' = Pipeline(c)
  BY <1>1, <1>2
<1>3. CASE Pipeline(c)' = wire[c]
  <2>1. k \in 1 .. Len(Pipeline(c)) /\ Pipeline(c)[k] = wire[c][k]
    BY <1>3, WireIsPrefix, PipelineTyped
  <2> QED
    BY <1>1, <1>3, <2>1
<1>4. ASSUME NEW message, Sends(c, message), Covered(file', message)
      PROVE  Covered(file', Pipeline(c)'[k])
  BY <1>1, <1>4, SendsOne
<1> QED
  BY <1>2, <1>3, <1>4

LEMMA NextSent ==
  ASSUME BaseInv, AccountsInv, SentInv, [Next]_vars
  PROVE  SentInv'
<1>0. IInv /\ file' \in Accounts /\ Grows(file, file') /\ m_accounts \in Accounts
  BY NextInv, AccountsStep DEF BaseInv, IInv, TypeOK
<1>1. CASE Quiet \/ Restart
  <2>1. \A c \in Conns : Pipeline(c)' = Pipeline(c)
    BY <1>1, SamePipelines DEF Quiet, Restart, sessionVars
  <2> QED
    BY <1>0, <2>1, SentStep
<1>2. ASSUME NEW c \in Conns, onAccept(c) PROVE SentInv'
  <2>1. Covered(file', Assignment(m_nextClientId))
    BY DEF Covered, Assignment
  <2>2. \A d \in Conns : \/ Pipeline(d)' = Pipeline(d)
                         \/ Sends(d, Assignment(m_nextClientId))
    BY <1>0, <1>2, AcceptSends
  <2> QED
    BY <1>0, <2>1, <2>2, SentStep
<1>3. ASSUME NEW c \in Conns, NEW cred \in Credentials, LoginSucceeds(c, cred)
      PROVE  SentInv'
  <2>1. PICK granted \in Uuids :
          /\ granted = m_accounts'[cred.id].uuid
          /\ \A d \in Conns : IF d = Target(c) THEN Sends(d, Result(granted))
                                               ELSE Pipeline(d)' = Pipeline(d)
    BY <1>0, <1>3, LoginSends
  <2>2. up /\ UNCHANGED up /\ m_accounts'[cred.id] # NoAccount
    BY <1>0, <1>3, LoginSends
  <2>3. "rename" \notin DiskFaults => file' = m_accounts'
    BY <2>2, AccountsStep DEF AccountsInv
  <2>4. cred.id \in Users
    BY DEF Credentials
  <2>5. Covered(file', Result(granted))
    BY <2>1, <2>2, <2>3, <2>4 DEF Covered, Result, Known
  <2> QED
    BY <1>0, <2>1, <2>5, SentStep
<1>4. ASSUME NEW c \in Conns, NEW cred \in Credentials, LoginSaveThrows(c, cred)
      PROVE  SentInv'
  <2>1. \A d \in Conns : Pipeline(d)' = Pipeline(d)
    BY <1>0, <1>4, SaveThrowsSends
  <2> QED
    BY <1>0, <2>1, SentStep
<1>5. CASE onResourceTick
  <2>1. PICK rank \in TickOrders : \A c \in Conns :
          IF Due(c) THEN Sends(c, UpdateFor(m_clientId[c], rank))
                    ELSE Pipeline(c)' = Pipeline(c)
    BY <1>5, TickSends
  <2>2. file' = Credited(LoggedIn)
    BY <1>5, TickSends
  <2>3. ASSUME NEW c \in Conns, Due(c)
        PROVE  Covered(file', UpdateFor(m_clientId[c], rank))
    <3> DEFINE i == m_clientId[c]
               n == Cardinality(Share(Upto(i, rank), UuidOf(i)))
               m == Cardinality(Share(LoggedIn, UuidOf(i)))
    <3>1. /\ i \in LoggedIn /\ UuidOf(i) = m_uuid[c]
          /\ \E u \in Users : m_accounts[u] # NoAccount /\ m_accounts[u].uuid = m_uuid[c]
      BY <1>0, <2>3, DueAccount
    <3>2. PICK u \in Users : m_accounts[u] # NoAccount /\ m_accounts[u].uuid = UuidOf(i)
      BY <3>1
    <3>3. n \in Nat /\ m \in Nat /\ n <= m
      BY <3>1, ShareCounts
    <3>4. Distinct(m_accounts)
      BY DEF AccountsInv
    <3>5. /\ UpdateFor(i, rank).type = "ResourceUpdate"
          /\ UpdateFor(i, rank).uuid = UuidOf(i)
          /\ UpdateFor(i, rank).wood = m_accounts[u].wood + Gain * n
      BY <1>0, <3>1, <3>2, <3>4, UpdateStock
    <3>6. LoggedIn \subseteq ClientIds
      BY DEF LoggedIn
    <3>7. /\ file'[u] # NoAccount /\ file'[u].uuid = UuidOf(i)
          /\ file'[u].wood = m_accounts[u].wood + Gain * m
      BY <1>0, <2>2, <3>2, <3>6, CreditedStock
    <3>8. m_accounts[u].wood \in Nat
      BY <1>0, <3>2 DEF Accounts, Account
    <3> HIDE DEF i, n, m
    <3>9. file'[u].wood >= UpdateFor(i, rank).wood
      BY <3>3, <3>5, <3>7, <3>8 DEF Gain
    <3>10. Holds(file', UpdateFor(i, rank).uuid, UpdateFor(i, rank).wood)
      BY <3>5, <3>7, <3>9 DEF Holds
    <3> QED
      BY <3>5, <3>10 DEF Covered, i
  <2> QED
    BY <1>0, <2>1, <2>3, SentStep
<1>6. CASE Death
  <2>1. \A c \in Conns : Pipeline(c)' = wire[c]
    BY <1>0, <1>6, DeathLoses
  <2> QED
    BY <1>0, <2>1, SentStep
<1> QED
  BY <1>0, <1>1, <1>2, <1>3, <1>4, <1>5, <1>6, StepKinds

LEMMA EmptyAtInit ==
  ASSUME Init, NEW c \in Conns
  PROVE  Pipeline(c) = <<>> /\ Len(Pipeline(c)) = 0
<1>1. wire[c] = <<>> /\ m_outgoing[c] = <<>> /\ posted[c] = <<>>
  BY DEF Init, SessionInit
<1>2. Pipeline(c) = <<>> \o <<>> \o <<>>
  BY <1>1 DEF Pipeline
<1> QED
  BY <1>2

LEMMA SentInvHolds == Spec => []SentInv
<1>1. Init => SentInv
  BY EmptyAtInit DEF SentInv
<1> QED
  BY <1>1, NextSent, BaseInvHolds, AccountsInvHolds, PTL DEF Spec

(* ResultIsDurable, for every schedule of logins, ticks, crashes and        *)
(* restarts, if save() does not throw: an account whose uuid was sent in a  *)
(* LoginResult, or is on its way, is in the file that a restart loads.      *)
THEOREM ResultIsDurableHolds ==
  ASSUME "rename" \notin DiskFaults
  PROVE  Spec => []ResultIsDurable
<1>1. SentInv => ResultIsDurable
  BY DEF SentInv, Covered, Known, ResultIsDurable
<1> QED
  BY <1>1, SentInvHolds, PTL

-----------------------------------------------------------------------------
(* A connection that was not accepted yet has been sent nothing. *)

NewInv ==
  /\ \A c \in Conns : peer[c] = "new" => reader[c] = "none"
  /\ \A c \in Conns : reader[c] = "none" => Pipeline(c) = <<>> /\ m_uuid[c] = NoUuid

LEMMA NextNewPeer ==
  ASSUME IInv, NewInv, [Next]_vars
  PROVE  \A c \in Conns : peer'[c] = "new" => reader'[c] = "none"
<1>0. /\ peer \in [Conns -> {"new", "open", "closed"}]
      /\ reader \in [Conns -> {"none", "armed", "ended"}]
      /\ \A c \in Conns : peer[c] = "new" => reader[c] = "none"
  BY DEF IInv, TypeOK, SessionTypeOK, NewInv
<1>1. ASSUME NEW c \in Conns, Client(c)
      PROVE  \A d \in Conns : peer'[d] = "new" => reader'[d] = "none"
  BY <1>0, <1>1
  DEF Client, ClientConnects, ClientSends, ClientCloses, Connect, SendLine, Close
<1>2. ASSUME NEW c \in Conns, onAccept(c)
      PROVE  \A d \in Conns : peer'[d] = "new" => reader'[d] = "none"
  BY <1>0, <1>2 DEF onAccept, StartReading
<1>3. ASSUME NEW c \in Conns, ReadBreaks(c)
      PROVE  \A d \in Conns : peer'[d] = "new" => reader'[d] = "none"
  BY <1>0, <1>3 DEF ReadBreaks, ReadEnd
<1>4. ASSUME NEW c \in Conns,
             PostedRuns(c) \/ WriteCompletes(c) \/ WriteBreaks(c) \/ HandlesLine(c)
      PROVE  UNCHANGED <<peer, reader>>
  BY <1>4 DEF PostedRuns, RunPosted, WriteCompletes, WriteDone, WriteBreaks, WriteFail,
              HandlesLine, IgnoresLine, LoginRejected, LoginSucceeds, LoginSaveThrows,
              LoginRequest, TakeMalformed, TakeLine
<1>5. CASE UNCHANGED <<peer, reader>>
  BY <1>0, <1>5
<1>6. CASE Death
  <2>1. Dies
    BY <1>6 DEF Death, Killed, KilledInTick, NullSession, KilledInLogin
  <2> QED
    BY <1>0, <2>1 DEF Dies, LoseSessions
<1>7. onResourceTick \/ Restart \/ UNCHANGED vars => UNCHANGED <<peer, reader>>
  BY DEF onResourceTick, Restart, vars, sessionVars
<1> QED
  BY <1>1, <1>2, <1>3, <1>4, <1>5, <1>6, <1>7 DEF Next, Handler

LEMMA NextNew ==
  ASSUME BaseInv, NewInv, [Next]_vars
  PROVE  NewInv'
<1>0. /\ IInv
      /\ m_sessions \in [ClientIds -> Conns \cup {NoSession}]
      /\ m_uuid \in [Conns -> Uuids \cup {NoUuid}]
      /\ reader \in [Conns -> {"none", "armed", "ended"}]
  BY DEF BaseInv, IInv, TypeOK, SessionTypeOK
<1>1. \A c \in Conns : peer'[c] = "new" => reader'[c] = "none"
  BY <1>0, NextNewPeer
<1>2. \A i \in ClientIds : m_sessions[i] # NoSession => reader[m_sessions[i]] # "none"
  BY DEF BaseInv, RegisteredIsRead
<1> SUFFICES ASSUME NEW d \in Conns, reader'[d] = "none"
             PROVE  Pipeline(d)' = <<>> /\ m_uuid'[d] = NoUuid
  BY <1>1 DEF NewInv
<1>3. CASE Death
  <2>1. peer[d] = "new" /\ Pipeline(d)' = wire[d] /\ m_uuid'[d] = NoUuid
    BY <1>0, <1>3, DeathLoses
  <2>2. Pipeline(d) = <<>>
    BY <2>1 DEF NewInv
  <2>3. wire[d] = <<>>
    BY <1>0, <2>2, WireIsPrefix, PipelineTyped
  <2> QED
    BY <2>1, <2>3
<1>4. CASE Quiet \/ Restart
  BY <1>4, SamePipelines DEF NewInv, Quiet, Restart, sessionVars
<1>5. ASSUME NEW c \in Conns, onAccept(c)
      PROVE  Pipeline(d)' = <<>> /\ m_uuid'[d] = NoUuid
  <2>1. reader' = [reader EXCEPT ![c] = "armed"] /\ m_uuid' = m_uuid
    BY <1>5 DEF onAccept, StartReading
  <2>2. d # c /\ reader[d] = "none"
    BY <1>0, <2>1
  <2> QED
    BY <1>0, <1>5, <2>1, <2>2, AcceptSends DEF NewInv
<1>6. ASSUME NEW c \in Conns, NEW cred \in Credentials, LoginSucceeds(c, cred)
      PROVE  Pipeline(d)' = <<>> /\ m_uuid'[d] = NoUuid
  <2>1. reader[d] = "none"
    BY <1>0, <1>6, LoginSends
  <2>2. /\ m_clientId[c] \in ClientIds /\ Target(c) \in Conns
        /\ \E granted \in Uuids :
             /\ m_uuid' = [m_uuid EXCEPT ![Target(c)] = granted]
             /\ \A x \in Conns : IF x = Target(c) THEN Sends(x, Result(granted))
                                                  ELSE Pipeline(x)' = Pipeline(x)
    BY <1>0, <1>6, LoginSends
  <2>3. d # Target(c)
    BY <1>2, <2>1, <2>2, ConstantsAssumption DEF Target
  <2> QED
    BY <1>0, <2>1, <2>2, <2>3 DEF NewInv
<1>7. ASSUME NEW c \in Conns, NEW cred \in Credentials, LoginSaveThrows(c, cred)
      PROVE  Pipeline(d)' = <<>> /\ m_uuid'[d] = NoUuid
  BY <1>0, <1>7, SaveThrowsSends DEF NewInv
<1>8. CASE onResourceTick
  <2>1. reader[d] = "none" /\ m_uuid' = m_uuid
    BY <1>8, TickSends
  <2>2. ~Due(d)
    <3>1. ASSUME Due(d) PROVE FALSE
      BY <1>2, <2>1, <3>1, ConstantsAssumption DEF Due, LoggedIn
    <3> QED
      BY <3>1
  <2>3. Pipeline(d)' = Pipeline(d)
    BY <1>8, <2>2, TickSends
  <2> QED
    BY <2>1, <2>3 DEF NewInv
<1> QED
  BY <1>0, <1>3, <1>4, <1>5, <1>6, <1>7, <1>8, StepKinds

LEMMA NewInvHolds == Spec => []NewInv
<1>1. Init => NewInv
  <2>1. Init => \A c \in Conns : reader[c] = "none" /\ m_uuid[c] = NoUuid
    BY DEF Init, SessionInit, FreshServer
  <2> QED
    BY <2>1, EmptyAtInit DEF NewInv
<1> QED
  BY <1>1, NextNew, BaseInvHolds, PTL DEF Spec

-----------------------------------------------------------------------------
(* What a client sent, and what is still to be read of it *)

(* A line that waits to be read was sent. *)
Heard ==
  \A c \in Conns : \A n \in 1 .. Len(m_incoming[c]) :
    \E m \in 1 .. Len(asked[c]) : asked[c][m] = m_incoming[c][n]

(* The history only gets longer. *)
AskedKept ==
  \A c \in Conns : \A m \in 1 .. Len(asked[c]) :
    m \in 1 .. Len(asked'[c]) /\ asked'[c][m] = asked[c][m]

(* A step that adds no line, and takes off what it takes off. *)
LEMMA FewerHeard ==
  ASSUME Heard, UNCHANGED asked,
         \A c \in Conns : \A n \in 1 .. Len(m_incoming'[c]) :
           \E l \in 1 .. Len(m_incoming[c]) : m_incoming'[c][n] = m_incoming[c][l]
  PROVE  Heard' /\ AskedKept
BY DEF Heard, AskedKept

LEMMA NextHeard ==
  ASSUME IInv, Heard, [Next]_vars
  PROVE  Heard' /\ AskedKept
<1>0. m_incoming \in [Conns -> Seq(Line)] /\ asked \in [Conns -> Seq(Line)]
  BY DEF IInv, TypeOK, SessionTypeOK
<1>1. CASE UNCHANGED <<m_incoming, asked>>
  BY <1>1, FewerHeard
<1>2. ASSUME NEW c \in Conns, NEW line \in Line, ClientSends(c, line)
      PROVE  Heard' /\ AskedKept
  <2>1. /\ m_incoming' = [m_incoming EXCEPT ![c] = Append(m_incoming[c], line)]
        /\ asked' = [asked EXCEPT ![c] = Append(asked[c], line)]
    BY <1>2 DEF ClientSends, SendLine
  <2>2. /\ m_incoming'[c] = Append(m_incoming[c], line) /\ m_incoming[c] \in Seq(Line)
        /\ asked'[c] = Append(asked[c], line) /\ asked[c] \in Seq(Line)
        /\ \A d \in Conns : d # c => m_incoming'[d] = m_incoming[d] /\ asked'[d] = asked[d]
    BY <1>0, <2>1
  <2>3. /\ Len(asked[c]) \in Nat /\ Len(asked'[c]) = Len(asked[c]) + 1
        /\ asked'[c][Len(asked[c]) + 1] = line
        /\ \A m \in 1 .. Len(asked[c]) : asked'[c][m] = asked[c][m]
    BY <2>2, AppendProperties
  <2>4. /\ Len(m_incoming[c]) \in Nat /\ Len(m_incoming'[c]) = Len(m_incoming[c]) + 1
        /\ m_incoming'[c][Len(m_incoming[c]) + 1] = line
        /\ \A n \in 1 .. Len(m_incoming[c]) : m_incoming'[c][n] = m_incoming[c][n]
    BY <2>2, AppendProperties
  <2>5. AskedKept
    BY SMTT(30), <2>2, <2>3 DEF AskedKept
  <2>6. ASSUME NEW d \in Conns, NEW n \in 1 .. Len(m_incoming'[d])
        PROVE  \E m \in 1 .. Len(asked'[d]) : asked'[d][m] = m_incoming'[d][n]
    <3>1. CASE d # c
      <4>1. m_incoming'[d] = m_incoming[d] /\ asked'[d] = asked[d]
        BY <2>2, <3>1
      <4>2. n \in 1 .. Len(m_incoming[d])
        BY <4>1
      <4>3. \E m \in 1 .. Len(asked[d]) : asked[d][m] = m_incoming[d][n]
        BY <4>2 DEF Heard
      <4> QED
        BY <4>1, <4>3
    <3>2. CASE d = c /\ n \in 1 .. Len(m_incoming[c])
      <4>1. PICK m \in 1 .. Len(asked[c]) : asked[c][m] = m_incoming[c][n]
        BY <3>2 DEF Heard
      <4> QED
        BY <2>3, <2>4, <3>2, <4>1
    <3>3. CASE d = c /\ n = Len(m_incoming[c]) + 1
      BY <2>3, <2>4, <3>3
    <3> QED
      BY <2>4, <3>1, <3>2, <3>3
  <2> QED
    BY <2>5, <2>6 DEF Heard
<1>3. ASSUME NEW c \in Conns, TakeLine(c), UNCHANGED asked
      PROVE  Heard' /\ AskedKept
  <2>1. /\ m_incoming[c] \in Seq(Line) /\ m_incoming[c] # <<>>
        /\ m_incoming'[c] = Tail(m_incoming[c])
        /\ \A d \in Conns : d # c => m_incoming'[d] = m_incoming[d]
    BY <1>0, <1>3 DEF TakeLine
  <2>2. /\ Len(m_incoming[c]) \in Nat /\ Len(Tail(m_incoming[c])) = Len(m_incoming[c]) - 1
        /\ \A n \in 1 .. Len(Tail(m_incoming[c])) :
             Tail(m_incoming[c])[n] = m_incoming[c][n + 1]
    BY <2>1, HeadTailProperties
  <2>3. ASSUME NEW n \in 1 .. Len(m_incoming'[c])
        PROVE  \E l \in 1 .. Len(m_incoming[c]) : m_incoming'[c][n] = m_incoming[c][l]
    <3>1. n + 1 \in 1 .. Len(m_incoming[c]) /\ m_incoming'[c][n] = m_incoming[c][n + 1]
      BY <2>1, <2>2
    <3> QED
      BY <3>1
  <2>4. \A d \in Conns : \A n \in 1 .. Len(m_incoming'[d]) :
          \E l \in 1 .. Len(m_incoming[d]) : m_incoming'[d][n] = m_incoming[d][l]
    BY <2>1, <2>3
  <2> QED
    BY <1>3, <2>4, FewerHeard
<1>4. ASSUME NEW c \in Conns, ClientCloses(c)
      PROVE  Heard' /\ AskedKept
  <2>1. PICK l \in 0 .. Len(m_incoming[c]) :
          m_incoming' = [m_incoming EXCEPT ![c] = SubSeq(m_incoming[c], 1, l)]
    BY <1>4 DEF ClientCloses, Close
  <2>2. asked' = asked
    BY <1>4 DEF ClientCloses
  <2>3. /\ m_incoming[c] \in Seq(Line) /\ Len(m_incoming[c]) \in Nat
        /\ m_incoming'[c] = SubSeq(m_incoming[c], 1, l)
        /\ \A d \in Conns : d # c => m_incoming'[d] = m_incoming[d]
    BY <1>0, <2>1
  <2>4. /\ Len(SubSeq(m_incoming[c], 1, l)) = l
        /\ \A n \in 1 .. l : SubSeq(m_incoming[c], 1, l)[n] = m_incoming[c][n]
    BY <2>3
  <2>5. ASSUME NEW n \in 1 .. Len(m_incoming'[c])
        PROVE  n \in 1 .. Len(m_incoming[c]) /\ m_incoming'[c][n] = m_incoming[c][n]
    BY <2>3, <2>4
  <2>6. \A d \in Conns : \A n \in 1 .. Len(m_incoming'[d]) :
          \E k \in 1 .. Len(m_incoming[d]) : m_incoming'[d][n] = m_incoming[d][k]
    BY <2>3, <2>5
  <2> QED
    BY <2>2, <2>6, FewerHeard
<1>5. CASE Death
  <2>1. Dies
    BY <1>5 DEF Death, Killed, KilledInTick, NullSession, KilledInLogin
  <2>2. asked' = asked /\ \A c \in Conns : m_incoming'[c] = <<>>
    BY <2>1 DEF Dies, LoseSessions
  <2> QED
    BY <2>2, FewerHeard
<1>6. ASSUME NEW c \in Conns, Handler(c)
      PROVE  UNCHANGED asked /\ (UNCHANGED m_incoming \/ TakeLine(c))
  BY <1>6
  DEF Handler, onAccept, PostedRuns, RunPosted, WriteCompletes, WriteDone, WriteBreaks,
      WriteFail, ReadBreaks, ReadEnd, HandlesLine, IgnoresLine, TakeMalformed, LoginRejected,
      LoginSucceeds, LoginSaveThrows, LoginRequest
<1>7. ASSUME NEW c \in Conns, ClientConnects(c) PROVE UNCHANGED <<m_incoming, asked>>
  BY <1>7 DEF ClientConnects, Connect
<1>8. onResourceTick \/ Restart \/ UNCHANGED vars => UNCHANGED <<m_incoming, asked>>
  BY DEF onResourceTick, Restart, vars, sessionVars
<1> QED
  BY <1>1, <1>2, <1>3, <1>4, <1>5, <1>6, <1>7, <1>8 DEF Next, Client

LEMMA HeardHolds == Spec => []Heard
<1>1. Init => Heard
  BY DEF Init, SessionInit, Heard
<1> QED
  BY <1>1, NextHeard, InvHolds, PTL DEF Spec

-----------------------------------------------------------------------------
(* What a session is sent is its client's own. *)

(* These lines have the name and the password of the account with this uuid. *)
Entitled(lines, accounts, id) ==
  \E n \in 1 .. Len(lines) :
    /\ lines[n] \in Credentials
    /\ accounts[lines[n].id] # NoAccount
    /\ accounts[lines[n].id].password = lines[n].password
    /\ accounts[lines[n].id].uuid = id

(* The session is logged in to its client's account, and was sent nothing   *)
(* of any other.                                                            *)
Owns(c) ==
  /\ m_uuid[c] # NoUuid => Entitled(asked[c], m_accounts, m_uuid[c])
  /\ \A k \in 1 .. Len(Pipeline(c)) :
       Pipeline(c)[k].type # "AssignClientId"
         => Entitled(asked[c], m_accounts, Pipeline(c)[k].uuid)

OwnInv ==
  /\ ~up => \A c \in Conns : m_clientId[c] = NoId
  /\ \A c \in Conns : m_clientId[c] # NoId /\ Unshared(c) => Owns(c)

LEMMA EntitledKept ==
  ASSUME AskedKept, NEW c \in Conns, Grows(m_accounts, m_accounts'), NEW id,
         Entitled(asked[c], m_accounts, id)
  PROVE  Entitled(asked'[c], m_accounts', id)
<1>1. PICK n \in 1 .. Len(asked[c]) :
        /\ asked[c][n] \in Credentials
        /\ m_accounts[asked[c][n].id] # NoAccount
        /\ m_accounts[asked[c][n].id].password = asked[c][n].password
        /\ m_accounts[asked[c][n].id].uuid = id
  BY DEF Entitled
<1>2. n \in 1 .. Len(asked'[c]) /\ asked'[c][n] = asked[c][n]
  BY DEF AskedKept
<1>3. asked[c][n].id \in Users
  BY <1>1 DEF Credentials
<1>4. /\ m_accounts'[asked[c][n].id] # NoAccount
      /\ m_accounts'[asked[c][n].id].password = asked[c][n].password
      /\ m_accounts'[asked[c][n].id].uuid = id
  BY <1>1, <1>3 DEF Grows
<1> QED
  BY <1>1, <1>2, <1>4 DEF Entitled

(* A step that logs the session in to nothing else, and sends it nothing    *)
(* else, than what its client's lines entitle to.                           *)
LEMMA OwnsStep ==
  ASSUME IInv, AskedKept, NEW c \in Conns, Owns(c), Grows(m_accounts, m_accounts'),
         m_uuid'[c] = m_uuid[c] \/ Entitled(asked'[c], m_accounts', m_uuid'[c]),
         \/ Pipeline(c)' = Pipeline(c)
         \/ \E message :
              /\ Sends(c, message)
              /\ message.type # "AssignClientId"
                   => Entitled(asked'[c], m_accounts', message.uuid)
  PROVE  Owns(c)'
<1>1. m_uuid'[c] # NoUuid => Entitled(asked'[c], m_accounts', m_uuid'[c])
  BY EntitledKept DEF Owns
<1>2. ASSUME NEW k \in 1 .. Len(Pipeline(c)), Pipeline(c)[k].type # "AssignClientId"
      PROVE  Entitled(asked'[c], m_accounts', Pipeline(c)[k].uuid)
  BY <1>2, EntitledKept DEF Owns
<1>3. ASSUME NEW k \in 1 .. Len(Pipeline(c)'), Pipeline(c)'[k].type # "AssignClientId"
      PROVE  Entitled(asked'[c], m_accounts', Pipeline(c)'[k].uuid)
  <2>1. CASE Pipeline(c)' = Pipeline(c)
    BY <1>2, <1>3, <2>1
  <2>2. ASSUME NEW message, Sends(c, message),
               message.type # "AssignClientId"
                 => Entitled(asked'[c], m_accounts', message.uuid)
        PROVE  Entitled(asked'[c], m_accounts', Pipeline(c)'[k].uuid)
    <3>1. CASE k \in 1 .. Len(Pipeline(c))
      <4>1. Pipeline(c)'[k] = Pipeline(c)[k]
        BY <2>2, <3>1, SendsOne
      <4> QED
        BY <1>2, <1>3, <3>1, <4>1
    <3>2. CASE k = Len(Pipeline(c)) + 1
      <4>1. Pipeline(c)'[k] = message
        BY <2>2, <3>2, SendsOne
      <4> QED
        BY <1>3, <2>2, <4>1
    <3> QED
      BY <2>2, <3>1, <3>2, SendsOne
  <2> QED
    BY <2>1, <2>2
<1> QED
  BY <1>1, <1>3 DEF Owns

(* The session that the login handler finds by the id of c is c, if nobody  *)
(* else was given the id of the session that is found.                      *)
LEMMA TargetIsOwn ==
  ASSUME BaseInv, NEW c \in Conns, m_clientId[c] \in ClientIds, Target(c) \in Conns,
         Unshared(Target(c))
  PROVE  Target(c) = c
BY ConstantsAssumption DEF BaseInv, RegisteredIsRead, Target, Unshared

LEMMA NextOwn ==
  ASSUME BaseInv, AccountsInv, NewInv, Heard, OwnInv, [Next]_vars
  PROVE  OwnInv'
<1>0. /\ IInv
      /\ m_clientId \in [Conns -> ClientIds \cup {NoId}]
      /\ m_uuid \in [Conns -> Uuids \cup {NoUuid}]
      /\ m_accounts \in Accounts
      /\ m_nextClientId \in ClientIds
      /\ NoId \notin ClientIds
  BY ConstantsAssumption DEF BaseInv, IInv, TypeOK, ClientIds
<1>1. AskedKept
  BY <1>0, NextHeard
<1>2. up /\ up' => Grows(m_accounts, m_accounts')
  BY AccountsStep
<1>3. ASSUME UNCHANGED m_clientId, NEW c \in Conns, m_clientId'[c] # NoId, Unshared(c)'
      PROVE  up /\ m_clientId[c] # NoId /\ Unshared(c) /\ Owns(c)
  BY <1>3 DEF OwnInv, Unshared
<1>4. CASE Quiet
  <2>1. UNCHANGED <<up, m_uuid, m_clientId, m_accounts>>
    BY <1>4 DEF Quiet
  <2>2. Grows(m_accounts, m_accounts')
    BY <1>0, <2>1, GrowsReflexive
  <2>3. ASSUME NEW c \in Conns, m_clientId'[c] # NoId, Unshared(c)' PROVE Owns(c)'
    <3>1. Owns(c) /\ Pipeline(c)' = Pipeline(c) /\ m_uuid'[c] = m_uuid[c]
      BY <1>3, <1>4, <2>1, <2>3 DEF Quiet
    <3> QED
      BY <1>0, <1>1, <2>2, <3>1, OwnsStep
  <2> QED
    BY <2>1, <2>3 DEF OwnInv
<1>5. ASSUME NEW c \in Conns, onAccept(c) PROVE OwnInv'
  <2>1. /\ up /\ UNCHANGED <<up, m_uuid, m_accounts>>
        /\ m_clientId' = [m_clientId EXCEPT ![c] = m_nextClientId]
        /\ reader[c] = "none"
    BY <1>5 DEF onAccept, dbVars
  <2>2. Grows(m_accounts, m_accounts')
    BY <1>0, <2>1, GrowsReflexive
  <2>3. ASSUME NEW d \in Conns, m_clientId'[d] # NoId, Unshared(d)' PROVE Owns(d)'
    <3>1. Owns(d)
      <4>1. CASE d = c
        <5>1. Pipeline(d) = <<>> /\ m_uuid[d] = NoUuid
          BY <2>1, <4>1 DEF NewInv
        <5> QED
          BY <5>1 DEF Owns
      <4>2. CASE d # c
        <5>1. m_clientId[c] = NoId
          BY <1>0, <2>1 DEF IInv, IdInv
        <5>2. m_clientId[d] # NoId
          BY <1>0, <2>1, <2>3, <4>2
        <5>3. Unshared(d)
          BY <1>0, <2>1, <2>3, <4>2, <5>1, <5>2 DEF Unshared
        <5> QED
          BY <5>2, <5>3 DEF OwnInv
      <4> QED
        BY <4>1, <4>2
    <3>2. \/ Pipeline(d)' = Pipeline(d)
          \/ Sends(d, Assignment(m_nextClientId))
      BY <1>0, <1>5, AcceptSends
    <3>3. Assignment(m_nextClientId).type = "AssignClientId"
      BY DEF Assignment
    <3> QED
      BY <1>0, <1>1, <2>1, <2>2, <3>1, <3>2, <3>3, OwnsStep
  <2> QED
    BY <2>1, <2>3 DEF OwnInv
<1>6. ASSUME NEW c \in Conns, NEW cred \in Credentials, LoginSucceeds(c, cred)
      PROVE  OwnInv'
  <2>1. /\ up /\ UNCHANGED <<up, m_clientId>> /\ Target(c) \in Conns
        /\ m_clientId[c] \in ClientIds
        /\ Head(m_incoming[c]) = cred /\ m_incoming[c] # <<>>
        /\ m_accounts'[cred.id] # NoAccount
        /\ m_accounts'[cred.id].password = cred.password
        /\ asked' = asked
    BY <1>0, <1>6, LoginSends
  <2>2. PICK granted \in Uuids :
          /\ granted = m_accounts'[cred.id].uuid
          /\ m_uuid' = [m_uuid EXCEPT ![Target(c)] = granted]
          /\ \A d \in Conns : IF d = Target(c) THEN Sends(d, Result(granted))
                                               ELSE Pipeline(d)' = Pipeline(d)
    BY <1>0, <1>6, LoginSends
  <2>3. Entitled(asked'[c], m_accounts', granted)
    <3>1. m_incoming[c] \in Seq(Line)
      BY <1>0 DEF IInv, TypeOK, SessionTypeOK
    <3>2. 1 \in 1 .. Len(m_incoming[c]) /\ m_incoming[c][1] = cred
      BY <2>1, <3>1, HeadTailProperties
    <3>3. PICK m \in 1 .. Len(asked[c]) : asked[c][m] = cred
      BY <3>2 DEF Heard
    <3> QED
      BY <2>1, <2>2, <3>3 DEF Entitled
  <2>4. ASSUME NEW d \in Conns, m_clientId'[d] # NoId, Unshared(d)' PROVE Owns(d)'
    <3>1. Owns(d) /\ Unshared(d)
      BY <1>3, <2>1, <2>4
    <3>2. Grows(m_accounts, m_accounts')
      BY <1>2, <2>1
    <3>3. CASE d = Target(c)
      <4>1. d = c
        BY <2>1, <3>1, <3>3, TargetIsOwn
      <4>2. m_uuid'[d] = granted
        BY <1>0, <2>2, <3>3
      <4>3. Sends(d, Result(granted)) /\ Result(granted).uuid = granted
        BY <2>2, <3>3 DEF Result
      <4> QED
        BY <1>0, <1>1, <2>3, <3>1, <3>2, <4>1, <4>2, <4>3, OwnsStep
    <3>4. CASE d # Target(c)
      <4>1. m_uuid'[d] = m_uuid[d] /\ Pipeline(d)' = Pipeline(d)
        BY <1>0, <2>2, <3>4
      <4> QED
        BY <1>0, <1>1, <3>1, <3>2, <4>1, OwnsStep
    <3> QED
      BY <3>3, <3>4
  <2> QED
    BY <2>1, <2>4 DEF OwnInv
<1>7. ASSUME NEW c \in Conns, NEW cred \in Credentials, LoginSaveThrows(c, cred)
      PROVE  OwnInv'
  <2>1. /\ up /\ UNCHANGED <<up, m_uuid, m_clientId>>
        /\ \A d \in Conns : Pipeline(d)' = Pipeline(d)
    BY <1>0, <1>7, SaveThrowsSends
  <2>2. Grows(m_accounts, m_accounts')
    BY <1>2, <2>1
  <2>3. ASSUME NEW d \in Conns, m_clientId'[d] # NoId, Unshared(d)' PROVE Owns(d)'
    <3>1. Owns(d) /\ m_uuid'[d] = m_uuid[d]
      BY <1>3, <2>1, <2>3
    <3> QED
      BY <1>0, <1>1, <2>1, <2>2, <3>1, OwnsStep
  <2> QED
    BY <2>1, <2>3 DEF OwnInv
<1>8. CASE onResourceTick
  <2>1. up /\ UNCHANGED <<up, m_uuid, m_clientId>>
    BY <1>8, TickSends
  <2>2. PICK rank \in TickOrders : \A c \in Conns :
          IF Due(c) THEN Sends(c, UpdateFor(m_clientId[c], rank))
                    ELSE Pipeline(c)' = Pipeline(c)
    BY <1>8, TickSends
  <2>3. Grows(m_accounts, m_accounts')
    BY <1>2, <2>1
  <2>4. ASSUME NEW d \in Conns, m_clientId'[d] # NoId, Unshared(d)' PROVE Owns(d)'
    <3>1. Owns(d) /\ m_uuid'[d] = m_uuid[d]
      BY <1>3, <2>1, <2>4
    <3>2. CASE Due(d)
      <4>1. UpdateFor(m_clientId[d], rank).uuid = m_uuid[d] /\ m_uuid[d] # NoUuid
        BY <1>0, <3>2, DueAccount DEF UpdateFor
      <4>2. Entitled(asked'[d], m_accounts', m_uuid[d])
        BY <1>1, <2>3, <3>1, <4>1, EntitledKept DEF Owns
      <4>3. Sends(d, UpdateFor(m_clientId[d], rank))
        BY <2>2, <3>2
      <4> HIDE DEF Due
      <4> QED
        BY <1>0, <1>1, <2>3, <3>1, <4>1, <4>2, <4>3, OwnsStep
    <3>3. CASE ~Due(d)
      BY <1>0, <1>1, <2>2, <2>3, <3>1, <3>3, OwnsStep
    <3> QED
      BY <3>2, <3>3
  <2> QED
    BY <2>1, <2>4 DEF OwnInv
<1>9. CASE Death
  <2>1. \A c \in Conns : m_clientId'[c] = NoId
    BY <1>0, <1>9, DeathLoses
  <2> QED
    BY <2>1 DEF OwnInv
<1>10. CASE Restart
  <2>1. \A c \in Conns : m_clientId'[c] = NoId
    BY <1>10 DEF Restart, OwnInv, idVars
  <2> QED
    BY <2>1 DEF OwnInv
<1> QED
  BY <1>0, <1>4, <1>5, <1>6, <1>7, <1>8, <1>9, <1>10, StepKinds

LEMMA OwnInvHolds == Spec => []OwnInv
<1>1. Init => OwnInv
  BY DEF Init, FreshServer, OwnInv
<1> QED
  BY <1>1, NextOwn, BaseInvHolds, AccountsInvHolds, NewInvHolds, HeardHolds, PTL DEF Spec

(* OnlyOwnAccount, for any number of connections and of client ids, whoever *)
(* the login handler finds under an id: as long as no other session of the  *)
(* process has had a session's id, all it is sent is about an account whose *)
(* name and password its own client sent.                                   *)
THEOREM OnlyOwnAccountHolds == Spec => []OnlyOwnAccount
<1>1. OwnInv => OnlyOwnAccount
  BY DEF OwnInv, Owns, Entitled, OnlyOwnAccount
<1> QED
  BY <1>1, OwnInvHolds, PTL

-----------------------------------------------------------------------------
(* The numbers of the updates *)

Earlier(c, k) == {j \in Updates(c) : j <= k}

(* The updates are numbered as they are ordered, and the counter of the     *)
(* session's id counts them.                                                *)
Numbered(c) == \A k \in Updates(c) : Pipeline(c)[k].sequence = Cardinality(Earlier(c, k))

CountInv ==
  /\ \A c \in Conns : m_clientId[c] # NoId /\ Unshared(c) =>
       Numbered(c) /\ Cardinality(Updates(c)) = m_lastSeqByType[m_clientId[c]]
  /\ \A i \in ClientIds : (\A c \in Conns : m_clientId[c] # i) => m_lastSeqByType[i] = 0

LEMMA UpdatesFinite ==
  ASSUME IInv, NEW c \in Conns
  PROVE  /\ IsFiniteSet(Updates(c)) /\ Cardinality(Updates(c)) \in Nat
         /\ \A k \in Updates(c) : k \in Nat /\ k <= Len(Pipeline(c))
<1>1. Len(Pipeline(c)) \in Nat
  BY PipelineTyped
<1>2. IsFiniteSet(1 .. Len(Pipeline(c)))
  BY <1>1, FS_Interval
<1>3. Updates(c) \in SUBSET (1 .. Len(Pipeline(c)))
  BY DEF Updates
<1>4. IsFiniteSet(Updates(c))
  BY <1>2, <1>3, FS_Subset
<1> QED
  BY <1>1, <1>3, <1>4, FS_CardinalityType

(* What sending one message does to the set of updates. *)
LEMMA SendsUpdates ==
  ASSUME IInv, NEW c \in Conns, NEW message, Sends(c, message)
  PROVE  /\ message.type # "ResourceUpdate" => Updates(c)' = Updates(c)
         /\ message.type = "ResourceUpdate"
              => Updates(c)' = Updates(c) \cup {Len(Pipeline(c)) + 1}
         /\ \A k \in Updates(c) : Pipeline(c)'[k] = Pipeline(c)[k]
<1>1. Len(Pipeline(c)) \in Nat
  BY PipelineTyped
<1>2. Updates(c)' = {k \in 1 .. Len(Pipeline(c)') : Pipeline(c)'[k].type = "ResourceUpdate"}
  BY DEF Updates
<1> QED
  BY <1>1, <1>2, SendsOne DEF Updates

(* A message that is no update changes no number. *)
LEMMA NumberedKept ==
  ASSUME IInv, NEW c \in Conns, Numbered(c),
         \/ Pipeline(c)' = Pipeline(c)
         \/ \E message : Sends(c, message) /\ message.type # "ResourceUpdate"
  PROVE  Numbered(c)' /\ Updates(c)' = Updates(c)
<1>1. Updates(c)' = Updates(c) /\ \A k \in Updates(c) : Pipeline(c)'[k] = Pipeline(c)[k]
  BY SendsUpdates DEF Updates
<1>2. \A k \in Updates(c) : Earlier(c, k)' = Earlier(c, k)
  BY <1>1 DEF Earlier
<1> QED
  BY <1>1, <1>2 DEF Numbered

(* An update with the next number goes on with the numbering. *)
LEMMA NumberedOn ==
  ASSUME IInv, NEW c \in Conns, Numbered(c), NEW message, Sends(c, message),
         message.type = "ResourceUpdate", message.sequence = Cardinality(Updates(c)) + 1
  PROVE  Numbered(c)' /\ Cardinality(Updates(c))' = Cardinality(Updates(c)) + 1
<1>0. PICK n : n = Len(Pipeline(c)) + 1
  OBVIOUS
<1>1. /\ IsFiniteSet(Updates(c)) /\ Cardinality(Updates(c)) \in Nat
      /\ \A k \in Updates(c) : k \in Nat /\ k <= Len(Pipeline(c))
  BY UpdatesFinite
<1>2. n \in Nat /\ n \notin Updates(c) /\ \A k \in Updates(c) : k < n
  BY <1>0, <1>1, PipelineTyped
<1>3. /\ Updates(c)' = Updates(c) \cup {n}
      /\ \A k \in Updates(c) : Pipeline(c)'[k] = Pipeline(c)[k]
  BY <1>0, SendsUpdates
<1>4. Pipeline(c)'[n] = message
  BY <1>0, SendsOne
<1>5. Cardinality(Updates(c)') = Cardinality(Updates(c)) + 1
  BY <1>1, <1>2, <1>3, FS_AddElement
<1>6. ASSUME NEW k \in Updates(c) PROVE Earlier(c, k)' = Earlier(c, k)
  BY <1>1, <1>2, <1>3 DEF Earlier
<1>7. Earlier(c, n)' = Updates(c)'
  BY <1>1, <1>2, <1>3 DEF Earlier
<1>8. ASSUME NEW k \in Updates(c)'
      PROVE  Pipeline(c)'[k].sequence = Cardinality(Earlier(c, k)')
  <2>1. CASE k \in Updates(c)
    BY <1>3, <1>6, <2>1 DEF Numbered
  <2>2. CASE k = n
    BY <1>4, <1>5, <1>7, <2>2
  <2> QED
    BY <1>3, <2>1, <2>2
<1> QED
  BY <1>5, <1>8 DEF Numbered

LEMMA NextCount ==
  ASSUME BaseInv, AccountsInv, NewInv, CountInv, [Next]_vars
  PROVE  CountInv'
<1>0. /\ IInv
      /\ m_clientId \in [Conns -> ClientIds \cup {NoId}]
      /\ m_lastSeqByType \in [ClientIds -> Nat]
      /\ m_nextClientId \in ClientIds
      /\ NoId \notin ClientIds
  BY ConstantsAssumption DEF BaseInv, IInv, TypeOK, ClientIds
<1>1. ASSUME UNCHANGED <<m_clientId, m_lastSeqByType>>,
             \A c \in Conns : \/ Pipeline(c)' = Pipeline(c)
                              \/ \E message : /\ Sends(c, message)
                                              /\ message.type # "ResourceUpdate"
      PROVE  CountInv'
  <2>1. ASSUME NEW c \in Conns, m_clientId'[c] # NoId, Unshared(c)'
        PROVE  /\ Numbered(c)'
               /\ Cardinality(Updates(c)') = m_lastSeqByType'[m_clientId'[c]]
    <3>1. Numbered(c) /\ Cardinality(Updates(c)) = m_lastSeqByType[m_clientId[c]]
      BY <1>1, <2>1 DEF CountInv, Unshared
    <3>2. Numbered(c)' /\ Updates(c)' = Updates(c)
      BY <1>0, <1>1, <3>1, NumberedKept
    <3> QED
      BY <1>1, <3>1, <3>2
  <2> QED
    BY <1>1, <2>1 DEF CountInv
<1>2. CASE Quiet \/ Restart
  <2>1. /\ UNCHANGED <<m_clientId, m_lastSeqByType>>
        /\ \A c \in Conns : Pipeline(c)' = Pipeline(c)
    BY <1>2, SamePipelines DEF Quiet, Restart, sessionVars, idVars
  <2> QED
    BY <1>1, <2>1
<1>3. ASSUME NEW c \in Conns, NEW cred \in Credentials,
             LoginSucceeds(c, cred) \/ LoginSaveThrows(c, cred)
      PROVE  CountInv'
  <2>1. CASE LoginSucceeds(c, cred)
    <3>1. UNCHANGED <<m_clientId, m_lastSeqByType>>
      BY <1>0, <2>1, LoginSends
    <3>2. PICK granted \in Uuids : \A d \in Conns : IF d = Target(c) THEN Sends(d, Result(granted))
                                                 ELSE Pipeline(d)' = Pipeline(d)
      BY <1>0, <2>1, LoginSends
    <3>3. Result(granted).type # "ResourceUpdate"
      BY DEF Result
    <3> QED
      BY <1>1, <3>1, <3>2, <3>3
  <2>2. CASE LoginSaveThrows(c, cred)
    BY <1>0, <1>1, <2>2, SaveThrowsSends
  <2> QED
    BY <1>3, <2>1, <2>2
<1>4. ASSUME NEW c \in Conns, onAccept(c) PROVE CountInv'
  <2>1. /\ UNCHANGED m_lastSeqByType
        /\ m_clientId' = [m_clientId EXCEPT ![c] = m_nextClientId]
        /\ reader[c] = "none"
    BY <1>4 DEF onAccept
  <2>2. m_clientId[c] = NoId
    BY <1>0, <2>1 DEF IInv, IdInv
  <2>3. \A d \in Conns : \/ Pipeline(d)' = Pipeline(d)
                         \/ Sends(d, Assignment(m_nextClientId))
    BY <1>0, <1>4, AcceptSends
  <2>4. Assignment(m_nextClientId).type # "ResourceUpdate"
    BY DEF Assignment
  <2>5. ASSUME NEW d \in Conns, m_clientId'[d] # NoId, Unshared(d)'
        PROVE  /\ Numbered(d)'
               /\ Cardinality(Updates(d)') = m_lastSeqByType'[m_clientId'[d]]
    <3>1. Numbered(d) /\ Cardinality(Updates(d)) = m_lastSeqByType[m_clientId'[d]]
      <4>1. CASE d = c
        <5>1. Pipeline(d) = <<>>
          BY <2>1, <4>1 DEF NewInv
        <5>2. Updates(d) = {}
          BY <5>1 DEF Updates
        <5>3. m_clientId'[d] = m_nextClientId
          BY <1>0, <2>1, <4>1
        <5>4. \A x \in Conns : m_clientId[x] # m_nextClientId
          BY <1>0, <2>1, <2>2, <2>5, <4>1, <5>3 DEF Unshared
        <5>5. m_lastSeqByType[m_nextClientId] = 0
          BY <1>0, <5>4 DEF CountInv
        <5> QED
          BY <5>2, <5>3, <5>5, FS_EmptySet DEF Numbered
      <4>2. CASE d # c
        <5>1. m_clientId[d] # NoId /\ m_clientId'[d] = m_clientId[d]
          BY <1>0, <2>1, <2>5, <4>2
        <5>2. Unshared(d)
          BY <1>0, <2>1, <2>2, <2>5, <4>2, <5>1 DEF Unshared
        <5> QED
          BY <5>1, <5>2 DEF CountInv
      <4> QED
        BY <4>1, <4>2
    <3>2. Numbered(d)' /\ Updates(d)' = Updates(d)
      BY <1>0, <2>3, <2>4, <3>1, NumberedKept
    <3> QED
      BY <2>1, <3>1, <3>2
  <2>6. ASSUME NEW i \in ClientIds, \A d \in Conns : m_clientId'[d] # i
        PROVE  m_lastSeqByType'[i] = 0
    <3>1. \A d \in Conns : m_clientId[d] # i
      BY <1>0, <2>1, <2>2, <2>6
    <3> QED
      BY <2>1, <3>1 DEF CountInv
  <2> QED
    BY <2>5, <2>6 DEF CountInv
<1>5. CASE onResourceTick
  <2>1. /\ UNCHANGED m_clientId
        /\ m_lastSeqByType' = [i \in ClientIds |->
                                 m_lastSeqByType[i] + IF i \in LoggedIn THEN 1 ELSE 0]
    BY <1>5, TickSends
  <2>2. PICK rank \in TickOrders : \A c \in Conns :
          IF Due(c) THEN Sends(c, UpdateFor(m_clientId[c], rank))
                    ELSE Pipeline(c)' = Pipeline(c)
    BY <1>5, TickSends
  <2>3. ASSUME NEW i \in LoggedIn
        PROVE  m_sessions[i] \in Conns /\ m_clientId[m_sessions[i]] = i
    BY DEF LoggedIn, BaseInv, IInv, TypeOK, RegisteredIsRead
  <2>4. ASSUME NEW c \in Conns, m_clientId'[c] # NoId, Unshared(c)'
        PROVE  /\ Numbered(c)'
               /\ Cardinality(Updates(c)') = m_lastSeqByType'[m_clientId'[c]]
    <3>1. m_clientId[c] \in ClientIds /\ m_clientId'[c] = m_clientId[c]
      BY <1>0, <2>1, <2>4
    <3>2. Numbered(c) /\ Cardinality(Updates(c)) = m_lastSeqByType[m_clientId[c]]
      BY <2>1, <2>4 DEF CountInv, Unshared
    <3>3. CASE m_clientId[c] \in LoggedIn
      <4>1. Due(c)
        BY <2>1, <2>3, <2>4, <3>3 DEF Due, Unshared
      <4>2. Sends(c, UpdateFor(m_clientId[c], rank))
        BY <2>2, <4>1
      <4>3. /\ UpdateFor(m_clientId[c], rank).type = "ResourceUpdate"
            /\ UpdateFor(m_clientId[c], rank).sequence = Cardinality(Updates(c)) + 1
        BY <3>2 DEF UpdateFor
      <4>4. Numbered(c)' /\ Cardinality(Updates(c))' = Cardinality(Updates(c)) + 1
        BY <1>0, <3>2, <4>2, <4>3, NumberedOn
      <4>5. m_lastSeqByType'[m_clientId[c]] = m_lastSeqByType[m_clientId[c]] + 1
        BY <2>1, <3>1, <3>3
      <4> QED
        BY <3>1, <3>2, <4>4, <4>5
    <3>4. CASE m_clientId[c] \notin LoggedIn
      <4>1. Pipeline(c)' = Pipeline(c)
        BY <2>2, <3>4 DEF Due
      <4>2. Numbered(c)' /\ Updates(c)' = Updates(c)
        BY <1>0, <3>2, <4>1, NumberedKept
      <4>3. m_lastSeqByType'[m_clientId[c]] = m_lastSeqByType[m_clientId[c]]
        BY <1>0, <2>1, <3>1, <3>4
      <4> QED
        BY <3>1, <3>2, <4>2, <4>3
    <3> QED
      BY <3>3, <3>4
  <2>5. ASSUME NEW i \in ClientIds, \A c \in Conns : m_clientId'[c] # i
        PROVE  m_lastSeqByType'[i] = 0
    <3>1. i \notin LoggedIn
      BY <2>1, <2>3, <2>5
    <3>2. m_lastSeqByType[i] = 0
      BY <2>1, <2>5 DEF CountInv
    <3> QED
      BY <2>1, <3>1, <3>2
  <2> QED
    BY <2>4, <2>5 DEF CountInv
<1>6. CASE Death
  <2>1. /\ \A c \in Conns : m_clientId'[c] = NoId
        /\ \A i \in ClientIds : m_lastSeqByType'[i] = 0
    BY <1>0, <1>6, DeathLoses
  <2> QED
    BY <2>1 DEF CountInv
<1> QED
  BY <1>0, <1>2, <1>3, <1>4, <1>5, <1>6, StepKinds

LEMMA CountInvHolds == Spec => []CountInv
<1>1. Init => CountInv
  BY DEF Init, FreshServer, CountInv
<1> QED
  BY <1>1, NextCount, BaseInvHolds, AccountsInvHolds, NewInvHolds, PTL DEF Spec

(* UpdatesContiguous, for any number of connections and of client ids: as   *)
(* long as its id was not handed out again, a connection is sent updates    *)
(* numbered 1, 2, 3, ..., over any number of logins and of ticks without    *)
(* one, although the counter belongs to the id and not to the session.      *)
THEOREM UpdatesContiguousHolds == Spec => []UpdatesContiguous
<1>1. CountInv => UpdatesContiguous
  BY DEF CountInv, Numbered, Earlier, UpdatesContiguous
<1> QED
  BY <1>1, CountInvHolds, PTL

-----------------------------------------------------------------------------
(* The amounts of the updates *)

(* Along a connection the stock of an account only grows; no two            *)
(* connections are ever sent the same stock of one account.                 *)
GrowInv ==
  /\ \A c \in Conns : \A k, l \in Updates(c) :
       k < l /\ Pipeline(c)[k].uuid = Pipeline(c)[l].uuid
         => Pipeline(c)[k].wood < Pipeline(c)[l].wood
  /\ \A c, d \in Conns : \A k \in Updates(c), l \in Updates(d) :
       c # d /\ Pipeline(c)[k].uuid = Pipeline(d)[l].uuid
         => Pipeline(c)[k].wood # Pipeline(d)[l].wood

(* A step that sends no update, or loses some. *)
LEMMA GrowKept ==
  ASSUME GrowInv,
         \A c \in Conns : \A k \in Updates(c)' :
           k \in Updates(c) /\ Pipeline(c)'[k] = Pipeline(c)[k]
  PROVE  GrowInv'
<1>1. ASSUME NEW c \in Conns, NEW k \in Updates(c)', NEW l \in Updates(c)',
             k < l, Pipeline(c)'[k].uuid = Pipeline(c)'[l].uuid
      PROVE  Pipeline(c)'[k].wood < Pipeline(c)'[l].wood
  <2>1. /\ k \in Updates(c) /\ Pipeline(c)'[k] = Pipeline(c)[k]
        /\ l \in Updates(c) /\ Pipeline(c)'[l] = Pipeline(c)[l]
    OBVIOUS
  <2> QED
    BY <1>1, <2>1 DEF GrowInv
<1>2. ASSUME NEW c \in Conns, NEW d \in Conns, NEW k \in Updates(c)', NEW l \in Updates(d)',
             c # d, Pipeline(c)'[k].uuid = Pipeline(d)'[l].uuid
      PROVE  Pipeline(c)'[k].wood # Pipeline(d)'[l].wood
  <2>1. /\ k \in Updates(c) /\ Pipeline(c)'[k] = Pipeline(c)[k]
        /\ l \in Updates(d) /\ Pipeline(d)'[l] = Pipeline(d)[l]
    OBVIOUS
  <2> QED
    BY <1>2, <2>1 DEF GrowInv
<1> QED
  BY <1>1, <1>2 DEF GrowInv

LEMMA UpdatesTyped ==
  ASSUME IInv, NEW c \in Conns, NEW k \in Updates(c)
  PROVE  /\ k \in Nat /\ k \in 1 .. Len(Pipeline(c))
         /\ Pipeline(c)[k].type = "ResourceUpdate"
         /\ Pipeline(c)[k].uuid \in Uuids
         /\ Pipeline(c)[k].wood \in Nat
<1>1. Pipeline(c)[k] \in Message /\ Pipeline(c)[k].type = "ResourceUpdate"
  BY PipelineTyped DEF Updates
<1>2. Pipeline(c)[k].uuid \in Uuids /\ Pipeline(c)[k].wood \in Nat
  BY <1>1 DEF Message
<1> QED
  BY <1>1, <1>2 DEF Updates

(* The account of a session that is due, and the amount of its update. *)
LEMMA DueStock ==
  ASSUME BaseInv, AccountsInv, NEW c \in Conns, Due(c), NEW rank \in TickOrders
  PROVE  LET i == m_clientId[c]
         IN  \E u \in Users, n \in Nat :
               /\ m_accounts[u] # NoAccount /\ m_accounts[u].uuid = m_uuid[c]
               /\ m_accounts[u].wood \in Nat
               /\ n >= 1
               /\ n = Cardinality(Share(Upto(i, rank), UuidOf(i)))
               /\ UpdateFor(i, rank).type = "ResourceUpdate"
               /\ UpdateFor(i, rank).uuid = m_uuid[c]
               /\ UpdateFor(i, rank).wood = m_accounts[u].wood + Gain * n
<1>0. PICK i : i = m_clientId[c]
  OBVIOUS
<1>1. IInv /\ m_accounts \in Accounts /\ Distinct(m_accounts)
  BY DEF BaseInv, IInv, TypeOK, AccountsInv
<1>2. /\ i \in LoggedIn /\ UuidOf(i) = m_uuid[c]
      /\ \E u \in Users : m_accounts[u] # NoAccount /\ m_accounts[u].uuid = m_uuid[c]
  BY <1>0, <1>1, DueAccount
<1>3. PICK u \in Users : m_accounts[u] # NoAccount /\ m_accounts[u].uuid = UuidOf(i)
  BY <1>2
<1>4. PICK n : n = Cardinality(Share(Upto(i, rank), UuidOf(i)))
  OBVIOUS
<1>5. n \in Nat /\ n >= 1
  BY <1>2, <1>4, ShareCounts
<1>6. /\ UpdateFor(i, rank).type = "ResourceUpdate"
      /\ UpdateFor(i, rank).uuid = UuidOf(i)
      /\ UpdateFor(i, rank).wood = m_accounts[u].wood + Gain * n
  BY <1>1, <1>2, <1>3, <1>4, UpdateStock
<1>7. m_accounts[u].wood \in Nat
  BY <1>1, <1>3 DEF Accounts, Account
<1> QED
  BY <1>0, <1>2, <1>3, <1>4, <1>5, <1>6, <1>7

(* An update is of more than any that was sent of its account before. *)
LEMMA TickIsMore ==
  ASSUME BaseInv, AccountsInv, SentInv, up, NEW c \in Conns, Due(c), NEW rank \in TickOrders,
         NEW d \in Conns, NEW k \in Updates(d), Pipeline(d)[k].uuid = m_uuid[c]
  PROVE  Pipeline(d)[k].wood < UpdateFor(m_clientId[c], rank).wood
<1>1. PICK u \in Users, n \in Nat :
        /\ m_accounts[u] # NoAccount /\ m_accounts[u].uuid = m_uuid[c]
        /\ m_accounts[u].wood \in Nat
        /\ n >= 1
        /\ UpdateFor(m_clientId[c], rank).wood = m_accounts[u].wood + Gain * n
  BY DueStock
<1>2. /\ k \in 1 .. Len(Pipeline(d)) /\ Pipeline(d)[k].type = "ResourceUpdate"
      /\ Pipeline(d)[k].wood \in Nat
  BY UpdatesTyped DEF BaseInv
<1>3. Covered(file, Pipeline(d)[k])
  BY <1>2 DEF SentInv
<1>4. PICK v \in Users : /\ file[v] # NoAccount /\ file[v].uuid = m_uuid[c]
                         /\ file[v].wood >= Pipeline(d)[k].wood
  BY <1>2, <1>3 DEF Covered, Holds
<1>5. m_accounts[v] = file[v]
  BY <1>4 DEF AccountsInv
<1>6. u = v
  BY <1>1, <1>4, <1>5 DEF AccountsInv, Distinct
<1> QED
  BY <1>1, <1>2, <1>4, <1>5, <1>6 DEF Gain

(* Two sessions that play one account are sent different amounts. *)
LEMMA TickApart ==
  ASSUME BaseInv, AccountsInv, NEW c \in Conns, NEW d \in Conns, Due(c), Due(d),
         NEW rank \in TickOrders, m_uuid[c] = m_uuid[d],
         rank[m_clientId[c]] < rank[m_clientId[d]]
  PROVE  UpdateFor(m_clientId[c], rank).wood # UpdateFor(m_clientId[d], rank).wood
<1>1. PICK u \in Users, n \in Nat :
        /\ m_accounts[u] # NoAccount /\ m_accounts[u].uuid = m_uuid[c]
        /\ m_accounts[u].wood \in Nat
        /\ n = Cardinality(Share(Upto(m_clientId[c], rank), UuidOf(m_clientId[c])))
        /\ UpdateFor(m_clientId[c], rank).wood = m_accounts[u].wood + Gain * n
  BY DueStock
<1>2. PICK v \in Users, m \in Nat :
        /\ m_accounts[v] # NoAccount /\ m_accounts[v].uuid = m_uuid[d]
        /\ m = Cardinality(Share(Upto(m_clientId[d], rank), UuidOf(m_clientId[d])))
        /\ UpdateFor(m_clientId[d], rank).wood = m_accounts[v].wood + Gain * m
  BY DueStock
<1>3. u = v
  BY <1>1, <1>2 DEF AccountsInv, Distinct
<1>4. /\ m_clientId[c] \in LoggedIn /\ UuidOf(m_clientId[c]) = m_uuid[c]
      /\ m_clientId[d] \in LoggedIn /\ UuidOf(m_clientId[d]) = m_uuid[c]
  BY DueAccount DEF BaseInv
<1>5. n < m
  BY <1>1, <1>2, <1>4, SharesDiffer
<1> QED
  BY <1>1, <1>2, <1>3, <1>5 DEF Gain

LEMMA TickGrow ==
  ASSUME BaseInv, AccountsInv, SentInv, GrowInv, onResourceTick
  PROVE  GrowInv'
<1>0. IInv /\ up
  BY TickSends DEF BaseInv
<1>1. PICK rank \in TickOrders : \A c \in Conns :
        IF Due(c) THEN Sends(c, UpdateFor(m_clientId[c], rank))
                  ELSE Pipeline(c)' = Pipeline(c)
  BY TickSends
<1> DEFINE Old(c, k) == k \in Updates(c) /\ Pipeline(c)'[k] = Pipeline(c)[k]
           New(c, k) == /\ Due(c)
                        /\ k = Len(Pipeline(c)) + 1
                        /\ Pipeline(c)'[k] = UpdateFor(m_clientId[c], rank)
                        /\ Pipeline(c)'[k].uuid = m_uuid[c]
<1>2. ASSUME NEW c \in Conns, NEW k \in Updates(c)' PROVE Old(c, k) \/ New(c, k)
  <2>1. CASE Due(c)
    <3>1. /\ UpdateFor(m_clientId[c], rank).type = "ResourceUpdate"
          /\ UpdateFor(m_clientId[c], rank).uuid = m_uuid[c]
      BY <1>0, <2>1, DueStock
    <3>2. Sends(c, UpdateFor(m_clientId[c], rank))
      BY <1>1, <2>1
    <3>3. /\ Updates(c)' = Updates(c) \cup {Len(Pipeline(c)) + 1}
          /\ \A l \in Updates(c) : Pipeline(c)'[l] = Pipeline(c)[l]
          /\ Pipeline(c)'[Len(Pipeline(c)) + 1] = UpdateFor(m_clientId[c], rank)
      BY <1>0, <3>1, <3>2, SendsUpdates, SendsOne
    <3> QED
      BY <2>1, <3>1, <3>3
  <2>2. CASE ~Due(c)
    BY <1>1, <2>2 DEF Updates
  <2> QED
    BY <2>1, <2>2
<1>3. ASSUME NEW c \in Conns, NEW d \in Conns, NEW k, NEW l, Old(d, k), New(c, l),
             Pipeline(d)'[k].uuid = Pipeline(c)'[l].uuid
      PROVE  Pipeline(d)'[k].wood < Pipeline(c)'[l].wood
  <2>1. /\ k \in Updates(d) /\ Pipeline(d)[k].uuid = m_uuid[c] /\ Due(c)
        /\ Pipeline(d)'[k] = Pipeline(d)[k]
        /\ Pipeline(c)'[l] = UpdateFor(m_clientId[c], rank)
    BY <1>3
  <2> QED
    BY <1>0, <2>1, TickIsMore
<1>4. ASSUME NEW c \in Conns, NEW d \in Conns, NEW k, NEW l, New(c, k), New(d, l), c # d,
             Pipeline(c)'[k].uuid = Pipeline(d)'[l].uuid
      PROVE  Pipeline(c)'[k].wood # Pipeline(d)'[l].wood
  <2>1. /\ Due(c) /\ Due(d) /\ m_uuid[c] = m_uuid[d]
        /\ Pipeline(c)'[k] = UpdateFor(m_clientId[c], rank)
        /\ Pipeline(d)'[l] = UpdateFor(m_clientId[d], rank)
    BY <1>4
  <2>2. /\ m_clientId[c] \in LoggedIn /\ m_clientId[d] \in LoggedIn
        /\ m_clientId[c] # m_clientId[d]
    BY <1>4, <2>1 DEF Due
  <2>3. /\ rank[m_clientId[c]] \in Int /\ rank[m_clientId[d]] \in Int
        /\ rank[m_clientId[c]] # rank[m_clientId[d]]
    BY <2>2 DEF TickOrders
  <2>4. rank[m_clientId[c]] < rank[m_clientId[d]] \/ rank[m_clientId[d]] < rank[m_clientId[c]]
    BY <2>3
  <2> QED
    BY <2>1, <2>4, TickApart
<1>5. \A c \in Conns : \A k : /\ Old(c, k) => k \in Nat /\ k <= Len(Pipeline(c))
                                              /\ Pipeline(c)[k].wood \in Nat
                              /\ Len(Pipeline(c)) \in Nat
  BY <1>0, UpdatesTyped, UpdatesFinite, PipelineTyped
<1>6. ASSUME NEW c \in Conns, NEW d \in Conns, NEW k \in Updates(c)', NEW l \in Updates(d)',
             c # d, Pipeline(c)'[k].uuid = Pipeline(d)'[l].uuid
      PROVE  Pipeline(c)'[k].wood # Pipeline(d)'[l].wood
  <2>1. (Old(c, k) \/ New(c, k)) /\ (Old(d, l) \/ New(d, l))
    BY <1>2
  <2>2. CASE Old(c, k) /\ Old(d, l)
    BY <1>6, <2>2 DEF GrowInv
  <2>3. CASE Old(c, k) /\ New(d, l)
    <3>1. Pipeline(c)'[k].wood < Pipeline(d)'[l].wood /\ Pipeline(c)'[k].wood \in Nat
      BY <1>3, <1>5, <1>6, <2>3
    <3> QED
      BY <3>1
  <2>4. CASE New(c, k) /\ Old(d, l)
    <3>1. Pipeline(d)'[l].wood < Pipeline(c)'[k].wood /\ Pipeline(d)'[l].wood \in Nat
      BY <1>3, <1>5, <1>6, <2>4
    <3> QED
      BY <3>1
  <2>5. CASE New(c, k) /\ New(d, l)
    BY <1>4, <1>6, <2>5
  <2> QED
    BY <2>1, <2>2, <2>3, <2>4, <2>5
<1>7. ASSUME NEW c \in Conns, NEW k \in Updates(c)', NEW l \in Updates(c)',
             k < l, Pipeline(c)'[k].uuid = Pipeline(c)'[l].uuid
      PROVE  Pipeline(c)'[k].wood < Pipeline(c)'[l].wood
  <2>1. (Old(c, k) \/ New(c, k)) /\ (Old(c, l) \/ New(c, l))
    BY <1>2
  <2>2. CASE Old(c, k) /\ Old(c, l)
    BY <1>7, <2>2 DEF GrowInv
  <2>3. CASE Old(c, k) /\ New(c, l)
    BY <1>3, <1>7, <2>3
  <2>4. CASE New(c, k)
    BY <1>5, <1>7, <2>1, <2>4
  <2> QED
    BY <2>1, <2>2, <2>3, <2>4
<1> HIDE DEF Old, New
<1> QED
  BY <1>6, <1>7 DEF GrowInv

LEMMA NextGrow ==
  ASSUME BaseInv, AccountsInv, SentInv, GrowInv, [Next]_vars
  PROVE  GrowInv'
<1>0. IInv
  BY DEF BaseInv
<1>1. ASSUME \A c \in Conns : \/ Pipeline(c)' = Pipeline(c)
                              \/ \E message : /\ Sends(c, message)
                                              /\ message.type # "ResourceUpdate"
                              \/ Pipeline(c)' = wire[c]
      PROVE  GrowInv'
  <2>1. ASSUME NEW c \in Conns, NEW k \in Updates(c)'
        PROVE  k \in Updates(c) /\ Pipeline(c)'[k] = Pipeline(c)[k]
    <3>1. CASE Pipeline(c)' = Pipeline(c)
      BY <3>1 DEF Updates
    <3>2. ASSUME NEW message, Sends(c, message), message.type # "ResourceUpdate"
          PROVE  k \in Updates(c) /\ Pipeline(c)'[k] = Pipeline(c)[k]
      BY <1>0, <3>2, SendsUpdates
    <3>3. CASE Pipeline(c)' = wire[c]
      <4>1. k \in 1 .. Len(wire[c]) /\ wire[c][k].type = "ResourceUpdate"
        BY <3>3 DEF Updates
      <4>2. k \in 1 .. Len(Pipeline(c)) /\ Pipeline(c)[k] = wire[c][k]
        BY <1>0, <4>1, WireIsPrefix, PipelineTyped
      <4> QED
        BY <3>3, <4>1, <4>2 DEF Updates
    <3> QED
      BY <1>1, <3>1, <3>2, <3>3
  <2> QED
    BY <2>1, GrowKept
<1>2. CASE Quiet \/ Restart
  BY <1>1, <1>2, SamePipelines DEF Quiet, Restart, sessionVars
<1>3. ASSUME NEW c \in Conns, onAccept(c) PROVE GrowInv'
  <2>1. Assignment(m_nextClientId).type # "ResourceUpdate"
    BY DEF Assignment
  <2>2. \A d \in Conns : \/ Pipeline(d)' = Pipeline(d)
                         \/ Sends(d, Assignment(m_nextClientId))
    BY <1>0, <1>3, AcceptSends
  <2> QED
    BY <1>1, <2>1, <2>2
<1>4. ASSUME NEW c \in Conns, NEW cred \in Credentials, LoginSucceeds(c, cred)
      PROVE  GrowInv'
  <2>1. PICK granted \in Uuids : \A d \in Conns : IF d = Target(c) THEN Sends(d, Result(granted))
                                               ELSE Pipeline(d)' = Pipeline(d)
    BY <1>0, <1>4, LoginSends
  <2>2. Result(granted).type # "ResourceUpdate"
    BY DEF Result
  <2> QED
    BY <1>1, <2>1, <2>2
<1>5. ASSUME NEW c \in Conns, NEW cred \in Credentials, LoginSaveThrows(c, cred)
      PROVE  GrowInv'
  BY <1>0, <1>1, <1>5, SaveThrowsSends
<1>6. CASE Death
  BY <1>0, <1>1, <1>6, DeathLoses
<1> QED
  BY <1>0, <1>2, <1>3, <1>4, <1>5, <1>6, TickGrow, StepKinds

LEMMA GrowInvHolds == Spec => []GrowInv
<1>1. Init => GrowInv
  <2>1. ASSUME Init, NEW c \in Conns PROVE Updates(c) = {}
    BY <2>1, EmptyAtInit DEF Updates
  <2> QED
    BY <2>1 DEF GrowInv
<1> QED
  BY <1>1, NextGrow, BaseInvHolds, AccountsInvHolds, SentInvHolds, PTL DEF Spec

(* NoLostUpdate, for any number of sessions, accounts and ticks: a credit   *)
(* of the tick is never lost to another one, to a failed save() or to a     *)
(* crash, so no two updates about one account carry the same amount.        *)
THEOREM NoLostUpdateHolds == Spec => []NoLostUpdate
<1>1. ASSUME IInv, GrowInv PROVE NoLostUpdate
  <2> SUFFICES ASSUME NEW c \in Conns, NEW d \in Conns,
                      NEW k \in Updates(c), NEW l \in Updates(d), c # d \/ k # l,
                      Pipeline(c)[k].uuid = Pipeline(d)[l].uuid
               PROVE  Pipeline(c)[k].wood # Pipeline(d)[l].wood
    BY DEF NoLostUpdate
  <2>1. CASE c # d
    BY <1>1, <2>1 DEF GrowInv
  <2>2. CASE c = d
    <3>1. k \in Nat /\ l \in Nat /\ Pipeline(c)[k].wood \in Nat /\ Pipeline(c)[l].wood \in Nat
      BY <1>1, <2>2, UpdatesTyped
    <3>2. k < l \/ l < k
      BY <2>2, <3>1
    <3>3. Pipeline(c)[k].wood < Pipeline(c)[l].wood \/ Pipeline(c)[l].wood < Pipeline(c)[k].wood
      BY <1>1, <2>2, <3>2 DEF GrowInv
    <3> QED
      BY <2>2, <3>1, <3>3
  <2> QED
    BY <2>1, <2>2
<1> QED
  BY <1>1, InvHolds, GrowInvHolds, PTL

-----------------------------------------------------------------------------
(* The server implements Ledger: the stock on disk *)

StockIn(accounts, id) == IF Known(accounts, id) THEN WoodOf(accounts, id) ELSE NoAccount

AmountIn(account) == IF account = NoAccount THEN 0 ELSE account.wood

LEMMA StockIsIn ==
  ASSUME NEW id
  PROVE  Stock(id) = StockIn(file, id) /\ Stock(id)' = StockIn(file', id)
BY DEF Stock, StockIn, Known

(* A step that writes the file adds whole gains, at most one per client id, *)
(* to each account that it leaves there; an account that was not saved yet  *)
(* had nothing.                                                             *)
Gains ==
  \A u \in Users : file'[u] # NoAccount =>
    \E n \in 0 .. IdSpace : file'[u].wood = AmountIn(file[u]) + Gain * n

LEMMA AmountInMemory ==
  ASSUME AccountsInv, up, NEW u \in Users, m_accounts[u] # NoAccount
  PROVE  m_accounts[u].wood = AmountIn(file[u])
BY DEF AccountsInv, AmountIn

LEMMA AddedGains ==
  ASSUME IInv, AccountsInv, up, NEW cred \in Credentials, NEW id \in Uuids,
         Added(cred, id, file')
  PROVE  Gains
<1>0. m_accounts \in Accounts /\ file \in Accounts /\ 0 \in 0 .. IdSpace
  BY ConstantsAssumption DEF IInv, TypeOK
<1>1. /\ m_accounts[cred.id] = NoAccount
      /\ file'[cred.id] = [password |-> cred.password, uuid |-> id, wood |-> 0]
  BY <1>0, AddedGrows
<1>2. \A u \in Users : u # cred.id => file'[u] = m_accounts[u]
  BY <1>0 DEF Added, Accounts
<1>3. cred.id \in Users
  BY DEF Credentials
<1>4. file[cred.id] = NoAccount
  BY <1>1, <1>3 DEF AccountsInv
<1> SUFFICES ASSUME NEW u \in Users, file'[u] # NoAccount
             PROVE  file'[u].wood = AmountIn(file[u]) + Gain * 0
  BY <1>0 DEF Gains
<1>5. CASE u = cred.id
  BY <1>1, <1>4, <1>5 DEF AmountIn, Gain
<1>6. CASE u # cred.id
  <2>1. file'[u] = m_accounts[u] /\ m_accounts[u].wood = AmountIn(file[u])
    BY <1>2, <1>6, AmountInMemory
  <2>2. m_accounts[u].wood \in Nat
    BY <1>0, <2>1 DEF Accounts, Account
  <2> QED
    BY <2>1, <2>2 DEF Gain
<1> QED
  BY <1>5, <1>6

LEMMA CreditedGains ==
  ASSUME IInv, AccountsInv, up, NEW done, done \subseteq ClientIds, file' = Credited(done)
  PROVE  Gains
<1>0. m_accounts \in Accounts
  BY DEF IInv, TypeOK
<1> SUFFICES ASSUME NEW u \in Users, file'[u] # NoAccount
             PROVE  \E n \in 0 .. IdSpace : file'[u].wood = AmountIn(file[u]) + Gain * n
  BY DEF Gains
<1>1. m_accounts[u] # NoAccount
  BY <1>0, CreditedGrows
<1>2. PICK n : n = Cardinality(Share(done, m_accounts[u].uuid))
  OBVIOUS
<1>3. n \in Nat /\ n <= IdSpace
  <2>1. IsFiniteSet(ClientIds) /\ Cardinality(ClientIds) = IdSpace
    BY ConstantsAssumption, FS_Interval DEF ClientIds
  <2>2. Share(done, m_accounts[u].uuid) \in SUBSET ClientIds
    BY DEF Share
  <2> QED
    BY <1>2, <2>1, <2>2, FS_Subset, FS_CardinalityType
<1>4. file'[u].wood = m_accounts[u].wood + Gain * n
  BY <1>0, <1>1, <1>2, CreditedStock
<1>5. n \in 0 .. IdSpace
  BY <1>3, ConstantsAssumption
<1> QED
  BY <1>1, <1>4, <1>5, AmountInMemory

LEMMA FileGains ==
  ASSUME BaseInv, AccountsInv, [Next]_vars
  PROVE  file' = file \/ Gains
<1>0. IInv /\ LoggedIn \subseteq ClientIds
  BY DEF BaseInv, LoggedIn
<1>1. CASE Death
  <2>1. up
    BY <1>0, <1>1, DeathLoses
  <2>2. ASSUME NEW done \in SUBSET LoggedIn, file' = Credited(done) PROVE Gains
    BY <1>0, <2>1, <2>2, CreditedGains
  <2> QED
    BY <1>0, <1>1, <2>1, <2>2, AddedGains, DeathLoses
<1>2. ASSUME NEW c \in Conns, NEW cred \in Credentials, LoginSucceeds(c, cred)
      PROVE  file' = file \/ Gains
  <2>1. up
    BY <1>0, <1>2, LoginSends
  <2>2. ASSUME (\E id \in Uuids : Added(cred, id, m_accounts')) /\ Saved PROVE Gains
    <3>1. PICK id \in Uuids : Added(cred, id, file')
      BY <2>2 DEF Saved
    <3> QED
      BY <1>0, <2>1, <3>1, AddedGains
  <2> QED
    BY <1>2, <2>2 DEF LoginSucceeds, dbVars
<1>3. ASSUME NEW c \in Conns, NEW cred \in Credentials, LoginSaveThrows(c, cred)
      PROVE  file' = file
  BY <1>3 DEF LoginSaveThrows
<1>4. CASE onResourceTick
  <2>1. up /\ file' = Credited(LoggedIn)
    BY <1>4, TickSends
  <2> QED
    BY <1>0, <2>1, CreditedGains
<1> QED
  BY <1>0, <1>1, <1>2, <1>3, <1>4, StepKinds DEF Quiet, onAccept, dbVars, Restart

LEMMA StockOfAccount ==
  ASSUME NEW accounts \in Accounts, Distinct(accounts), NEW id
  PROVE  \/ ~Known(accounts, id) /\ StockIn(accounts, id) = NoAccount
         \/ \E u \in Users :
              /\ accounts[u] # NoAccount /\ accounts[u].uuid = id
              /\ StockIn(accounts, id) = accounts[u].wood
              /\ StockIn(accounts, id) \in Nat /\ StockIn(accounts, id) # NoAccount
<1>1. CASE Known(accounts, id)
  <2>1. PICK u \in Users : accounts[u] # NoAccount /\ accounts[u].uuid = id
    BY <1>1 DEF Known
  <2>2. StockIn(accounts, id) = accounts[u].wood
    BY <1>1, <2>1, WoodIsStock DEF StockIn
  <2>3. accounts[u].wood \in Nat
    BY <2>1 DEF Accounts, Account
  <2> QED
    BY <2>1, <2>2, <2>3, ConstantsAssumption
<1>2. CASE ~Known(accounts, id)
  BY <1>2 DEF StockIn
<1> QED
  BY <1>1, <1>2

(* What becomes of the stock of one account when the file is written. *)
LEMMA StockGains ==
  ASSUME file \in Accounts, file' \in Accounts, Distinct(file), Distinct(file'),
         Grows(file, file'), Gains, NEW id
  PROVE  \/ Stock(id) = NoAccount /\ Stock(id)' = NoAccount
         \/ \E n \in 0 .. IdSpace :
              /\ Stock(id)' # NoAccount
              /\ Stock(id)' = (IF Stock(id) = NoAccount THEN 0 ELSE Stock(id)) + Gain * n
<1>0. Stock(id) = StockIn(file, id) /\ Stock(id)' = StockIn(file', id)
  BY StockIsIn
<1>1. ASSUME ~Known(file', id) PROVE ~Known(file, id)
  BY <1>1 DEF Known, Grows
<1>2. CASE ~Known(file', id)
  <2>1. StockIn(file, id) = NoAccount /\ StockIn(file', id) = NoAccount
    BY <1>1, <1>2 DEF StockIn
  <2> QED
    BY <1>0, <2>1
<1>3. CASE Known(file', id)
  <2>1. PICK u \in Users : /\ file'[u] # NoAccount /\ file'[u].uuid = id
                           /\ StockIn(file', id) = file'[u].wood
                           /\ StockIn(file', id) # NoAccount
    BY <1>3, StockOfAccount
  <2>2. PICK n \in 0 .. IdSpace : file'[u].wood = AmountIn(file[u]) + Gain * n
    BY <2>1 DEF Gains
  <2>3. AmountIn(file[u]) = IF StockIn(file, id) = NoAccount THEN 0 ELSE StockIn(file, id)
    <3>1. CASE Known(file, id)
      <4>1. PICK v \in Users : /\ file[v] # NoAccount /\ file[v].uuid = id
                               /\ StockIn(file, id) = file[v].wood
                               /\ StockIn(file, id) # NoAccount
        BY <3>1, StockOfAccount
      <4>2. file'[v] # NoAccount /\ file'[v].uuid = id
        BY <4>1 DEF Grows
      <4>3. u = v
        BY <2>1, <4>2 DEF Distinct
      <4> QED
        BY <4>1, <4>3 DEF AmountIn
    <3>2. CASE ~Known(file, id)
      <4>1. file[u] = NoAccount
        <5>1. ASSUME file[u] # NoAccount PROVE FALSE
          <6>1. file[u].uuid = id
            BY <2>1, <5>1 DEF Grows
          <6> QED
            BY <3>2, <5>1, <6>1 DEF Known
        <5> QED
          BY <5>1
      <4>2. StockIn(file, id) = NoAccount
        BY <3>2 DEF StockIn
      <4> QED
        BY <4>1, <4>2 DEF AmountIn
    <3> QED
      BY <3>1, <3>2
  <2> QED
    BY <1>0, <2>1, <2>2, <2>3
<1> QED
  BY <1>2, <1>3

LEMMA CreditStep ==
  ASSUME file \in Accounts, file' \in Accounts, Distinct(file), Distinct(file'),
         Grows(file, file'), Gains, UNCHANGED wire
  PROVE  ServerLedger!Credit
<1> DEFINE amount(id) == IF Stock(id) = NoAccount THEN 0 ELSE Stock(id)
           right(id, n) == Stock(id)' # NoAccount => Stock(id)' = amount(id) + Gain * n
           gains == [id \in Uuids |-> CHOOSE n \in 0 .. IdSpace : right(id, n)]
           opened == {id \in Uuids : Stock(id)' # NoAccount}
<1>1. \A id \in Uuids : \E n \in 0 .. IdSpace : right(id, n)
  <2>1. 0 \in 0 .. IdSpace
    BY ConstantsAssumption
  <2> QED
    BY <2>1, StockGains
<1>2. \A id \in Uuids : gains[id] \in 0 .. IdSpace /\ right(id, gains[id])
  BY <1>1
<1>3. gains \in [Uuids -> 0 .. IdSpace]
  BY <1>2
<1>4. opened \in SUBSET Uuids
  OBVIOUS
<1>5. \A id \in Uuids : Stock(id)' = IF Stock(id) = NoAccount /\ id \notin opened THEN NoAccount
                                     ELSE amount(id) + Gain * gains[id]
  <2> SUFFICES ASSUME NEW id \in Uuids
               PROVE  Stock(id)' = IF Stock(id) = NoAccount /\ id \notin opened THEN NoAccount
                                   ELSE amount(id) + Gain * gains[id]
    OBVIOUS
  <2>1. CASE Stock(id)' # NoAccount
    BY <1>2, <2>1
  <2>2. CASE Stock(id)' = NoAccount
    BY <2>2, StockGains
  <2> QED
    BY <2>1, <2>2
<1>6. [id \in Uuids |-> Shown(id)]' = [id \in Uuids |-> Shown(id)]
  BY DEF Shown
<1> HIDE DEF gains, opened
<1>7. [id \in Uuids |-> Stock(id)]'
        = [id \in Uuids |-> IF Stock(id) = NoAccount /\ id \notin opened THEN NoAccount
                            ELSE amount(id) + Gain * gains[id]]
  BY <1>5
<1> DEFINE stock == [id \in Uuids |-> Stock(id)]
<1>8. /\ \E n \in [Uuids -> 0 .. IdSpace], o \in SUBSET Uuids :
           stock' = [id \in Uuids |-> IF stock[id] = NoAccount /\ id \notin o THEN NoAccount
                                     ELSE (IF stock[id] = NoAccount THEN 0 ELSE stock[id])
                                          + Gain * n[id]]
      /\ UNCHANGED [id \in Uuids |-> Shown(id)]
  <2>1. stock' = [id \in Uuids |-> IF stock[id] = NoAccount /\ id \notin opened THEN NoAccount
                                  ELSE (IF stock[id] = NoAccount THEN 0 ELSE stock[id])
                                       + Gain * gains[id]]
    BY <1>7
  <2> HIDE DEF stock
  <2> QED
    BY <1>3, <1>4, <1>6, <2>1
<1> QED
  BY <1>8, Zenon DEF ServerLedger!Credit, ServerLedger!Amount

-----------------------------------------------------------------------------
(* The server implements Ledger: what a client was sent *)

(* The amounts of an account that went out, and the most of them. *)
SentOn(sent, id) ==
  UNION {{sent[c][k].wood : k \in {k \in DOMAIN sent[c] :
                                   /\ sent[c][k].type = "ResourceUpdate"
                                   /\ sent[c][k].uuid = id}} : c \in Conns}

HasMost(S) == \E n \in S \cup {0} : \A m \in S : m <= n

MostOf(S) == CHOOSE n \in S \cup {0} : \A m \in S : m <= n

(* There is a largest amount: each one was the largest, or was not, when it *)
(* went out.                                                                *)
ShownInv == \A id \in Uuids : HasMost(SentOn(wire, id))

LEMMA ShownIsMost ==
  ASSUME NEW id
  PROVE  Shown(id) = MostOf(SentOn(wire, id)) /\ Shown(id)' = MostOf(SentOn(wire', id))
BY DEF Shown, MostOf, SentOn

LEMMA MostOfMore ==
  ASSUME NEW S \in SUBSET Nat, HasMost(S), NEW n \in Nat
  PROVE  /\ MostOf(S) \in Nat
         /\ HasMost(S \cup {n})
         /\ MostOf(S \cup {n}) = IF n > MostOf(S) THEN n ELSE MostOf(S)
<1>1. MostOf(S) \in S \cup {0} /\ \A m \in S : m <= MostOf(S)
  BY DEF HasMost, MostOf
<1>2. PICK old : old = MostOf(S)
  OBVIOUS
<1>3. PICK most : most = IF n > old THEN n ELSE old
  OBVIOUS
<1>4. PICK T : T = S \cup {n}
  OBVIOUS
<1>5. old \in Nat /\ most \in Nat /\ T \in SUBSET Nat
  <2>1. old \in Nat
    <3>1. old \in S \cup {0}
      BY <1>1, <1>2
    <3>2. \A m \in S \cup {0} : m \in Nat
      OBVIOUS
    <3> QED
      BY <3>1, <3>2
  <2>2. most \in Nat
    BY <1>3, <2>1
  <2>3. T \in SUBSET Nat
    BY <1>4
  <2> QED
    BY <2>1, <2>2, <2>3
<1>6. most \in T \cup {0} /\ \A m \in T : m <= most
  <2>1. most \in T \cup {0}
    BY <1>1, <1>2, <1>3, <1>4
  <2>2. \A m \in S : m <= old
    BY <1>1, <1>2
  <2>3. \A m \in S : m <= most
    BY <1>3, <1>5, <2>2
  <2>4. n <= most
    BY <1>3, <1>5
  <2> QED
    BY <1>4, <2>1, <2>3, <2>4
<1>7. ASSUME NEW x \in T \cup {0}, \A m \in T : m <= x PROVE x = most
  BY <1>5, <1>6, <1>7
<1>8. (CHOOSE x \in T \cup {0} : \A m \in T : m <= x) = most
  BY <1>6, <1>7
<1>9. HasMost(T) /\ MostOf(T) = most
  BY <1>6, <1>8 DEF HasMost, MostOf
<1> QED
  BY <1>2, <1>3, <1>4, <1>5, <1>9

(* The head of the second of three sequences that are joined. *)
LEMMA HeadOfSecond ==
  ASSUME NEW S, NEW x \in Seq(S), NEW y \in Seq(S), NEW z \in Seq(S), y # <<>>
  PROVE  /\ Head(y) \in S
         /\ Len(x) + 1 \in 1 .. Len(x \o y \o z)
         /\ (x \o y \o z)[Len(x) + 1] = Head(y)
<1>1. /\ Len(x) \in Nat /\ Len(y) \in Nat /\ Len(z) \in Nat
      /\ Len(y) >= 1 /\ Head(y) = y[1] /\ Head(y) \in S
  OBVIOUS
<1>2. PICK xy : xy = x \o y /\ xy \in Seq(S)
  <2>1. x \o y \in Seq(S)
    OBVIOUS
  <2> QED
    BY <2>1, Zenon
<1>3. Len(xy) = Len(x) + Len(y) /\ xy[Len(x) + 1] = y[1]
  BY <1>1, <1>2
<1>4. Len(xy \o z) = Len(xy) + Len(z) /\ \A k \in 1 .. Len(xy) : (xy \o z)[k] = xy[k]
  BY <1>2
<1> QED
  BY <1>1, <1>2, <1>3, <1>4

(* What a completed write adds to the wire was in the pipeline. *)
LEMMA WriteSends ==
  ASSUME IInv, NEW c \in Conns, WriteCompletes(c)
  PROVE  \E message \in Message :
           /\ wire'[c] = Append(wire[c], message)
           /\ \A d \in Conns : d # c => wire'[d] = wire[d]
           /\ \E k \in 1 .. Len(Pipeline(c)) : Pipeline(c)[k] = message
<1>1. /\ wire[c] \in Seq(Message) /\ m_outgoing[c] \in Seq(Message)
      /\ posted[c] \in Seq(Message)
  BY PipelineTyped
<1>2. /\ wire' = [wire EXCEPT ![c] = Append(wire[c], Head(m_outgoing[c]))]
      /\ writer[c] = "busy"
  BY DEF WriteCompletes, WriteDone
<1>3. m_outgoing[c] # <<>>
  BY <1>2, TypeParts DEF IInv, LoopInv
<1>4. PICK x, y, z : x = wire[c] /\ y = m_outgoing[c] /\ z = posted[c]
  OBVIOUS
<1>5. x \in Seq(Message) /\ y \in Seq(Message) /\ z \in Seq(Message) /\ y # <<>>
  BY <1>1, <1>3, <1>4
<1>6. /\ Head(y) \in Message
      /\ Len(x) + 1 \in 1 .. Len(x \o y \o z)
      /\ (x \o y \o z)[Len(x) + 1] = Head(y)
  BY <1>5, HeadOfSecond
<1>7. Pipeline(c) = x \o y \o z
  BY <1>4 DEF Pipeline
<1>8. \E k \in 1 .. Len(Pipeline(c)) : Pipeline(c)[k] = Head(y)
  BY <1>6, <1>7, Zenon
<1>9. wire \in [Conns -> Seq(Message)]
  BY DEF IInv, TypeOK, SessionTypeOK
<1>10. wire'[c] = Append(wire[c], Head(y)) /\ \A d \in Conns : d # c => wire'[d] = wire[d]
  BY <1>2, <1>4, <1>9
<1> QED
  BY <1>6, <1>8, <1>10

LEMMA SentOnTyped ==
  ASSUME IInv, NEW id
  PROVE  SentOn(wire, id) \in SUBSET Nat
<1> SUFFICES ASSUME NEW c \in Conns, NEW k \in DOMAIN wire[c],
                    wire[c][k].type = "ResourceUpdate"
             PROVE  wire[c][k].wood \in Nat
  BY DEF SentOn
<1>1. wire[c] \in Seq(Message)
  BY PipelineTyped
<1>2. wire[c][k] \in Message
  BY <1>1
<1> QED
  BY <1>2 DEF Message

(* The amount a message shows of an account, if it shows one. *)
Shows(message, id) ==
    {n \in {message.wood} : message.type = "ResourceUpdate" /\ message.uuid = id}

(* One more message on a connection is one more amount at most. *)
LEMMA SentOnMore ==
  ASSUME NEW sent, NEW more, NEW c \in Conns, NEW message \in Message, NEW id,
         sent[c] \in Seq(Message), more[c] = Append(sent[c], message),
         \A d \in Conns : d # c => more[d] = sent[d]
  PROVE  SentOn(more, id) = SentOn(sent, id) \cup Shows(message, id)
<1> DEFINE On(s, d) == {s[d][k].wood : k \in {k \in DOMAIN s[d] :
                                              /\ s[d][k].type = "ResourceUpdate"
                                              /\ s[d][k].uuid = id}}
           new == Shows(message, id)
<1>1. SentOn(sent, id) = UNION {On(sent, d) : d \in Conns}
  BY DEF SentOn
<1>2. SentOn(more, id) = UNION {On(more, d) : d \in Conns}
  BY DEF SentOn
<1>3. ASSUME NEW d \in Conns, d # c PROVE On(more, d) = On(sent, d)
  BY <1>3
<1>4. On(more, c) = On(sent, c) \cup new
  <2>1. PICK x, y : x = sent[c] /\ y = more[c]
    OBVIOUS
  <2>2. /\ Len(x) \in Nat /\ DOMAIN x = 1 .. Len(x)
        /\ DOMAIN y = 1 .. Len(x) + 1
        /\ \A k \in 1 .. Len(x) : y[k] = x[k]
        /\ y[Len(x) + 1] = message
    BY <2>1, AppendProperties
  <2> DEFINE At(s) == {s[k].wood : k \in {k \in DOMAIN s : /\ s[k].type = "ResourceUpdate"
                                                           /\ s[k].uuid = id}}
  <2>3. On(more, c) = At(y) /\ On(sent, c) = At(x)
    BY <2>1
  <2>4. At(y) \subseteq At(x) \cup new
    BY <2>2 DEF Shows
  <2>5. At(x) \cup new \subseteq At(y)
    BY <2>2 DEF Shows
  <2> QED
    BY <2>3, <2>4, <2>5
<1> HIDE DEF On, new
<1>5. UNION {On(more, d) : d \in Conns} = (UNION {On(sent, d) : d \in Conns}) \cup new
  BY <1>3, <1>4
<1> QED
  BY <1>1, <1>2, <1>5 DEF new

(* A completed write shows an amount that is on disk, or shows no more than *)
(* was shown.                                                               *)
LEMMA WriteShows ==
  ASSUME IInv, AccountsInv, SentInv, ShownInv, NEW c \in Conns, WriteCompletes(c)
  PROVE  /\ ShownInv'
         /\ \/ UNCHANGED ServerLedger!vars
            \/ \E id \in Uuids : ServerLedger!Show(id)
<1>1. PICK message \in Message :
        /\ wire'[c] = Append(wire[c], message)
        /\ \A d \in Conns : d # c => wire'[d] = wire[d]
        /\ \E k \in 1 .. Len(Pipeline(c)) : Pipeline(c)[k] = message
  BY WriteSends
<1>2. Covered(file, message)
  BY <1>1 DEF SentInv
<1>3. wire[c] \in Seq(Message)
  BY PipelineTyped
<1>4. \A id \in Uuids : /\ SentOn(wire, id) \in SUBSET Nat
                        /\ HasMost(SentOn(wire, id))
                        /\ Shown(id) = MostOf(SentOn(wire, id))
                        /\ Shown(id)' = MostOf(SentOn(wire', id))
  BY SentOnTyped, ShownIsMost DEF ShownInv
<1>5. file' = file
  BY DEF WriteCompletes, dbVars
<1>6. \A id \in Uuids : Stock(id)' = Stock(id)
  BY <1>5, StockIsIn
<1>7. ASSUME NEW id
      PROVE  SentOn(wire', id) = SentOn(wire, id) \cup Shows(message, id)
  <2>1. PICK sent, more : sent = wire /\ more = wire'
    OBVIOUS
  <2>2. /\ sent[c] \in Seq(Message) /\ more[c] = Append(sent[c], message)
        /\ \A d \in Conns : d # c => more[d] = sent[d]
    BY <1>1, <1>3, <2>1
  <2>3. SentOn(more, id) = SentOn(sent, id) \cup Shows(message, id)
    BY <2>2, SentOnMore
  <2> QED
    BY <2>1, <2>3
<1>8. ASSUME NEW id \in Uuids, ~(message.type = "ResourceUpdate" /\ message.uuid = id)
      PROVE  HasMost(SentOn(wire', id)) /\ Shown(id)' = Shown(id)
  <2>1. Shows(message, id) = {}
    BY <1>8 DEF Shows
  <2>2. SentOn(wire', id) = SentOn(wire, id)
    BY <1>7, <2>1
  <2> QED
    BY <1>4, <2>2
<1>9. CASE message.type # "ResourceUpdate"
  <2>1. ShownInv'
    BY <1>8, <1>9 DEF ShownInv
  <2>2. \A id \in Uuids : Shown(id)' = Shown(id)
    BY <1>8, <1>9
  <2>3. UNCHANGED ServerLedger!vars
    BY <1>6, <2>2 DEF ServerLedger!vars
  <2> QED
    BY <2>1, <2>3
<1>10. CASE message.type = "ResourceUpdate"
  <2>1. PICK id, amount : id = message.uuid /\ amount = message.wood
    OBVIOUS
  <2>2. id \in Uuids /\ amount \in Nat
    BY <1>10, <2>1 DEF Message
  <2>3. SentOn(wire', id) = SentOn(wire, id) \cup {amount}
    <3>1. Shows(message, id) = {amount}
      BY <1>10, <2>1 DEF Shows
    <3> QED
      BY <1>7, <3>1
  <2>4. /\ Shown(id) \in Nat
        /\ HasMost(SentOn(wire', id))
        /\ Shown(id)' = IF amount > Shown(id) THEN amount ELSE Shown(id)
    <3>1. /\ MostOf(SentOn(wire, id)) \in Nat
          /\ HasMost(SentOn(wire, id) \cup {amount})
          /\ MostOf(SentOn(wire, id) \cup {amount})
               = IF amount > MostOf(SentOn(wire, id)) THEN amount ELSE MostOf(SentOn(wire, id))
      BY <1>4, <2>2, MostOfMore
    <3> QED
      BY <1>4, <2>2, <2>3, <3>1
  <2>5. \A x \in Uuids : x # id => HasMost(SentOn(wire', x)) /\ Shown(x)' = Shown(x)
    BY <1>8, <2>1
  <2>6. ShownInv'
    BY <2>4, <2>5 DEF ShownInv
  <2>7. CASE amount > Shown(id)
    <3>1. PICK u \in Users : file[u] # NoAccount /\ file[u].uuid = id /\ file[u].wood >= amount
      BY <1>2, <1>10, <2>1 DEF Covered, Holds
    <3>2. file \in Accounts /\ Distinct(file)
      BY DEF IInv, TypeOK, AccountsInv
    <3>3. /\ Stock(id) = file[u].wood /\ Stock(id) # NoAccount /\ Stock(id) \in Nat
      <4>1. Known(file, id)
        BY <3>1 DEF Known
      <4>2. StockIn(file, id) = file[u].wood
        BY <3>1, <3>2, <4>1, WoodIsStock DEF StockIn
      <4>3. StockIn(file, id) # NoAccount /\ StockIn(file, id) \in Nat
        BY <3>2, <4>1, StockOfAccount
      <4> QED
        BY <4>2, <4>3, StockIsIn
    <3>4. amount \in Shown(id) + 1 .. Stock(id)
      BY <2>2, <2>4, <2>7, <3>1, <3>3
    <3>5. [x \in Uuids |-> Shown(x)]' = [[x \in Uuids |-> Shown(x)] EXCEPT ![id] = amount]
      BY <2>4, <2>5, <2>7
    <3>6. [x \in Uuids |-> Stock(x)]' = [x \in Uuids |-> Stock(x)]
      BY <1>6
    <3>7. ServerLedger!Show(id)
      BY <2>2, <3>3, <3>4, <3>5, <3>6 DEF ServerLedger!Show
    <3> QED
      BY <2>2, <2>6, <3>7
  <2>8. CASE ~(amount > Shown(id))
    <3>1. \A x \in Uuids : Shown(x)' = Shown(x)
      BY <2>4, <2>5, <2>8
    <3>2. UNCHANGED ServerLedger!vars
      BY <1>6, <3>1 DEF ServerLedger!vars
    <3> QED
      BY <2>6, <3>2
  <2> QED
    BY <2>7, <2>8
<1> QED
  BY <1>9, <1>10

(* Only a completed write changes what went out. *)
LEMMA WireSteps ==
  ASSUME [Next]_vars
  PROVE  UNCHANGED wire \/ \E c \in Conns : WriteCompletes(c)
<1>1. ASSUME NEW c \in Conns, Client(c) PROVE UNCHANGED wire
  BY <1>1 DEF Client, ClientConnects, ClientSends, ClientCloses, Connect, SendLine, Close
<1>2. ASSUME NEW c \in Conns, Handler(c) PROVE UNCHANGED wire \/ WriteCompletes(c)
  BY <1>2 DEF Handler, onAccept, PostedRuns, RunPosted, WriteBreaks, WriteFail, ReadBreaks,
              ReadEnd, HandlesLine, IgnoresLine, TakeMalformed, LoginRejected, LoginSucceeds,
              LoginSaveThrows, LoginRequest, TakeLine
<1>3. CASE Death
  <2>1. Dies
    BY <1>3 DEF Death, Killed, KilledInTick, NullSession, KilledInLogin
  <2> QED
    BY <2>1 DEF Dies, LoseSessions
<1>4. onResourceTick \/ Restart \/ UNCHANGED vars => UNCHANGED wire
  BY DEF onResourceTick, Restart, vars, sessionVars
<1> QED
  BY <1>1, <1>2, <1>3, <1>4 DEF Next

LEMMA LedgerInit ==
  ASSUME Init
  PROVE  ServerLedger!Init /\ ShownInv
<1>1. \A id : Stock(id) = NoAccount
  BY DEF Init, NoAccounts, Stock
<1>2. \A id : SentOn(wire, id) = {}
  BY DEF Init, SessionInit, SentOn
<1>3. HasMost({}) /\ MostOf({}) = 0
  BY DEF HasMost, MostOf
<1>4. \A id : Shown(id) = 0
  BY <1>2, <1>3, ShownIsMost
<1>5. ShownInv
  BY <1>2, <1>3 DEF ShownInv
<1>6. ServerLedger!Init
  BY <1>1, <1>4 DEF ServerLedger!Init
<1> QED
  BY <1>5, <1>6

(* Every step of the server is a step of the ledger, or none. *)
LEMMA LedgerStep ==
  ASSUME BaseInv, AccountsInv, SentInv, ShownInv, [Next]_vars
  PROVE  ShownInv' /\ [ServerLedger!Next]_(ServerLedger!vars)
<1>0. /\ IInv /\ file \in Accounts /\ file' \in Accounts
      /\ Distinct(file) /\ Distinct(file') /\ Grows(file, file')
  BY NextInv, AccountsStep DEF BaseInv, IInv, TypeOK, AccountsInv
<1>1. CASE \E c \in Conns : WriteCompletes(c)
  BY <1>0, <1>1, WriteShows DEF ServerLedger!Next
<1>2. CASE UNCHANGED wire
  <2>1. ShownInv'
    BY <1>2 DEF ShownInv
  <2>2. CASE Gains
    BY <1>0, <1>2, <2>1, <2>2, CreditStep DEF ServerLedger!Next
  <2>3. CASE file' = file
    <3>1. \A id : Stock(id)' = Stock(id) /\ Shown(id)' = Shown(id)
      BY <1>2, <2>3, StockIsIn, ShownIsMost
    <3> QED
      BY <2>1, <3>1 DEF ServerLedger!vars
  <2> QED
    BY <2>2, <2>3, FileGains
<1> QED
  BY <1>1, <1>2, WireSteps

LEMMA ShownInvHolds == Spec => []ShownInv
BY LedgerInit, LedgerStep, BaseInvHolds, AccountsInvHolds, SentInvHolds, PTL DEF Spec

(* LedgerSpec, for any number of connections, accounts and client ids: the  *)
(* server implements Ledger, also where save() throws or the process dies   *)
(* between two credits of one tick: what a restart finds only grows, by     *)
(* whole gains, and nothing that was sent exceeds it.                       *)
THEOREM ServerImplementsLedger == Spec => LedgerSpec
<1>1. Init => ServerLedger!Init
  BY LedgerInit
<1>2. BaseInv /\ AccountsInv /\ SentInv /\ ShownInv /\ [Next]_vars
        => [ServerLedger!Next]_(ServerLedger!vars)
  BY LedgerStep
<1> QED
  BY <1>1, <1>2, BaseInvHolds, AccountsInvHolds, SentInvHolds, ShownInvHolds, PTL
  DEF Spec, LedgerSpec, ServerLedger!Spec

-----------------------------------------------------------------------------
(* The server in the system *)

LEMMA PlayerIsClient ==
  ASSUME NEW c \in Conns, Player(c)
  PROVE  [Next]_vars
<1>1. \A cred \in Credentials : cred \in Line
  BY DEF Line
<1>2. CASE Starts(c)
  BY <1>2 DEF Starts, Next, Client
<1>3. CASE \E cred \in Credentials : ClicksLogin(c, cred)
  BY <1>1, <1>3 DEF ClicksLogin, Next, Client
<1>4. CASE PollUnexpected(c) \/ PollExpected(c) \/ EntersGame(c)
  BY <1>4 DEF PollUnexpected, PollExpected, Polls, EntersGame
<1>5. CASE Exits(c)
  BY <1>5 DEF Exits, Next, Client
<1> QED
  BY <1>2, <1>3, <1>4, <1>5 DEF Player

(* A step of the system is one of the server, its clients included, or none. *)
LEMMA StepIsServers ==
  ASSUME [SysNext]_sysVars
  PROVE  [Next]_vars
<1>1. CASE ServerSteps
  BY <1>1 DEF ServerSteps, Next
<1>2. CASE \E c \in Conns : Player(c)
  BY <1>2, PlayerIsClient
<1>3. CASE UNCHANGED sysVars
  BY <1>3 DEF sysVars
<1> QED
  BY <1>1, <1>2, <1>3 DEF SysNext

LEMMA SystemIsServer == SysSpec => Spec
<1>1. SysInit => Init
  BY DEF SysInit
<1> QED
  BY <1>1, StepIsServers, PTL DEF SysSpec, Spec

(* All that was shown of the server and is used below. *)
ServerInv == BaseInv /\ AccountsInv /\ SentInv /\ OwnInv /\ GrowInv

LEMMA ServerInvHolds == SysSpec => []ServerInv
BY SystemIsServer, BaseInvHolds, AccountsInvHolds, SentInvHolds, OwnInvHolds, GrowInvHolds,
   PTL DEF ServerInv

(* UpdatesContiguous and NoLostUpdate, with players for clients. *)
THEOREM SystemUpdates == SysSpec => [](UpdatesContiguous /\ NoLostUpdate)
BY SystemIsServer, UpdatesContiguousHolds, NoLostUpdateHolds, PTL

(* LedgerSpec, with players for clients: what the players were sent never   *)
(* exceeds what a restart of the server finds.                              *)
THEOREM SystemImplementsLedger == SysSpec => LedgerSpec
BY SystemIsServer, ServerImplementsLedger, PTL

(* What went out is not taken back, nor followed by anything but what was   *)
(* sent.                                                                    *)
LEMMA WireGrows ==
  ASSUME IInv, [Next]_vars, NEW c \in Conns
  PROVE  /\ Len(wire[c]) \in Nat /\ Len(wire'[c]) \in Nat
         /\ Len(wire[c]) <= Len(wire'[c])
         /\ \A k \in 1 .. Len(wire[c]) : wire'[c][k] = wire[c][k]
<1>1. wire[c] \in Seq(Message)
  BY PipelineTyped
<1>2. CASE wire'[c] = wire[c]
  BY <1>1, <1>2
<1>3. CASE \E message \in Message : wire'[c] = Append(wire[c], message)
  BY <1>1, <1>3
<1>4. ASSUME NEW d \in Conns, WriteCompletes(d)
      PROVE  wire'[c] = wire[c] \/ \E message \in Message : wire'[c] = Append(wire[c], message)
  BY <1>4, WriteSends
<1> QED
  BY <1>2, <1>3, <1>4, WireSteps

-----------------------------------------------------------------------------
(* What a player sees was sent *)

(* A reply to a login of this account went out on the connection. *)
Told(c, id) ==
  \E k \in 1 .. Len(wire[c]) : wire[c][k].type = "LoginResult" /\ wire[c][k].uuid = id

(* An update with this amount is among the messages the client has polled. *)
Seen(c, id, wood) ==
  \E k \in 1 .. handled[c] : /\ wire[c][k].type = "ResourceUpdate"
                             /\ wire[c][k].uuid = id
                             /\ wire[c][k].wood = wood

(* The account that is played was told; the screen is an update of it that  *)
(* was polled, in the game, where the account does not change any more.     *)
PlayInv ==
  /\ \A c \in Conns : uuid[c] # NoUuid => Told(c, uuid[c])
  /\ \A c \in Conns : screen[c] # Nothing =>
       /\ scene[c] # "Login"
       /\ screen[c].uuid = uuid[c]
       /\ Seen(c, uuid[c], screen[c].wood)

SysInv == SysTypeOK /\ PlayInv

LEMMA InitSysInv == ASSUME SysInit PROVE SysInv
<1>1. TypeOK
  BY InitInv DEF SysInit, IInv
<1>2. \A c \in Conns : wire[c] = <<>>
  BY DEF SysInit, Init, SessionInit
<1>3. SysTypeOK
  BY <1>1, <1>2 DEF SysInit, SysTypeOK, Types
<1>4. PlayInv
  BY DEF SysInit, PlayInv
<1> QED
  BY <1>3, <1>4 DEF SysInv

LEMMA SysParts ==
  ASSUME SysInv, NEW c \in Conns
  PROVE  /\ handled \in [Conns -> Nat] /\ handled[c] \in Nat /\ handled[c] <= Len(wire[c])
         /\ lastSeqByType \in [Conns -> [Types -> Nat]]
         /\ uuid \in [Conns -> Uuids \cup {NoUuid}]
         /\ scene \in [Conns -> {"Login", "Game", "Exited"}]
         /\ screen \in [Conns -> [uuid : Uuids, wood : Nat] \cup {Nothing}]
         /\ uuid[c] # NoUuid => Told(c, uuid[c])
         /\ screen[c] # Nothing =>
              /\ scene[c] # "Login"
              /\ screen[c].uuid = uuid[c]
              /\ Seen(c, uuid[c], screen[c].wood)
BY DEF SysInv, SysTypeOK, PlayInv

(* More on the wire, and more of it polled, leaves told what was told. *)
LEMMA TellsMore ==
  ASSUME IInv, [Next]_vars, SysInv, NEW c \in Conns,
         handled'[c] \in Nat, handled'[c] >= handled[c], NEW id, NEW wood
  PROVE  /\ Told(c, id) => Told(c, id)'
         /\ Seen(c, id, wood) => Seen(c, id, wood)'
<1>1. /\ Len(wire[c]) \in Nat /\ Len(wire'[c]) \in Nat
      /\ Len(wire[c]) <= Len(wire'[c])
      /\ \A k \in 1 .. Len(wire[c]) : wire'[c][k] = wire[c][k]
  BY WireGrows
<1>2. handled[c] \in Nat /\ handled[c] <= Len(wire[c])
  BY SysParts
<1>3. Told(c, id) => Told(c, id)'
  BY <1>1 DEF Told
<1>4. \A k \in 1 .. handled[c] : k \in 1 .. handled'[c] /\ wire'[c][k] = wire[c][k]
  BY <1>1, <1>2
<1>5. Seen(c, id, wood) => Seen(c, id, wood)'
  BY <1>4 DEF Seen
<1> QED
  BY <1>3, <1>5

(* The next message of a client that polls. *)
LEMMA PolledTyped ==
  ASSUME SysInv, NEW c \in Conns, handled[c] < Len(wire[c])
  PROVE  /\ handled[c] + 1 \in 1 .. Len(wire[c])
         /\ Polled(c) \in Message
         /\ Polled(c).type \in Types /\ Polled(c).sequence \in Nat
         /\ Polled(c).type = "LoginResult" => Polled(c).uuid \in Uuids
         /\ Polled(c).type = "ResourceUpdate" => Polled(c).uuid \in Uuids /\ Polled(c).wood \in Nat
<1>1. wire[c] \in Seq(Message)
  BY DEF SysInv, SysTypeOK, TypeOK, SessionTypeOK
<1>2. handled[c] + 1 \in 1 .. Len(wire[c])
  BY <1>1, SysParts
<1>3. Polled(c) \in Message
  BY <1>1, <1>2 DEF Polled
<1> QED
  BY <1>2, <1>3 DEF Message, Types

(* A step of the server, or of a client that does not look at a message. *)
LEMMA ServerKeepsPlay ==
  ASSUME IInv, IInv', SysInv, [Next]_vars,
         UNCHANGED <<handled, lastSeqByType, uuid, screen>>,
         \A c \in Conns : \/ scene'[c] = scene[c]
                          \/ scene'[c] \in {"Game", "Exited"},
         scene' \in [Conns -> {"Login", "Game", "Exited"}]
  PROVE  SysInv'
<1>1. ASSUME NEW c \in Conns
      PROVE  /\ handled'[c] <= Len(wire'[c])
             /\ uuid'[c] # NoUuid => Told(c, uuid[c])'
             /\ screen'[c] # Nothing =>
                  /\ scene'[c] # "Login"
                  /\ screen'[c].uuid = uuid'[c]
                  /\ Seen(c, uuid[c], screen[c].wood)'
  <2>1. handled'[c] \in Nat /\ handled'[c] >= handled[c]
    BY SysParts
  <2>2. /\ Told(c, uuid[c]) => Told(c, uuid[c])'
        /\ Seen(c, uuid[c], screen[c].wood) => Seen(c, uuid[c], screen[c].wood)'
    <3>1. PICK id, wood : id = uuid[c] /\ wood = screen[c].wood
      OBVIOUS
    <3>2. (Told(c, id) => Told(c, id)') /\ (Seen(c, id, wood) => Seen(c, id, wood)')
      BY <2>1, TellsMore
    <3> QED
      BY <3>1, <3>2 DEF Told, Seen
  <2> QED
    BY <2>1, <2>2, SysParts, WireGrows
<1>2. SysTypeOK'
  BY <1>1, SysParts DEF SysTypeOK, SysInv, IInv
<1>3. PlayInv'
  BY <1>1 DEF PlayInv
<1> QED
  BY <1>2, <1>3 DEF SysInv

(* The poll loop takes the next message: nothing moves but the client. *)
LEMMA PollsOne ==
  ASSUME SysInv, NEW c \in Conns, Polls(c)
  PROVE  /\ UNCHANGED <<vars, scene>>
         /\ handled' \in [Conns -> Nat]
         /\ handled[c] < Len(wire[c])
         /\ handled'[c] = handled[c] + 1
         /\ \A d \in Conns : d # c => handled'[d] = handled[d]
         /\ \A d \in Conns : handled'[d] >= handled[d] /\ handled'[d] <= Len(wire'[d])
<1>1. handled \in [Conns -> Nat] /\ \A d \in Conns : handled[d] <= Len(wire[d])
  BY DEF SysInv, SysTypeOK
<1>2. /\ UNCHANGED <<vars, scene>>
      /\ handled[c] < Len(wire[c])
      /\ handled' = [handled EXCEPT ![c] = handled[c] + 1]
  BY DEF Polls
<1>3. UNCHANGED wire
  BY <1>2 DEF vars, sessionVars
<1>4. Len(wire[c]) \in Nat
  BY DEF SysInv, SysTypeOK, TypeOK, SessionTypeOK
<1> QED
  BY <1>1, <1>2, <1>3, <1>4

(* A message that the filter drops. *)
LEMMA UnexpectedKeepsPlay ==
  ASSUME IInv, IInv', SysInv, NEW c \in Conns, PollUnexpected(c)
  PROVE  SysInv'
<1>1. /\ Polls(c) /\ [Next]_vars
      /\ UNCHANGED <<lastSeqByType, uuid, screen, scene>>
  BY DEF PollUnexpected, Polls
<1>2. /\ handled' \in [Conns -> Nat]
      /\ \A d \in Conns : handled'[d] >= handled[d] /\ handled'[d] <= Len(wire'[d])
  BY <1>1, PollsOne
<1>3. \A d \in Conns : \A id, wood :
        /\ Told(d, id) => Told(d, id)'
        /\ Seen(d, id, wood) => Seen(d, id, wood)'
  BY <1>1, <1>2, TellsMore
<1>4. ASSUME NEW d \in Conns
      PROVE  /\ uuid'[d] # NoUuid => Told(d, uuid[d])'
             /\ screen'[d] # Nothing =>
                  /\ scene'[d] # "Login"
                  /\ screen'[d].uuid = uuid'[d]
                  /\ Seen(d, uuid[d], screen[d].wood)'
  <2>1. PICK id, wood : id = uuid[d] /\ wood = screen[d].wood
    OBVIOUS
  <2>2. (Told(d, id) => Told(d, id)') /\ (Seen(d, id, wood) => Seen(d, id, wood)')
    BY <1>3
  <2> QED
    BY <1>1, <2>1, <2>2, SysParts DEF Told, Seen
<1>5. SysTypeOK'
  BY <1>1, <1>2 DEF SysTypeOK, SysInv, IInv
<1>6. PlayInv'
  BY <1>4 DEF PlayInv
<1> QED
  BY <1>5, <1>6 DEF SysInv

(* What a client that takes a message comes to play and to show. *)
LEMMA Takes ==
  ASSUME SysInv, NEW c \in Conns, PollExpected(c)
  PROVE  /\ uuid' \in [Conns -> Uuids \cup {NoUuid}]
         /\ screen' \in [Conns -> [uuid : Uuids, wood : Nat] \cup {Nothing}]
         /\ lastSeqByType' \in [Conns -> [Types -> Nat]]
         /\ \A d \in Conns : d # c => uuid'[d] = uuid[d] /\ screen'[d] = screen[d]
         /\ uuid'[c] = IF TakesLogin(c) THEN Polled(c).uuid ELSE uuid[c]
         /\ TakesUpdate(c) => /\ screen'[c].uuid = Polled(c).uuid
                              /\ screen'[c].wood = Polled(c).wood
         /\ ~TakesUpdate(c) => screen'[c] = screen[c]
<1>1. /\ lastSeqByType \in [Conns -> [Types -> Nat]]
      /\ uuid \in [Conns -> Uuids \cup {NoUuid}]
      /\ screen \in [Conns -> [uuid : Uuids, wood : Nat] \cup {Nothing}]
  BY SysParts
<1>2. /\ Polled(c).type \in Types /\ Polled(c).sequence \in Nat
      /\ Polled(c).type = "LoginResult" => Polled(c).uuid \in Uuids
      /\ Polled(c).type = "ResourceUpdate" => Polled(c).uuid \in Uuids /\ Polled(c).wood \in Nat
  BY PolledTyped DEF PollExpected, Polls
<1>3. /\ lastSeqByType' = [lastSeqByType EXCEPT ![c][Polled(c).type] = Polled(c).sequence]
      /\ uuid' = IF TakesLogin(c) THEN [uuid EXCEPT ![c] = Polled(c).uuid] ELSE uuid
      /\ screen' = IF TakesUpdate(c)
                   THEN [screen EXCEPT ![c] = [uuid |-> Polled(c).uuid, wood |-> Polled(c).wood]]
                   ELSE screen
  BY DEF PollExpected, Counted
<1>4. TakesLogin(c) => Polled(c).uuid \in Uuids
  BY <1>2 DEF TakesLogin
<1>5. TakesUpdate(c) => Polled(c).uuid \in Uuids /\ Polled(c).wood \in Nat
  BY <1>2 DEF TakesUpdate
<1>6. lastSeqByType' \in [Conns -> [Types -> Nat]]
  BY <1>1, <1>2, <1>3
<1>7. /\ uuid' \in [Conns -> Uuids \cup {NoUuid}]
      /\ \A d \in Conns : d # c => uuid'[d] = uuid[d]
      /\ uuid'[c] = IF TakesLogin(c) THEN Polled(c).uuid ELSE uuid[c]
  BY <1>1, <1>3, <1>4
<1>8. /\ screen' \in [Conns -> [uuid : Uuids, wood : Nat] \cup {Nothing}]
      /\ \A d \in Conns : d # c => screen'[d] = screen[d]
      /\ TakesUpdate(c) => /\ screen'[c].uuid = Polled(c).uuid
                           /\ screen'[c].wood = Polled(c).wood
      /\ ~TakesUpdate(c) => screen'[c] = screen[c]
  BY <1>1, <1>3, <1>5
<1> QED
  BY <1>6, <1>7, <1>8

(* A message that the filter lets through. *)
LEMMA ExpectedKeepsPlay ==
  ASSUME IInv, IInv', SysInv, NEW c \in Conns, PollExpected(c)
  PROVE  SysInv'
<1>1. Polls(c) /\ [Next]_vars /\ UNCHANGED <<scene, wire>>
  BY DEF PollExpected, Polls, vars, sessionVars
<1>2. /\ handled' \in [Conns -> Nat]
      /\ handled[c] < Len(wire[c]) /\ handled'[c] = handled[c] + 1
      /\ \A d \in Conns : handled'[d] >= handled[d] /\ handled'[d] <= Len(wire'[d])
  BY <1>1, PollsOne
<1>3. \A d \in Conns : \A id, wood :
        /\ Told(d, id) => Told(d, id)'
        /\ Seen(d, id, wood) => Seen(d, id, wood)'
  BY <1>1, <1>2, TellsMore
<1>4. handled[c] + 1 \in 1 .. Len(wire[c]) /\ handled[c] + 1 \in 1 .. handled'[c]
  BY <1>2, PolledTyped, SysParts
<1>5. ASSUME NEW d \in Conns
      PROVE  /\ uuid'[d] # NoUuid => Told(d, uuid[d])'
             /\ screen'[d] # Nothing =>
                  /\ scene'[d] # "Login"
                  /\ screen'[d].uuid = uuid'[d]
                  /\ Seen(d, uuid[d], screen[d].wood)'
  <2>1. CASE uuid'[d] = uuid[d] /\ screen'[d] = screen[d]
    <3>1. PICK id, wood : id = uuid[d] /\ wood = screen[d].wood
      OBVIOUS
    <3>2. (Told(d, id) => Told(d, id)') /\ (Seen(d, id, wood) => Seen(d, id, wood)')
      BY <1>3
    <3> QED
      BY <1>1, <2>1, <3>1, <3>2, SysParts DEF Told, Seen
  <2>2. CASE d = c /\ TakesLogin(c)
    <3>1. scene[c] = "Login" /\ ~TakesUpdate(c) /\ screen[c] = Nothing
      BY <2>2, SysParts DEF TakesLogin, TakesUpdate
    <3>2. screen'[d] = Nothing /\ uuid'[d] = Polled(c).uuid /\ Polled(c).type = "LoginResult"
      BY <2>2, <3>1, Takes DEF TakesLogin
    <3>3. Told(d, uuid[d])'
      BY <1>1, <1>4, <2>2, <3>2 DEF Told, Polled
    <3> QED
      BY <3>2, <3>3
  <2>3. CASE d = c /\ TakesUpdate(c)
    <3>1. /\ ~TakesLogin(c) /\ scene[c] = "Game"
          /\ Polled(c).type = "ResourceUpdate" /\ Polled(c).uuid = uuid[c]
      BY <2>3 DEF TakesLogin, TakesUpdate
    <3>2. /\ uuid'[c] = uuid[c] /\ screen'[c].uuid = uuid[c]
          /\ screen'[c].wood = Polled(c).wood
      BY <2>3, <3>1, Takes
    <3>3. Seen(c, uuid[c], screen[c].wood)'
      BY <1>1, <1>4, <3>1, <3>2 DEF Seen, Polled
    <3>4. uuid[c] # NoUuid => Told(c, uuid[c])'
      <4>1. PICK id : id = uuid[c]
        OBVIOUS
      <4>2. uuid[c] # NoUuid => Told(c, id)'
        BY <1>3, <4>1, SysParts
      <4> QED
        BY <3>2, <4>1, <4>2 DEF Told
    <3> QED
      BY <1>1, <2>3, <3>1, <3>2, <3>3, <3>4
  <2> QED
    BY <2>1, <2>2, <2>3, Takes
<1>6. SysTypeOK'
  BY <1>1, <1>2, Takes DEF SysTypeOK, SysInv, IInv
<1>7. PlayInv'
  BY <1>5 DEF PlayInv
<1> QED
  BY <1>6, <1>7 DEF SysInv

LEMMA NextSysInv ==
  ASSUME IInv, IInv', SysInv, [SysNext]_sysVars
  PROVE  SysInv'
<1>0. [Next]_vars /\ scene \in [Conns -> {"Login", "Game", "Exited"}]
  BY StepIsServers DEF SysInv, SysTypeOK
<1>1. CASE ServerSteps \/ UNCHANGED sysVars
  BY <1>0, <1>1, ServerKeepsPlay DEF ServerSteps, sysVars, clientVars
<1>2. ASSUME NEW c \in Conns,
             Starts(c) \/ \E cred \in Credentials : ClicksLogin(c, cred)
      PROVE  SysInv'
  BY <1>0, <1>2, ServerKeepsPlay DEF Starts, ClicksLogin, clientVars
<1>3. ASSUME NEW c \in Conns, EntersGame(c)
      PROVE  SysInv'
  BY <1>0, <1>3, ServerKeepsPlay DEF EntersGame
<1>4. ASSUME NEW c \in Conns, Exits(c)
      PROVE  SysInv'
  BY <1>0, <1>4, ServerKeepsPlay DEF Exits
<1> QED
  BY <1>1, <1>2, <1>3, <1>4, UnexpectedKeepsPlay, ExpectedKeepsPlay DEF SysNext, Player

LEMMA SysInvHolds == SysSpec => [](SysInv /\ ServerInv)
<1>1. ServerInv => IInv
  BY DEF ServerInv, BaseInv
<1> QED
  BY <1>1, InitSysInv, NextSysInv, ServerInvHolds, PTL DEF SysSpec

-----------------------------------------------------------------------------
(* The right account and a screen that lasts *)

(* What is on the wire was sent, and stands at the same place there. *)
LEMMA OnWire ==
  ASSUME IInv, NEW c \in Conns, NEW k \in 1 .. Len(wire[c])
  PROVE  k \in 1 .. Len(Pipeline(c)) /\ Pipeline(c)[k] = wire[c][k]
BY WireIsPrefix, PipelineTyped

LEMMA PlaysOwn == ASSUME SysInv, ServerInv PROVE PlaysOwnAccount
<1> SUFFICES ASSUME NEW c \in Conns, uuid[c] # NoUuid, m_clientId[c] # NoId, Unshared(c)
             PROVE  \E n \in DOMAIN asked[c], u \in Users :
                      /\ asked[c][n].id = u
                      /\ m_accounts[u] # NoAccount
                      /\ m_accounts[u].password = asked[c][n].password
                      /\ m_accounts[u].uuid = uuid[c]
  BY DEF PlaysOwnAccount
<1>1. PICK k \in 1 .. Len(wire[c]) : wire[c][k].type = "LoginResult" /\ wire[c][k].uuid = uuid[c]
  BY SysParts DEF Told
<1>2. k \in 1 .. Len(Pipeline(c)) /\ Pipeline(c)[k] = wire[c][k]
  BY OnWire DEF ServerInv, BaseInv
<1>3. Entitled(asked[c], m_accounts, uuid[c])
  BY <1>1, <1>2 DEF ServerInv, OwnInv, Owns
<1>4. PICK n \in 1 .. Len(asked[c]) :
        /\ asked[c][n] \in Credentials
        /\ m_accounts[asked[c][n].id] # NoAccount
        /\ m_accounts[asked[c][n].id].password = asked[c][n].password
        /\ m_accounts[asked[c][n].id].uuid = uuid[c]
  BY <1>3 DEF Entitled
<1>5. asked[c] \in Seq(Line)
  BY DEF ServerInv, BaseInv, IInv, TypeOK
<1>6. n \in DOMAIN asked[c] /\ asked[c][n].id \in Users
  BY <1>4, <1>5 DEF Credentials
<1> QED
  BY <1>4, <1>6

LEMMA ScreenLasts == ASSUME SysInv, ServerInv PROVE ScreenIsDurable
<1> SUFFICES ASSUME NEW c \in Conns, screen[c] # Nothing
             PROVE  /\ screen[c].uuid = uuid[c]
                    /\ Stock(uuid[c]) # NoAccount
                    /\ Stock(uuid[c]) >= screen[c].wood
  BY DEF ScreenIsDurable
<1>1. screen[c].uuid = uuid[c] /\ Seen(c, uuid[c], screen[c].wood)
  BY SysParts
<1>2. PICK k \in 1 .. handled[c] : /\ wire[c][k].type = "ResourceUpdate"
                                   /\ wire[c][k].uuid = uuid[c]
                                   /\ wire[c][k].wood = screen[c].wood
  BY <1>1 DEF Seen
<1>3. IInv /\ file \in Accounts /\ Distinct(file) /\ SentInv
  BY DEF ServerInv, BaseInv, IInv, TypeOK, AccountsInv
<1>4. k \in 1 .. Len(wire[c])
  BY <1>3, SysParts, PipelineTyped
<1>5. k \in 1 .. Len(Pipeline(c)) /\ Pipeline(c)[k] = wire[c][k]
  BY <1>3, <1>4, OnWire
<1>6. PICK u \in Users : /\ file[u] # NoAccount /\ file[u].uuid = uuid[c]
                         /\ file[u].wood >= screen[c].wood
  BY <1>2, <1>3, <1>5 DEF SentInv, Covered, Holds
<1>7. Known(file, uuid[c])
  BY <1>6 DEF Known
<1>8. StockIn(file, uuid[c]) = file[u].wood
  BY <1>3, <1>6, <1>7, WoodIsStock DEF StockIn
<1>9. StockIn(file, uuid[c]) # NoAccount
  BY <1>3, <1>7, StockOfAccount
<1> QED
  BY <1>1, <1>6, <1>8, <1>9, StockIsIn

(* PlayersInv, for any number of players, accounts and client ids: a client *)
(* plays an account it asked for with the password, as long as its id is    *)
(* its own, and its screen shows no more than a restart of the server finds.*)
THEOREM PlayersInvHolds == SysSpec => []PlayersInv
<1>1. SysInv /\ ServerInv => PlayersInv
  BY PlaysOwn, ScreenLasts DEF SysInv, PlayersInv
<1> QED
  BY <1>1, SysInvHolds, PTL

(* A message shown after another one was sent after it. *)
LEMMA ScreenStep ==
  ASSUME SysInv, ServerInv, [SysNext]_sysVars, NEW c \in Conns, screen[c] # Nothing
  PROVE  /\ screen'[c].uuid = screen[c].uuid
         /\ screen'[c].wood >= screen[c].wood
<1>0. screen[c].wood \in Nat
  BY SysParts
<1>1. CASE screen'[c] = screen[c]
  BY <1>0, <1>1
<1>2. CASE PollExpected(c) /\ TakesUpdate(c)
  <2>1. /\ Polled(c).type = "ResourceUpdate" /\ Polled(c).uuid = uuid[c]
        /\ screen'[c].uuid = Polled(c).uuid /\ screen'[c].wood = Polled(c).wood
    BY <1>2, Takes DEF TakesUpdate
  <2>2. screen[c].uuid = uuid[c] /\ Seen(c, uuid[c], screen[c].wood)
    BY SysParts
  <2>3. PICK k \in 1 .. handled[c] : /\ wire[c][k].type = "ResourceUpdate"
                                     /\ wire[c][k].uuid = uuid[c]
                                     /\ wire[c][k].wood = screen[c].wood
    BY <2>2 DEF Seen
  <2>4. PICK l : l = handled[c] + 1
    OBVIOUS
  <2>5. /\ l \in 1 .. Len(wire[c]) /\ Polled(c) = wire[c][l]
        /\ Polled(c).wood \in Nat
    BY <1>2, <2>1, <2>4, PolledTyped DEF PollExpected, Polls, Polled
  <2>6. k \in 1 .. Len(wire[c]) /\ k < l
    BY <2>4, <2>5, SysParts, PipelineTyped DEF ServerInv, BaseInv
  <2>7. /\ k \in 1 .. Len(Pipeline(c)) /\ Pipeline(c)[k] = wire[c][k]
        /\ l \in 1 .. Len(Pipeline(c)) /\ Pipeline(c)[l] = wire[c][l]
    BY <2>5, <2>6, OnWire DEF ServerInv, BaseInv
  <2>8. k \in Updates(c) /\ l \in Updates(c)
    BY <2>1, <2>3, <2>5, <2>7 DEF Updates
  <2>9. Pipeline(c)[k].wood < Pipeline(c)[l].wood
    BY <2>1, <2>3, <2>5, <2>6, <2>7, <2>8 DEF ServerInv, GrowInv
  <2> QED
    BY <1>0, <2>1, <2>2, <2>3, <2>5, <2>7, <2>9
<1>3. ASSUME NEW d \in Conns, Player(d)
      PROVE  screen'[c] = screen[c] \/ (d = c /\ PollExpected(c) /\ TakesUpdate(c))
  BY <1>3, Takes DEF Player, Starts, ClicksLogin, PollUnexpected, EntersGame, Exits, clientVars
<1> QED
  BY <1>1, <1>2, <1>3 DEF SysNext, ServerSteps, sysVars, clientVars

(* ScreenGrows: an update that a client shows stands behind the one it      *)
(* showed before in what it was sent, and along that the stock of an        *)
(* account grows.                                                           *)
THEOREM ScreenGrowsHolds == SysSpec => ScreenGrows
<1>1. SysInv /\ ServerInv /\ [SysNext]_sysVars
        => [\A c \in Conns : screen[c] # Nothing =>
              /\ screen'[c].uuid = screen[c].uuid
              /\ screen'[c].wood >= screen[c].wood]_sysVars
  BY ScreenStep
<1> QED
  BY <1>1, SysInvHolds, PTL DEF SysSpec, ScreenGrows

=============================================================================
