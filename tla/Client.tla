------------------------------- MODULE Client -------------------------------
(***************************************************************************)
(* One client process: the main thread of Application.cpp with the scenes, *)
(* and the receive thread of NetworkClient.cpp.  They share the queue of   *)
(* received messages (under m_recvMutex), the atomic m_running and the     *)
(* socket.  The server is what Server promises one connection: a           *)
(* handshake, a LoginResult with sequence 1 for each accepted LoginRequest,*)
(* numbered ResourceUpdates for the account it last logged in, or a close. *)
(***************************************************************************)
EXTENDS Naturals, Sequences, FiniteSets

CONSTANTS
  Uuids,      \* the accounts; a LoginRequest stands for the account it names
  NoUuid, NoMessage,
  Nothing,    \* the player's resources before the first update
  SeqSpace,   \* sequences are uint32_t: 2^32 of them
  FirstSeqs,  \* how a connection's ResourceUpdates may be numbered: from 1,
              \* or from where another holder of its client id stopped
  MaxClicks,  \* bound: LoginRequests
  MaxUpdates  \* bound: ResourceUpdates

ASSUME ConstantsAssumption ==
  /\ NoUuid \notin Uuids
  /\ SeqSpace \in Nat \ {0, 1}
  /\ FirstSeqs \subseteq 1 .. SeqSpace - 1
  /\ MaxClicks \in Nat
  /\ MaxUpdates \in Nat

VARIABLES
  \* the main thread: Application, GameContext, SceneManager, Player
  app,            \* its next step, or "exited" or "terminated"
  lastSeqByType,
  clientId,
  uuid,
  scene,
  shown,          \* m_player's resources, with the account they came for
  \* shared by the threads: NetworkClient
  m_running,
  m_recvQueue,
  socket,         \* "none" before or without a connection, "open", "closed"
  \* the receive thread
  recv,           \* its next step, "none" before it is created, or "ended"
  held,           \* the message it has parsed and not pushed, or NoMessage
  \* the connection and the server's end of it
  inbound,        \* lines the client has not read yet
  requests,       \* LoginRequests the server has not read yet
  server,         \* "open" or "closed"
  session,        \* the uuid of the server's session
  nextSeq,        \* the sequence of its next ResourceUpdate
  \* history
  sent,           \* every message the server sent
  handled,        \* how many of them the main thread has taken
  clicks          \* how many LoginRequests were sent

mainVars == <<app, lastSeqByType, clientId, uuid, scene, shown>>
contextVars == <<lastSeqByType, clientId, uuid, shown>>
recvVars == <<recv, held>>
serverVars == <<server, session, nextSeq, sent>>
countVars == <<handled, clicks>>
vars == <<mainVars, m_running, m_recvQueue, socket, recvVars, inbound,
          requests, serverVars, countVars>>

(* What a step of the main thread leaves alone when all it does is to move  *)
(* on: app, and m_running or socket in some of them, are not in this list.   *)
frameVars == <<contextVars, scene, m_recvQueue, recvVars, inbound, requests,
               serverVars, countVars>>

Types == {"AssignClientId", "LoginResult", "ResourceUpdate"}

Message ==
  [type : {"AssignClientId"}, sequence : {1}, clientId : {1}]
    \cup [type : {"LoginResult"}, sequence : {1}, uuid : Uuids]
    \cup [type : {"ResourceUpdate"}, sequence : 0 .. SeqSpace - 1,
          uuid : Uuids, wood : 1 .. MaxUpdates]

ASSUME NoMessageAssumption == NoMessage \notin Message

TypeOK ==
  /\ app \in {"connect", "poll", "update", "draw", "shutdown", "close", "join",
              "exited", "terminated"}
  /\ lastSeqByType \in [Types -> 0 .. SeqSpace - 1]
  /\ clientId \in {0, 1}
  /\ uuid \in Uuids \cup {NoUuid}
  /\ scene \in {"Login", "Game"}
  /\ shown \in [uuid : Uuids, wood : Nat] \cup {Nothing}
  /\ m_running \in BOOLEAN
  /\ m_recvQueue \in Seq(Message)
  /\ socket \in {"none", "open", "closed"}
  /\ recv \in {"none", "test", "read", "push", "stop", "ended"}
  /\ held \in Message \cup {NoMessage}
  /\ inbound \in Seq(Message)
  /\ requests \in Seq(Uuids)
  /\ server \in {"open", "closed"}
  /\ session \in Uuids \cup {NoUuid}
  /\ nextSeq \in 0 .. SeqSpace - 1
  /\ sent \in Seq(Message)
  /\ handled \in Nat
  /\ clicks \in 0 .. MaxClicks

Init ==
  /\ app = "connect"
  /\ lastSeqByType = [t \in Types |-> 0]
  /\ clientId = 0
  /\ uuid = NoUuid
  /\ scene = "Login"
  /\ shown = Nothing
  /\ m_running = FALSE
  /\ m_recvQueue = <<>>
  /\ socket = "none"
  /\ recv = "none"
  /\ held = NoMessage
  /\ inbound = <<>>
  /\ requests = <<>>
  /\ server = "open"
  /\ session = NoUuid
  /\ nextSeq \in FirstSeqs
  /\ sent = <<>>
  /\ handled = 0
  /\ clicks = 0

-----------------------------------------------------------------------------
(* The server's end, as far as the client can tell. *)

ServerSends(message) ==
  /\ inbound' = Append(inbound, message)
  /\ sent' = Append(sent, message)

(* A LoginRequest is answered, and the session is the named account's. *)
ServerAnswers ==
  /\ server = "open"
  /\ requests # <<>>
  /\ session' = Head(requests)
  /\ ServerSends([type |-> "LoginResult", sequence |-> 1, uuid |-> Head(requests)])
  /\ requests' = Tail(requests)
  /\ UNCHANGED <<mainVars, m_running, m_recvQueue, socket, recvVars, server, nextSeq,
                 countVars>>

(* A LoginRequest with a wrong password is not answered. *)
ServerRejects ==
  /\ server = "open"
  /\ requests # <<>>
  /\ requests' = Tail(requests)
  /\ UNCHANGED <<mainVars, m_running, m_recvQueue, socket, recvVars, inbound,
                 serverVars, countVars>>

UpdatesSent == {k \in 1 .. Len(sent) : sent[k].type = "ResourceUpdate"}

(* wood numbers the updates: each carries more than the ones before it. *)
ServerTicks ==
  /\ server = "open"
  /\ session # NoUuid
  /\ Cardinality(UpdatesSent) < MaxUpdates
  /\ ServerSends([type |-> "ResourceUpdate", sequence |-> nextSeq, uuid |-> session,
                  wood |-> Cardinality(UpdatesSent) + 1])
  /\ nextSeq' = (nextSeq + 1) % SeqSpace
  /\ UNCHANGED <<mainVars, m_running, m_recvQueue, socket, recvVars, requests, server,
                 session, countVars>>

(* The server dies or drops the session; a reset discards unread lines. *)
ServerCloses ==
  /\ server = "open"
  /\ socket = "open"
  /\ server' = "closed"
  /\ \E n \in 0 .. Len(inbound) : inbound' = SubSeq(inbound, 1, n)
  /\ UNCHANGED <<mainVars, m_running, m_recvQueue, socket, recvVars, requests, session,
                 nextSeq, sent, countVars>>

-----------------------------------------------------------------------------
(* The main thread: the constructor's connect(). *)

ConnectSucceeds ==
  /\ app = "connect"
  /\ app' = "poll"
  /\ socket' = "open"
  /\ m_running' = TRUE
  /\ recv' = "test"
  /\ ServerSends([type |-> "AssignClientId", sequence |-> 1, clientId |-> 1])
  /\ UNCHANGED <<contextVars, scene, m_recvQueue, held, requests, server, session,
                 nextSeq, countVars>>

(* It is only logged; there is no second attempt. *)
ConnectFails ==
  /\ app = "connect"
  /\ app' = "poll"
  /\ UNCHANGED <<frameVars, m_running, socket>>

-----------------------------------------------------------------------------
(* Application::Update: the poll loop. *)

(* Mutant: every message is taken. *)
ExpectedAlways(message) == TRUE

(* Newer than the last one of its type, and with no gap to it. *)
Expected(message) ==
  /\ message.sequence > lastSeqByType[message.type]
  /\ message.sequence = (lastSeqByType[message.type] + 1) % SeqSpace

(* Mutant: updates are shown whoever they are for. *)
HandleAnyones(message) ==
  /\ uuid' = IF scene = "Login" /\ message.type = "LoginResult" THEN message.uuid ELSE uuid
  /\ shown' = IF scene = "Game" /\ message.type = "ResourceUpdate"
              THEN [uuid |-> message.uuid, wood |-> message.wood] ELSE shown

(* handleMessage of the current scene: LoginScene takes a LoginResult,       *)
(* GameScene a ResourceUpdate of the player's account.  Anything else is     *)
(* dropped, although its sequence has been counted.                          *)
handleMessage(message) ==
  /\ uuid' = IF scene = "Login" /\ message.type = "LoginResult" THEN message.uuid ELSE uuid
  /\ shown' = IF /\ scene = "Game" /\ message.type = "ResourceUpdate"
                 /\ message.uuid = uuid
              THEN [uuid |-> message.uuid, wood |-> message.wood] ELSE shown

(* The message that pollMessage() would return. *)
Polled == Head(m_recvQueue)

Polls ==
  /\ app = "poll"
  /\ m_recvQueue # <<>>
  /\ m_recvQueue' = Tail(m_recvQueue)
  /\ handled' = handled + 1
  /\ UNCHANGED <<app, scene, m_running, socket, recvVars, inbound, requests, serverVars, clicks>>

(* Mutant: what is remembered is the sequence to come. *)
CountedAhead == lastSeqByType' = [lastSeqByType EXCEPT ![Polled.type] = Polled.sequence + 1]

Counted == lastSeqByType' = [lastSeqByType EXCEPT ![Polled.type] = Polled.sequence]

PollUnexpected ==
  /\ Polls
  /\ ~Expected(Polled)
  /\ UNCHANGED contextVars

PollClientId ==
  /\ Polls
  /\ Expected(Polled)
  /\ Polled.type = "AssignClientId"
  /\ Counted
  /\ clientId' = Polled.clientId
  /\ UNCHANGED <<uuid, shown>>

PollForScene ==
  /\ Polls
  /\ Expected(Polled)
  /\ Polled.type # "AssignClientId"
  /\ Counted
  /\ handleMessage(Polled)
  /\ UNCHANGED clientId

(* Mutant: the game is entered when its first update has come. *)
PollEmptyOnUpdate ==
  /\ app = "poll"
  /\ m_recvQueue = <<>>
  /\ scene' = IF uuid # NoUuid /\ lastSeqByType["ResourceUpdate"] > 0 THEN "Game" ELSE scene
  /\ app' = "update"
  /\ UNCHANGED <<contextVars, m_running, m_recvQueue, socket, recvVars, inbound,
                 requests, serverVars, countVars>>

(* The queue is empty: the scene is chosen, and then updated. *)
PollEmpty ==
  /\ app = "poll"
  /\ m_recvQueue = <<>>
  /\ scene' = IF uuid # NoUuid THEN "Game" ELSE scene
  /\ app' = "update"
  /\ UNCHANGED <<contextVars, m_running, m_recvQueue, socket, recvVars, inbound,
                 requests, serverVars, countVars>>

-----------------------------------------------------------------------------
(* scenes.Update(), Draw() and the end of the frame. *)

NoClick ==
  /\ app = "update"
  /\ app' = "draw"
  /\ UNCHANGED <<frameVars, m_running, socket>>

LoginButton(id) ==
  /\ app = "update"
  /\ scene = "Login"
  /\ clicks < MaxClicks
  /\ clicks' = clicks + 1
  /\ UNCHANGED <<contextVars, scene, m_running, m_recvQueue, socket, recvVars, inbound,
                 serverVars, handled>>

(* The request is written; when the server has just closed it goes nowhere. *)
LoginClick(id) ==
  /\ LoginButton(id)
  /\ socket = "open"
  /\ requests' = Append(requests, id)
  /\ app' = "draw"

(* The write throws, and nobody catches it. *)
LoginClickThrows(id) ==
  /\ LoginButton(id)
  /\ socket # "open" \/ server = "closed"
  /\ app' = "terminated"
  /\ UNCHANGED requests

NextFrame ==
  /\ app = "draw"
  /\ app' = "poll"
  /\ UNCHANGED <<frameVars, m_running, socket>>

WindowCloses ==
  /\ app = "draw"
  /\ app' = "shutdown"
  /\ UNCHANGED <<frameVars, m_running, socket>>

-----------------------------------------------------------------------------
(* m_net.shutdown(), and the destructor of NetworkClient. *)

(* Mutant: only the flag is cleared. *)
ShutdownFlagOnly ==
  /\ app = "shutdown"
  /\ m_running' = FALSE
  /\ app' = "join"
  /\ UNCHANGED <<frameVars, socket>>

(* When the receive thread has stopped, the socket is left as it is. *)
Shutdown ==
  /\ app = "shutdown"
  /\ m_running' = FALSE
  /\ app' = IF m_running THEN "close" ELSE "join"
  /\ UNCHANGED <<frameVars, socket>>

(* shutdown() and close() of the socket; a read that is pending returns. *)
CloseSocket ==
  /\ app = "close"
  /\ socket' = "closed"
  /\ app' = "join"
  /\ UNCHANGED <<frameVars, m_running>>

(* The second shutdown() returns at once: m_running is never set again. *)
Join ==
  /\ app = "join"
  /\ recv \in {"none", "ended"}
  /\ app' = "exited"
  /\ UNCHANGED <<frameVars, m_running, socket>>

-----------------------------------------------------------------------------
(* recvLoop *)

Alive == app # "terminated"

RecvTest ==
  /\ Alive
  /\ recv = "test"
  /\ recv' = IF m_running THEN "read" ELSE "stop"
  /\ UNCHANGED <<mainVars, m_running, m_recvQueue, socket, held, inbound, requests,
                 serverVars, countVars>>

(* A line is there.  One that was received before may still be read after   *)
(* the socket was closed.                                                   *)
RecvLine ==
  /\ Alive
  /\ recv = "read"
  /\ inbound # <<>>
  /\ held' = Head(inbound)
  /\ inbound' = Tail(inbound)
  /\ recv' = "push"
  /\ UNCHANGED <<mainVars, m_running, m_recvQueue, socket, requests, serverVars, countVars>>

(* The server has closed, or this process has. *)
RecvError ==
  /\ Alive
  /\ recv = "read"
  /\ socket = "closed" \/ (server = "closed" /\ inbound = <<>>)
  /\ recv' = "stop"
  /\ UNCHANGED <<mainVars, m_running, m_recvQueue, socket, held, inbound, requests,
                 serverVars, countVars>>

(* Mutant: the newest message is polled first. *)
RecvPushFront ==
  /\ Alive
  /\ recv = "push"
  /\ m_recvQueue' = <<held>> \o m_recvQueue
  /\ held' = NoMessage
  /\ recv' = "test"
  /\ UNCHANGED <<mainVars, m_running, socket, inbound, requests, serverVars, countVars>>

RecvPush ==
  /\ Alive
  /\ recv = "push"
  /\ m_recvQueue' = Append(m_recvQueue, held)
  /\ held' = NoMessage
  /\ recv' = "test"
  /\ UNCHANGED <<mainVars, m_running, socket, inbound, requests, serverVars, countVars>>

RecvStop ==
  /\ Alive
  /\ recv = "stop"
  /\ m_running' = FALSE
  /\ recv' = "ended"
  /\ UNCHANGED <<mainVars, m_recvQueue, socket, held, inbound, requests, serverVars,
                 countVars>>

-----------------------------------------------------------------------------
Main ==
  \/ ConnectSucceeds \/ ConnectFails
  \/ PollUnexpected \/ PollClientId \/ PollForScene \/ PollEmpty
  \/ NoClick \/ \E id \in Uuids : LoginClick(id) \/ LoginClickThrows(id)
  \/ NextFrame \/ WindowCloses
  \/ Shutdown \/ CloseSocket \/ Join

Recv == RecvTest \/ RecvLine \/ RecvError \/ RecvPush \/ RecvStop

Peer == ServerAnswers \/ ServerRejects \/ ServerTicks \/ ServerCloses

Next == Main \/ Recv \/ Peer

(* Both threads run as long as they have something to do.  The user need     *)
(* not click or close the window, the server need not answer.                *)
Spec == Init /\ [][Next]_vars /\ WF_vars(Main) /\ WF_vars(Recv)

-----------------------------------------------------------------------------
InFlight == m_recvQueue \o (IF held = NoMessage THEN <<>> ELSE <<held>>) \o inbound

(* TakenInOrder: the main thread takes the server's messages in the order   *)
(* they were sent, each once, across the two threads and the locked queue;  *)
(* only a reset of the connection loses any, and only the last ones.        *)
TakenInOrder ==
  /\ handled + Len(InFlight) <= Len(sent)
  /\ InFlight = SubSeq(sent, handled + 1, handled + Len(InFlight))
  /\ server = "open" => handled + Len(InFlight) = Len(sent)

(* UuidStable: the account a client plays never changes, although several   *)
(* LoginRequests for several accounts can be answered before it leaves the  *)
(* login scene, each with sequence 1.                                       *)
UuidStable == [][uuid # NoUuid => uuid' = uuid]_vars

(* ShownIsOwn: the resources on the screen are those of the account the     *)
(* client plays, also while the server's session has moved on to another    *)
(* account by a second login that was in flight.                            *)
ShownIsOwn == shown # Nothing => shown.uuid = uuid

(* ClientInv: the types, and ShownIsOwn. *)
ClientInv == TypeOK /\ ShownIsOwn

(* InGameSurvives: the exception that nobody catches, of a click on Login   *)
(* when the connection is gone (sendMessage), ends the client only while it *)
(* plays no account: the poll loop that takes a LoginResult leaves the      *)
(* login scene before any button of it can be clicked again.                *)
InGameSurvives == app = "terminated" => uuid = NoUuid

(* CatchesUp: an update of the client's account that reaches a client in    *)
(* the game scene is shown, or a newer one is, or the window is closed, or  *)
(* the connection is lost: no sequence makes the client deaf for good.  It  *)
(* needs a numbering that starts with 1 and does not reach 2^32.            *)
NumberedFromOne(k) == sent[k].sequence = Cardinality({j \in UpdatesSent : j <= k})

Due(wood) ==
  /\ scene = "Game"
  /\ \E k \in UpdatesSent :
       k > handled /\ NumberedFromOne(k) /\ sent[k].uuid = uuid /\ sent[k].wood = wood

CatchesUp ==
  \A wood \in 1 .. MaxUpdates :
    Due(wood) ~> \/ shown # Nothing /\ shown.wood >= wood
                 \/ app \in {"shutdown", "close", "join", "exited"}
                 \/ server = "closed"

(* Exits: once the window is closed the process exits: the join in the      *)
(* destructor never waits for a receive thread that waits for the server,   *)
(* whichever of them clears m_running first.                                *)
Exits == app = "shutdown" ~> app = "exited"

=============================================================================
