---------------------------- MODULE ClientProofs ----------------------------
(***************************************************************************)
(* Proofs about Client, for any number of accounts, of logins and of       *)
(* updates, and any numbering of them: the two threads and the queue       *)
(* between them keep the order of the messages, and the account a client   *)
(* plays, once it has one, is the one it shows and never changes.          *)
(***************************************************************************)
EXTENDS Client, TLAPS, FiniteSetTheorems, SequenceTheorems

(* The receive thread holds a message between its read and its push only,   *)
(* and there is none of it before connect(); the server cannot close a      *)
(* connection that was not made.                                            *)
ThreadInv ==
  /\ recv = "push" <=> held # NoMessage
  /\ app = "connect" => socket = "none" /\ recv = "none"
  /\ socket = "none" => server = "open"

(* The account comes from a LoginResult that was counted; the frame that    *)
(* has it is in the game before any scene is updated, and only the game     *)
(* shows resources.                                                         *)
SceneInv ==
  /\ uuid # NoUuid => lastSeqByType["LoginResult"] # 0
  /\ app = "update" /\ uuid # NoUuid => scene = "Game"
  /\ app = "terminated" => uuid = NoUuid
  /\ shown # Nothing => scene = "Game" /\ shown.uuid = uuid

CInv == TypeOK /\ ThreadInv /\ SceneInv

LEMMA InitCInv == ASSUME Init PROVE CInv
<1>1. 0 \in 0 .. SeqSpace - 1 /\ nextSeq \in 0 .. SeqSpace - 1
  BY ConstantsAssumption DEF Init
<1>2. clicks \in 0 .. MaxClicks /\ handled \in Nat
  BY ConstantsAssumption DEF Init
<1>3. lastSeqByType \in [Types -> 0 .. SeqSpace - 1]
  BY <1>1 DEF Init
<1>4. m_recvQueue \in Seq(Message) /\ inbound \in Seq(Message) /\ sent \in Seq(Message)
      /\ requests \in Seq(Uuids)
  BY DEF Init
<1>5. TypeOK
  BY <1>1, <1>2, <1>3, <1>4 DEF Init, TypeOK
<1>6. ThreadInv /\ SceneInv
  BY DEF Init, ThreadInv, SceneInv
<1> QED
  BY <1>5, <1>6 DEF CInv

-----------------------------------------------------------------------------
(* The server's end *)

LEMMA UpdatesSentFinite ==
  ASSUME TypeOK
  PROVE  IsFiniteSet(UpdatesSent) /\ Cardinality(UpdatesSent) \in Nat
<1>1. Len(sent) \in Nat
  BY DEF TypeOK
<1>2. IsFiniteSet(1 .. Len(sent))
  BY <1>1, FS_Interval
<1>3. IsFiniteSet(UpdatesSent)
  BY <1>2, FS_Subset DEF UpdatesSent
<1> QED
  BY <1>3, FS_CardinalityType

LEMMA SendsTyped ==
  ASSUME TypeOK, NEW message \in Message, ServerSends(message)
  PROVE  inbound' \in Seq(Message) /\ sent' \in Seq(Message)
BY DEF TypeOK, ServerSends

LEMMA AnswersCInv == ASSUME CInv, ServerAnswers PROVE CInv'
<1>1. Head(requests) \in Uuids /\ requests' \in Seq(Uuids)
  BY DEF CInv, TypeOK, ServerAnswers
<1>2. inbound' \in Seq(Message) /\ sent' \in Seq(Message)
  BY <1>1, SendsTyped DEF CInv, ServerAnswers, Message
<1> QED
  BY <1>1, <1>2 DEF CInv, TypeOK, ThreadInv, SceneInv, ServerAnswers, mainVars, recvVars, countVars

LEMMA RejectsCInv == ASSUME CInv, ServerRejects PROVE CInv'
<1>1. requests' \in Seq(Uuids)
  BY DEF CInv, TypeOK, ServerRejects
<1> QED
  BY <1>1 DEF CInv, TypeOK, ThreadInv, SceneInv, ServerRejects, mainVars, recvVars, countVars,
              serverVars

LEMMA TicksCInv == ASSUME CInv, ServerTicks PROVE CInv'
<1>1. Cardinality(UpdatesSent) + 1 \in 1 .. MaxUpdates /\ session \in Uuids
  BY UpdatesSentFinite, ConstantsAssumption DEF CInv, TypeOK, ServerTicks
<1>2. nextSeq \in 0 .. SeqSpace - 1 /\ nextSeq' \in 0 .. SeqSpace - 1
  BY ConstantsAssumption DEF CInv, TypeOK, ServerTicks
<1>3. [type |-> "ResourceUpdate", sequence |-> nextSeq, uuid |-> session,
       wood |-> Cardinality(UpdatesSent) + 1] \in Message
  BY <1>1, <1>2 DEF Message
<1>4. inbound' \in Seq(Message) /\ sent' \in Seq(Message)
  BY <1>3, SendsTyped DEF CInv, ServerTicks
<1> QED
  BY <1>2, <1>4 DEF CInv, TypeOK, ThreadInv, SceneInv, ServerTicks, mainVars, recvVars, countVars

(* A reset leaves the beginning of what was under way. *)
LEMMA BeginningOf ==
  ASSUME NEW S, NEW s \in Seq(S), NEW n \in 0 .. Len(s)
  PROVE  /\ SubSeq(s, 1, n) \in Seq(S)
         /\ Len(SubSeq(s, 1, n)) = n
         /\ \A k \in 1 .. n : SubSeq(s, 1, n)[k] = s[k]
BY SubSeqProperties

LEMMA ClosesCInv == ASSUME CInv, ServerCloses PROVE CInv'
<1>1. inbound' \in Seq(Message)
  BY BeginningOf DEF CInv, TypeOK, ServerCloses
<1> QED
  BY <1>1 DEF CInv, TypeOK, ThreadInv, SceneInv, ServerCloses, mainVars, recvVars, countVars

-----------------------------------------------------------------------------
(* The receive thread *)

LEMMA RecvCInv == ASSUME CInv, Recv PROVE CInv'
<1>1. CASE RecvTest \/ RecvError \/ RecvStop
  <2>1. /\ UNCHANGED <<mainVars, m_recvQueue, socket, held, inbound, requests, serverVars, countVars>>
        /\ m_running' \in BOOLEAN
        /\ recv \in {"test", "read", "stop"} /\ recv' \in {"read", "stop", "ended"}
    BY <1>1 DEF CInv, TypeOK, RecvTest, RecvError, RecvStop
  <2>2. TypeOK'
    BY <2>1 DEF CInv, TypeOK, mainVars, countVars, serverVars
  <2>3. ThreadInv'
    BY <2>1 DEF CInv, ThreadInv, mainVars, serverVars
  <2>4. SceneInv'
    BY <2>1 DEF CInv, SceneInv, mainVars
  <2> QED
    BY <2>2, <2>3, <2>4 DEF CInv
<1>2. CASE RecvLine
  <2>1. /\ held' = Head(inbound) /\ held' \in Message /\ held' # NoMessage
        /\ inbound' \in Seq(Message)
    BY <1>2, NoMessageAssumption DEF CInv, TypeOK, RecvLine
  <2> QED
    BY <1>2, <2>1 DEF CInv, TypeOK, ThreadInv, SceneInv, RecvLine, mainVars, countVars, serverVars,
                      Alive
<1>3. CASE RecvPush
  <2>1. m_recvQueue' \in Seq(Message) /\ held' = NoMessage
    BY <1>3 DEF CInv, TypeOK, ThreadInv, RecvPush
  <2> QED
    BY <1>3, <2>1 DEF CInv, TypeOK, ThreadInv, SceneInv, RecvPush, mainVars, countVars, serverVars,
                      Alive
<1> QED
  BY <1>1, <1>2, <1>3 DEF Recv

-----------------------------------------------------------------------------
(* The main thread *)

LEMMA ConnectsCInv == ASSUME CInv, ConnectSucceeds \/ ConnectFails PROVE CInv'
<1>1. CASE ConnectSucceeds
  <2>1. inbound' \in Seq(Message) /\ sent' \in Seq(Message)
    BY <1>1, SendsTyped DEF CInv, ConnectSucceeds, Message
  <2> QED
    BY <1>1, <2>1 DEF CInv, TypeOK, ThreadInv, SceneInv, ConnectSucceeds, contextVars, countVars
<1>2. CASE ConnectFails
  BY <1>2 DEF CInv, TypeOK, ThreadInv, SceneInv, ConnectFails, frameVars, contextVars,
              recvVars, countVars, serverVars
<1> QED
  BY <1>1, <1>2

(* The message that is polled, and what the filter remembers of it. *)
LEMMA PolledTyped ==
  ASSUME CInv, Polls
  PROVE  /\ Polled \in Message
         /\ Polled.type \in Types
         /\ Polled.sequence \in 0 .. SeqSpace - 1
         /\ Polled.type = "AssignClientId" => Polled.clientId = 1
         /\ Polled.type = "LoginResult" => Polled.sequence = 1 /\ Polled.uuid \in Uuids
         /\ Polled.type = "ResourceUpdate" =>
              Polled.uuid \in Uuids /\ Polled.wood \in Nat
         /\ m_recvQueue' \in Seq(Message)
         /\ handled' \in Nat
<1>1. Polled \in Message /\ m_recvQueue' \in Seq(Message) /\ handled' \in Nat
  BY DEF CInv, TypeOK, Polls, Polled
<1>2. 1 \in 0 .. SeqSpace - 1 /\ \A n \in 1 .. MaxUpdates : n \in Nat
  BY ConstantsAssumption
<1> QED
  BY <1>1, <1>2 DEF Message, Types

LEMMA CountedTyped ==
  ASSUME CInv, Polls, Counted
  PROVE  /\ lastSeqByType' \in [Types -> 0 .. SeqSpace - 1]
         /\ Polled.type = "LoginResult" => lastSeqByType'["LoginResult"] = 1
         /\ Polled.type # "LoginResult"
              => lastSeqByType'["LoginResult"] = lastSeqByType["LoginResult"]
<1>1. lastSeqByType \in [Types -> 0 .. SeqSpace - 1] /\ "LoginResult" \in Types
  BY DEF CInv, TypeOK, Types
<1> QED
  BY <1>1, PolledTyped DEF Counted

(* What the types say of the variables that polling leaves alone. *)
LEMMA PollsCInv ==
  ASSUME CInv, Polls,
         lastSeqByType' \in [Types -> 0 .. SeqSpace - 1],
         clientId' \in {0, 1},
         uuid' \in Uuids \cup {NoUuid},
         shown' \in [uuid : Uuids, wood : Nat] \cup {Nothing},
         SceneInv'
  PROVE  CInv'
BY PolledTyped DEF CInv, TypeOK, ThreadInv, Polls, recvVars, serverVars

(* A LoginResult that the filter lets through is the first. *)
LEMMA FirstResult ==
  ASSUME CInv, Polls, Expected(Polled), Polled.type = "LoginResult"
  PROVE  lastSeqByType["LoginResult"] = 0 /\ uuid = NoUuid /\ shown = Nothing
<1>1. lastSeqByType["LoginResult"] \in Nat
  BY ConstantsAssumption DEF CInv, TypeOK, Types
<1>2. lastSeqByType["LoginResult"] = 0
  BY <1>1, PolledTyped DEF Expected
<1>3. uuid = NoUuid
  BY <1>2 DEF CInv, SceneInv
<1>4. shown = Nothing
  <2>1. ASSUME shown # Nothing PROVE FALSE
    <3>1. shown.uuid = NoUuid /\ shown \in [uuid : Uuids, wood : Nat]
      BY <1>3, <2>1 DEF CInv, SceneInv, TypeOK
    <3> QED
      BY <3>1, ConstantsAssumption
  <2> QED
    BY <2>1
<1> QED
  BY <1>2, <1>3, <1>4

LEMMA PollSceneCInv == ASSUME CInv, PollForScene PROVE CInv'
<1>1. /\ Polls /\ Expected(Polled) /\ Counted /\ UNCHANGED clientId
      /\ uuid' = IF scene = "Login" /\ Polled.type = "LoginResult" THEN Polled.uuid ELSE uuid
      /\ shown' = IF /\ scene = "Game" /\ Polled.type = "ResourceUpdate"
                     /\ Polled.uuid = uuid
                  THEN [uuid |-> Polled.uuid, wood |-> Polled.wood] ELSE shown
      /\ UNCHANGED <<scene, app>> /\ app = "poll"
  BY DEF PollForScene, handleMessage, Polls
<1>2. /\ uuid \in Uuids \cup {NoUuid}
      /\ shown \in [uuid : Uuids, wood : Nat] \cup {Nothing}
      /\ clientId \in {0, 1}
  BY DEF CInv, TypeOK
<1>3. CASE scene = "Login" /\ Polled.type = "LoginResult"
  <2>1. shown = Nothing /\ shown' = shown /\ uuid' = Polled.uuid /\ uuid' \in Uuids
    BY <1>1, <1>3, FirstResult, PolledTyped
  <2>2. lastSeqByType'["LoginResult"] # 0
    BY <1>1, <1>3, CountedTyped
  <2>3. SceneInv'
    BY <1>1, <2>1, <2>2 DEF SceneInv
  <2> QED
    BY <1>1, <1>2, <2>1, <2>3, CountedTyped, PollsCInv
<1>4. CASE ~(scene = "Login" /\ Polled.type = "LoginResult")
  <2>1. uuid' = uuid
    BY <1>1, <1>4
  <2>2. uuid # NoUuid => lastSeqByType'["LoginResult"] # 0
    BY <1>1, CountedTyped DEF CInv, SceneInv
  <2>3. /\ shown' \in [uuid : Uuids, wood : Nat] \cup {Nothing}
        /\ shown' # Nothing => scene = "Game" /\ shown'.uuid = uuid
    BY <1>1, <1>2, PolledTyped DEF CInv, SceneInv
  <2>4. SceneInv'
    BY <1>1, <2>1, <2>2, <2>3 DEF SceneInv
  <2> QED
    BY <1>1, <1>2, <2>1, <2>3, <2>4, CountedTyped, PollsCInv
<1> QED
  BY <1>3, <1>4

LEMMA PollOthersCInv == ASSUME CInv, PollUnexpected \/ PollClientId PROVE CInv'
<1>1. Polls /\ app = "poll" /\ UNCHANGED <<uuid, shown, scene, app>>
  BY DEF PollUnexpected, PollClientId, Polls, contextVars
<1>2. /\ lastSeqByType' \in [Types -> 0 .. SeqSpace - 1]
      /\ clientId' \in {0, 1}
      /\ lastSeqByType'["LoginResult"] = lastSeqByType["LoginResult"]
  BY <1>1, CountedTyped, PolledTyped
  DEF PollUnexpected, PollClientId, contextVars, CInv, TypeOK
<1>3. SceneInv'
  BY <1>1, <1>2 DEF CInv, SceneInv
<1> QED
  BY <1>1, <1>2, <1>3, PollsCInv DEF CInv, TypeOK

LEMMA PollEmptyCInv == ASSUME CInv, PollEmpty PROVE CInv'
BY DEF CInv, TypeOK, ThreadInv, SceneInv, PollEmpty, contextVars, recvVars, serverVars, countVars

(* The login scene is updated only while no account is played, so a click   *)
(* whose write throws meets none.                                           *)
LEMMA ClicksCInv ==
  ASSUME CInv, NEW id \in Uuids, LoginClick(id) \/ LoginClickThrows(id)
  PROVE  CInv'
<1>1. clicks' \in 0 .. MaxClicks
  BY ConstantsAssumption DEF CInv, TypeOK, LoginClick, LoginClickThrows, LoginButton
<1>2. requests' \in Seq(Uuids)
  <2>1. requests \in Seq(Uuids)
    BY DEF CInv, TypeOK
  <2>2. requests' = Append(requests, id) \/ requests' = requests
    BY DEF LoginClick, LoginClickThrows
  <2> QED
    BY <2>1, <2>2
<1>3. uuid = NoUuid
  BY DEF CInv, SceneInv, LoginClick, LoginClickThrows, LoginButton
<1> QED
  BY <1>1, <1>2, <1>3 DEF CInv, TypeOK, ThreadInv, SceneInv, LoginClick, LoginClickThrows,
     LoginButton, contextVars, recvVars, serverVars

LEMMA FrameCInv == ASSUME CInv, NoClick \/ NextFrame \/ WindowCloses \/ Join PROVE CInv'
<1>1. CASE NoClick \/ NextFrame
  BY <1>1 DEF CInv, TypeOK, ThreadInv, SceneInv, NoClick, NextFrame, frameVars, contextVars,
              recvVars, serverVars, countVars
<1>2. CASE WindowCloses \/ Join
  BY <1>2 DEF CInv, TypeOK, ThreadInv, SceneInv, WindowCloses, Join, frameVars, contextVars,
              recvVars, serverVars, countVars
<1> QED
  BY <1>1, <1>2

LEMMA ShutdownCInv == ASSUME CInv, Shutdown \/ CloseSocket PROVE CInv'
<1>1. CASE Shutdown
  <2>1. app' \in {"close", "join"} /\ m_running' \in BOOLEAN /\ UNCHANGED <<frameVars, socket>>
    BY <1>1, Zenon DEF Shutdown
  <2> QED
    BY <2>1 DEF CInv, TypeOK, ThreadInv, SceneInv, frameVars, contextVars, recvVars,
                serverVars, countVars
<1>2. CASE CloseSocket
  BY <1>2 DEF CInv, TypeOK, ThreadInv, SceneInv, CloseSocket, frameVars, contextVars, recvVars,
              serverVars, countVars
<1> QED
  BY <1>1, <1>2

LEMMA NextCInv == ASSUME CInv, [Next]_vars PROVE CInv'
<1>1. CASE Main
  BY <1>1, ConnectsCInv, PollSceneCInv, PollOthersCInv, PollEmptyCInv, ClicksCInv, FrameCInv,
     ShutdownCInv DEF Main
<1>2. CASE Peer
  BY <1>2, AnswersCInv, RejectsCInv, TicksCInv, ClosesCInv DEF Peer
<1>3. CASE UNCHANGED vars
  BY <1>3 DEF CInv, TypeOK, ThreadInv, SceneInv, vars, mainVars, recvVars, serverVars, countVars
<1> QED
  BY <1>1, <1>2, <1>3, RecvCInv DEF Next

LEMMA CInvHolds == Spec => []CInv
BY InitCInv, NextCInv, PTL DEF Spec

(* ClientInv, for any number of logins to any accounts, in flight at once:  *)
(* the types, and the screen shows the account that is played.              *)
THEOREM ClientInvHolds == Spec => []ClientInv
<1>1. CInv => ClientInv
  BY DEF CInv, SceneInv, ClientInv, ShownIsOwn
<1> QED
  BY <1>1, CInvHolds, PTL

(* InGameSurvives: sendMessage can throw only from the login scene, and the *)
(* frame in which an account was received updates the game scene.           *)
THEOREM InGameSurvivesHolds == Spec => []InGameSurvives
<1>1. CInv => InGameSurvives
  BY DEF CInv, SceneInv, InGameSurvives
<1> QED
  BY <1>1, CInvHolds, PTL

(* UuidStable: the filter of Application::Update counts LoginResults, which *)
(* all have sequence 1, so it lets through one of them at most.             *)
THEOREM UuidStableHolds == Spec => UuidStable
<1>1. ASSUME CInv, [Next]_vars, uuid # NoUuid PROVE uuid' = uuid
  <2>1. CASE PollForScene
    <3>1. ~(Polled.type = "LoginResult")
      BY <1>1, <2>1, FirstResult DEF PollForScene
    <3> QED
      BY <2>1, <3>1 DEF PollForScene, handleMessage
  <2>2. CASE Main /\ ~PollForScene
    BY <2>2 DEF Main, ConnectSucceeds, ConnectFails, PollUnexpected, PollClientId, PollEmpty,
       NoClick, LoginClick, LoginClickThrows, LoginButton, NextFrame, WindowCloses, Shutdown,
       CloseSocket, Join, frameVars, contextVars
  <2>3. CASE Recv \/ Peer \/ UNCHANGED vars
    BY <2>3 DEF Recv, RecvTest, RecvLine, RecvError, RecvPush, RecvStop, Peer, ServerAnswers,
       ServerRejects, ServerTicks, ServerCloses, vars, mainVars
  <2> QED
    BY <1>1, <2>1, <2>2, <2>3 DEF Next
<1>2. CInv /\ [Next]_vars => [uuid # NoUuid => uuid' = uuid]_vars
  BY <1>1
<1> QED
  BY <1>2, CInvHolds, PTL DEF Spec, UuidStable

-----------------------------------------------------------------------------
(* The order of the messages *)

(* f is what follows the first n elements of s. *)
Follows(f, n, s) ==
  /\ n + Len(f) <= Len(s)
  /\ \A k \in 1 .. Len(f) : f[k] = s[n + k]

(* The elements of three sequences that are joined. *)
LEMMA ThreeJoined ==
  ASSUME NEW S, NEW x \in Seq(S), NEW y \in Seq(S), NEW z \in Seq(S)
  PROVE  /\ Len(x) \in Nat /\ Len(y) \in Nat /\ Len(z) \in Nat
         /\ x \o y \o z \in Seq(S)
         /\ Len(x \o y \o z) = Len(x) + Len(y) + Len(z)
         /\ \A k \in 1 .. Len(x) : (x \o y \o z)[k] = x[k]
         /\ \A k \in 1 .. Len(y) : (x \o y \o z)[Len(x) + k] = y[k]
         /\ \A k \in 1 .. Len(z) : (x \o y \o z)[Len(x) + Len(y) + k] = z[k]
<1>1. Len(x) \in Nat /\ Len(y) \in Nat /\ Len(z) \in Nat
  OBVIOUS
<1>2. PICK xy : xy = x \o y /\ xy \in Seq(S)
  <2>1. x \o y \in Seq(S)
    BY ConcatProperties
  <2> QED
    BY <2>1, Zenon
<1>3. /\ Len(xy) = Len(x) + Len(y)
      /\ \A k \in 1 .. Len(x) : xy[k] = x[k]
      /\ \A k \in 1 .. Len(y) : xy[Len(x) + k] = y[k]
  BY <1>1, <1>2
<1>4. /\ xy \o z \in Seq(S)
      /\ Len(xy \o z) = Len(xy) + Len(z)
      /\ \A k \in 1 .. Len(xy) : (xy \o z)[k] = xy[k]
      /\ \A k \in 1 .. Len(z) : (xy \o z)[Len(xy) + k] = z[k]
  BY <1>1, <1>2
<1>5. \A k \in 1 .. Len(x) : k \in 1 .. Len(xy)
  BY <1>1, <1>3
<1>6. \A k \in 1 .. Len(y) : Len(x) + k \in 1 .. Len(xy)
  BY <1>1, <1>3
<1> QED
  BY <1>1, <1>2, <1>3, <1>4, <1>5, <1>6

(* The poll loop takes the first. *)
LEMMA FollowsPolled ==
  ASSUME NEW S, NEW x \in Seq(S), NEW y \in Seq(S), NEW z \in Seq(S), x # <<>>,
         NEW n \in Nat, NEW s \in Seq(S), Follows(x \o y \o z, n, s)
  PROVE  /\ Follows(Tail(x) \o y \o z, n + 1, s)
         /\ (n + 1) + Len(Tail(x) \o y \o z) = n + Len(x \o y \o z)
<1>1. PICK t : /\ t = Tail(x) /\ t \in Seq(S) /\ Len(x) = Len(t) + 1
               /\ \A i \in 1 .. Len(t) : t[i] = x[i + 1]
  <2>1. /\ Tail(x) \in Seq(S) /\ Len(Tail(x)) = Len(x) - 1
        /\ \A i \in 1 .. Len(Tail(x)) : Tail(x)[i] = x[i + 1]
    BY HeadTailProperties
  <2>2. Len(x) \in Nat
    OBVIOUS
  <2>3. Len(x) = Len(Tail(x)) + 1
    BY <2>1, <2>2
  <2> QED
    BY <2>1, <2>3, Zenon
<1>2. PICK f, g : f = x \o y \o z /\ g = t \o y \o z
  OBVIOUS
<1>3. /\ Len(t) \in Nat /\ Len(y) \in Nat /\ Len(z) \in Nat
      /\ Len(g) = Len(t) + Len(y) + Len(z)
      /\ \A k \in 1 .. Len(t) : g[k] = t[k]
      /\ \A k \in 1 .. Len(y) : g[Len(t) + k] = y[k]
      /\ \A k \in 1 .. Len(z) : g[Len(t) + Len(y) + k] = z[k]
  <2>1. t \in Seq(S)
    BY <1>1
  <2>2. /\ Len(t) \in Nat /\ Len(y) \in Nat /\ Len(z) \in Nat
        /\ Len(t \o y \o z) = Len(t) + Len(y) + Len(z)
        /\ \A k \in 1 .. Len(t) : (t \o y \o z)[k] = t[k]
        /\ \A k \in 1 .. Len(y) : (t \o y \o z)[Len(t) + k] = y[k]
        /\ \A k \in 1 .. Len(z) : (t \o y \o z)[Len(t) + Len(y) + k] = z[k]
    BY <2>1, ThreeJoined
  <2> QED
    BY <1>2, <2>2, Zenon
<1>4. /\ Len(f) = Len(t) + 1 + Len(y) + Len(z)
      /\ \A k \in 1 .. Len(t) + 1 : f[k] = x[k]
      /\ \A k \in 1 .. Len(y) : f[Len(t) + 1 + k] = y[k]
      /\ \A k \in 1 .. Len(z) : f[Len(t) + 1 + Len(y) + k] = z[k]
  <2>1. /\ Len(x \o y \o z) = Len(x) + Len(y) + Len(z)
        /\ \A k \in 1 .. Len(x) : (x \o y \o z)[k] = x[k]
        /\ \A k \in 1 .. Len(y) : (x \o y \o z)[Len(x) + k] = y[k]
        /\ \A k \in 1 .. Len(z) : (x \o y \o z)[Len(x) + Len(y) + k] = z[k]
    BY ThreeJoined
  <2>2. Len(x) = Len(t) + 1 /\ f = x \o y \o z
    BY <1>1, <1>2
  <2> QED
    BY <2>1, <2>2, Zenon
<1>5. ASSUME NEW k \in 1 .. Len(g) PROVE g[k] = f[k + 1]
  <2>1. CASE k \in 1 .. Len(t)
    BY <1>1, <1>3, <1>4, <2>1
  <2>2. ASSUME NEW j \in 1 .. Len(y), k = Len(t) + j PROVE g[k] = f[k + 1]
    <3>1. k + 1 = Len(t) + 1 + j
      BY <1>3, <2>2
    <3> QED
      BY <1>3, <1>4, <2>2, <3>1
  <2>3. ASSUME NEW j \in 1 .. Len(z), k = Len(t) + Len(y) + j PROVE g[k] = f[k + 1]
    <3>1. k + 1 = Len(t) + 1 + Len(y) + j
      BY <1>3, <2>3
    <3> QED
      BY <1>3, <1>4, <2>3, <3>1
  <2>4. \/ k \in 1 .. Len(t)
        \/ \E j \in 1 .. Len(y) : k = Len(t) + j
        \/ \E j \in 1 .. Len(z) : k = Len(t) + Len(y) + j
    <3>1. /\ Len(t) \in Nat /\ Len(y) \in Nat /\ Len(z) \in Nat
          /\ k \in 1 .. Len(t) + Len(y) + Len(z)
      BY <1>3
    <3>2. CASE k > Len(t) /\ k <= Len(t) + Len(y)
      <4>1. k - Len(t) \in 1 .. Len(y) /\ k = Len(t) + (k - Len(t))
        BY <3>1, <3>2
      <4> QED
        BY <4>1
    <3>3. CASE k > Len(t) + Len(y)
      <4>1. /\ k - Len(t) - Len(y) \in 1 .. Len(z)
            /\ k = Len(t) + Len(y) + (k - Len(t) - Len(y))
        BY <3>1, <3>3
      <4> QED
        BY <4>1
    <3> QED
      BY <3>1, <3>2, <3>3
  <2> QED
    BY <2>1, <2>2, <2>3, <2>4
<1>6. Len(f) = Len(g) + 1 /\ Len(g) \in Nat
  BY <1>3, <1>4
<1>7. n + Len(f) <= Len(s) /\ \A k \in 1 .. Len(f) : f[k] = s[n + k]
  BY <1>2 DEF Follows
<1>8. ASSUME NEW k \in 1 .. Len(g) PROVE g[k] = s[(n + 1) + k]
  <2>1. k + 1 \in 1 .. Len(f) /\ n + (k + 1) = (n + 1) + k
    BY <1>6
  <2> QED
    BY <1>5, <1>7, <2>1
<1>9. (n + 1) + Len(g) = n + Len(f) /\ (n + 1) + Len(g) <= Len(s)
  BY <1>6, <1>7
<1>10. Follows(g, n + 1, s)
  BY <1>8, <1>9 DEF Follows
<1> QED
  BY <1>1, <1>2, <1>9, <1>10

(* The receive thread takes the first line into its hands. *)
LEMMA SameRead ==
  ASSUME NEW S, NEW x \in Seq(S), NEW z \in Seq(S), z # <<>>
  PROVE  x \o <<Head(z)>> \o Tail(z) = x \o <<>> \o z
<1>1. PICK e, t : e = Head(z) /\ t = Tail(z) /\ e \in S /\ t \in Seq(S) /\ z = <<e>> \o t
  <2>1. Head(z) \in S /\ Tail(z) \in Seq(S) /\ z = <<Head(z)>> \o Tail(z)
    OBVIOUS
  <2> QED
    BY <2>1, Zenon
<1>2. PICK one : one = <<e>> /\ one \in Seq(S)
  <2>1. <<e>> \in Seq(S)
    BY <1>1
  <2> QED
    BY <2>1, Zenon
<1>3. x \o one \o t = x \o (one \o t)
  BY <1>1, <1>2, ConcatAssociative
<1>4. x \o <<>> = x
  OBVIOUS
<1> QED
  BY <1>1, <1>2, <1>3, <1>4, Zenon

(* It pushes what it held to the queue. *)
LEMMA SamePushed ==
  ASSUME NEW S, NEW x \in Seq(S), NEW z \in Seq(S), NEW e \in S
  PROVE  Append(x, e) \o <<>> \o z = x \o <<e>> \o z
<1>1. Append(x, e) = x \o <<e>> /\ Append(x, e) \in Seq(S)
  BY AppendIsConcat, AppendProperties
<1>2. Append(x, e) \o <<>> = Append(x, e)
  BY <1>1
<1> QED
  BY <1>1, <1>2, Zenon

(* The server sends one more. *)
LEMMA FollowsSent ==
  ASSUME NEW S, NEW x \in Seq(S), NEW y \in Seq(S), NEW z \in Seq(S), NEW e \in S,
         NEW n \in Nat, NEW s \in Seq(S), Follows(x \o y \o z, n, s),
         n + Len(x \o y \o z) = Len(s)
  PROVE  /\ Follows(x \o y \o Append(z, e), n, Append(s, e))
         /\ n + Len(x \o y \o Append(z, e)) = Len(Append(s, e))
<1>1. PICK f, m : f = x \o y \o z /\ m = Len(f)
  OBVIOUS
<1>2. f \in Seq(S) /\ m \in Nat
  BY <1>1, ThreeJoined
<1>3. x \o y \o Append(z, e) = Append(f, e)
  <2>1. x \o y \in Seq(S)
    BY ConcatProperties
  <2>2. \A w \in Seq(S) : w \o Append(z, e) = Append(w \o z, e)
    OBVIOUS
  <2> QED
    BY <1>1, <2>1, <2>2, Zenon
<1>4. /\ Len(Append(f, e)) = m + 1
      /\ \A i \in 1 .. m : Append(f, e)[i] = f[i]
      /\ Append(f, e)[m + 1] = e
  BY <1>1, <1>2, AppendProperties
<1>5. /\ Len(s) = n + m /\ Len(Append(s, e)) = n + m + 1
      /\ \A i \in 1 .. n + m : Append(s, e)[i] = s[i]
      /\ Append(s, e)[n + m + 1] = e
  <2>1. Len(s) = n + m /\ n + m \in Nat
    BY <1>1, <1>2
  <2>2. /\ Len(Append(s, e)) = Len(s) + 1
        /\ \A i \in 1 .. Len(s) : Append(s, e)[i] = s[i]
        /\ Append(s, e)[Len(s) + 1] = e
    BY AppendProperties
  <2> QED
    BY <2>1, <2>2
<1>6. \A k \in 1 .. m : f[k] = s[n + k]
  BY <1>1 DEF Follows
<1>7. ASSUME NEW k \in 1 .. m + 1 PROVE Append(f, e)[k] = Append(s, e)[n + k]
  <2>1. CASE k = m + 1
    <3>1. n + k = n + m + 1
      BY <1>2, <2>1
    <3> QED
      BY <1>4, <1>5, <2>1, <3>1
  <2>2. CASE k # m + 1
    <3>1. k \in 1 .. m /\ n + k \in 1 .. n + m
      BY <1>2, <2>2
    <3> QED
      BY <1>4, <1>5, <1>6, <3>1
  <2> QED
    BY <2>1, <2>2
<1>8. n + (m + 1) = n + m + 1
  BY <1>2
<1>9. Follows(Append(f, e), n, Append(s, e)) /\ n + Len(Append(f, e)) = Len(Append(s, e))
  <2>1. n + (m + 1) <= n + m + 1
    BY <1>2
  <2> QED
    BY <1>4, <1>5, <1>7, <1>8, <2>1 DEF Follows
<1> QED
  BY <1>3, <1>9

(* A reset loses the last ones. *)
LEMMA FollowsLost ==
  ASSUME NEW S, NEW x \in Seq(S), NEW y \in Seq(S), NEW z \in Seq(S), NEW m \in 0 .. Len(z),
         NEW n \in Nat, NEW s \in Seq(S), Follows(x \o y \o z, n, s)
  PROVE  Follows(x \o y \o SubSeq(z, 1, m), n, s)
<1>1. PICK w : /\ w = SubSeq(z, 1, m) /\ w \in Seq(S) /\ Len(w) = m
               /\ \A k \in 1 .. m : w[k] = z[k]
  BY BeginningOf
<1>2. PICK f, g : f = x \o y \o z /\ g = x \o y \o w
  OBVIOUS
<1>3. /\ Len(x) \in Nat /\ Len(y) \in Nat /\ Len(z) \in Nat
      /\ Len(f) = Len(x) + Len(y) + Len(z)
      /\ \A k \in 1 .. Len(x) : f[k] = x[k]
      /\ \A k \in 1 .. Len(y) : f[Len(x) + k] = y[k]
      /\ \A k \in 1 .. Len(z) : f[Len(x) + Len(y) + k] = z[k]
  <2>1. /\ Len(x) \in Nat /\ Len(y) \in Nat /\ Len(z) \in Nat
        /\ Len(x \o y \o z) = Len(x) + Len(y) + Len(z)
        /\ \A k \in 1 .. Len(x) : (x \o y \o z)[k] = x[k]
        /\ \A k \in 1 .. Len(y) : (x \o y \o z)[Len(x) + k] = y[k]
        /\ \A k \in 1 .. Len(z) : (x \o y \o z)[Len(x) + Len(y) + k] = z[k]
    BY ThreeJoined
  <2> QED
    BY <1>2, <2>1, Zenon
<1>4. /\ Len(g) = Len(x) + Len(y) + m
      /\ \A k \in 1 .. Len(x) : g[k] = x[k]
      /\ \A k \in 1 .. Len(y) : g[Len(x) + k] = y[k]
      /\ \A k \in 1 .. m : g[Len(x) + Len(y) + k] = w[k]
  <2>1. w \in Seq(S)
    BY <1>1
  <2>2. /\ Len(x \o y \o w) = Len(x) + Len(y) + Len(w)
        /\ \A k \in 1 .. Len(x) : (x \o y \o w)[k] = x[k]
        /\ \A k \in 1 .. Len(y) : (x \o y \o w)[Len(x) + k] = y[k]
        /\ \A k \in 1 .. Len(w) : (x \o y \o w)[Len(x) + Len(y) + k] = w[k]
    BY SMTT(30), <2>1, ThreeJoined
  <2>3. Len(w) = m /\ g = x \o y \o w
    BY <1>1, <1>2
  <2> QED
    BY <2>2, <2>3, Zenon
<1>5. ASSUME NEW k \in 1 .. Len(g) PROVE g[k] = f[k]
  <2>1. \A j \in 1 .. m : j \in 1 .. Len(z)
    BY <1>3
  <2>2. m \in Nat
    BY <1>3
  <2>3. \/ k \in 1 .. Len(x)
        \/ \E j \in 1 .. Len(y) : k = Len(x) + j
        \/ \E j \in 1 .. m : k = Len(x) + Len(y) + j
    <3>1. /\ Len(x) \in Nat /\ Len(y) \in Nat /\ m \in Nat
          /\ k \in 1 .. Len(x) + Len(y) + m
      BY <1>3, <1>4, <2>2
    <3>2. CASE k > Len(x) /\ k <= Len(x) + Len(y)
      <4>1. k - Len(x) \in 1 .. Len(y) /\ k = Len(x) + (k - Len(x))
        BY <3>1, <3>2
      <4> QED
        BY <4>1
    <3>3. CASE k > Len(x) + Len(y)
      <4>1. /\ k - Len(x) - Len(y) \in 1 .. m
            /\ k = Len(x) + Len(y) + (k - Len(x) - Len(y))
        BY <3>1, <3>3
      <4> QED
        BY <4>1
    <3> QED
      BY <3>1, <3>2, <3>3
  <2>4. CASE k \in 1 .. Len(x)
    BY <1>3, <1>4, <2>4
  <2>5. ASSUME NEW j \in 1 .. Len(y), k = Len(x) + j PROVE g[k] = f[k]
    BY <1>3, <1>4, <2>5
  <2>6. ASSUME NEW j \in 1 .. m, k = Len(x) + Len(y) + j PROVE g[k] = f[k]
    BY <1>1, <1>3, <1>4, <2>1, <2>6
  <2> QED
    BY <2>3, <2>4, <2>5, <2>6
<1>6. n + Len(f) <= Len(s) /\ \A k \in 1 .. Len(f) : f[k] = s[n + k]
  BY <1>2 DEF Follows
<1>7. Len(g) <= Len(f) /\ n + Len(g) <= Len(s) /\ \A k \in 1 .. Len(g) : k \in 1 .. Len(f)
  BY <1>3, <1>4, <1>6
<1>8. Follows(g, n, s)
  BY <1>5, <1>6, <1>7 DEF Follows
<1> QED
  BY <1>1, <1>2, <1>8

(* What the receive thread has read and not pushed yet. *)
InHands == IF held = NoMessage THEN <<>> ELSE <<held>>

(* TakenInOrder, element by element. *)
FlightInv ==
  /\ Follows(InFlight, handled, sent)
  /\ server = "open" => handled + Len(InFlight) = Len(sent)

LEMMA FlightTyped ==
  ASSUME TypeOK
  PROVE  /\ m_recvQueue \in Seq(Message) /\ InHands \in Seq(Message) /\ inbound \in Seq(Message)
         /\ InFlight = m_recvQueue \o InHands \o inbound
         /\ InFlight \in Seq(Message) /\ sent \in Seq(Message) /\ handled \in Nat
<1>1. /\ m_recvQueue \in Seq(Message) /\ inbound \in Seq(Message)
      /\ sent \in Seq(Message) /\ handled \in Nat
  BY DEF TypeOK
<1>2. InHands \in Seq(Message)
  BY DEF TypeOK, InHands
<1>3. InFlight = m_recvQueue \o InHands \o inbound
  BY DEF InFlight, InHands
<1> QED
  BY <1>1, <1>2, <1>3, ThreeJoined

(* A step that leaves what is under way, in order, where it was. *)
LEMMA SameFlight ==
  ASSUME FlightInv, InFlight' = InFlight, UNCHANGED <<handled, sent>>,
         server' = "open" => server = "open"
  PROVE  FlightInv'
BY DEF FlightInv, Follows

LEMMA SendsInOrder ==
  ASSUME TypeOK, FlightInv, NEW message \in Message, ServerSends(message), server = "open",
         UNCHANGED <<m_recvQueue, held, handled>>
  PROVE  FlightInv'
<1>1. PICK x, y, z, n, s : /\ x = m_recvQueue /\ y = InHands /\ z = inbound
                           /\ n = handled /\ s = sent
  OBVIOUS
<1>2. /\ x \in Seq(Message) /\ y \in Seq(Message) /\ z \in Seq(Message)
      /\ n \in Nat /\ s \in Seq(Message)
      /\ InFlight = x \o y \o z
  BY <1>1, FlightTyped
<1>3. Follows(x \o y \o z, n, s) /\ n + Len(x \o y \o z) = Len(s)
  BY <1>1, <1>2 DEF FlightInv
<1>4. /\ Follows(x \o y \o Append(z, message), n, Append(s, message))
      /\ n + Len(x \o y \o Append(z, message)) = Len(Append(s, message))
  BY <1>2, <1>3, FollowsSent
<1>5. InFlight' = x \o y \o Append(z, message)
  BY <1>1 DEF InFlight, InHands, ServerSends
<1>6. handled' = n /\ sent' = Append(s, message)
  BY <1>1 DEF ServerSends
<1> QED
  BY <1>4, <1>5, <1>6 DEF FlightInv

LEMMA PollsInOrder == ASSUME TypeOK, FlightInv, Polls PROVE FlightInv'
<1>1. PICK x, y, z, n, s : /\ x = m_recvQueue /\ y = InHands /\ z = inbound
                           /\ n = handled /\ s = sent
  OBVIOUS
<1>2. /\ x \in Seq(Message) /\ y \in Seq(Message) /\ z \in Seq(Message) /\ x # <<>>
      /\ n \in Nat /\ s \in Seq(Message)
      /\ InFlight = x \o y \o z
  BY <1>1, FlightTyped DEF Polls
<1>3. Follows(x \o y \o z, n, s)
  BY <1>1, <1>2 DEF FlightInv
<1>4. /\ Follows(Tail(x) \o y \o z, n + 1, s)
      /\ (n + 1) + Len(Tail(x) \o y \o z) = n + Len(x \o y \o z)
  BY <1>2, <1>3, FollowsPolled
<1>5. InFlight' = Tail(x) \o y \o z
  BY <1>1 DEF InFlight, InHands, Polls, recvVars
<1>6. handled' = n + 1 /\ sent' = s /\ server' = server
  BY <1>1 DEF Polls, serverVars
<1>7. server = "open" => n + Len(x \o y \o z) = Len(s)
  BY <1>1, <1>2 DEF FlightInv
<1> QED
  BY <1>4, <1>5, <1>6, <1>7 DEF FlightInv

LEMMA ClosesInOrder == ASSUME TypeOK, FlightInv, ServerCloses PROVE FlightInv'
<1>1. PICK x, y, z, n, s : /\ x = m_recvQueue /\ y = InHands /\ z = inbound
                           /\ n = handled /\ s = sent
  OBVIOUS
<1>2. /\ x \in Seq(Message) /\ y \in Seq(Message) /\ z \in Seq(Message)
      /\ n \in Nat /\ s \in Seq(Message)
      /\ InFlight = x \o y \o z
  BY <1>1, FlightTyped
<1>3. Follows(x \o y \o z, n, s)
  BY <1>1, <1>2 DEF FlightInv
<1>4. PICK m \in 0 .. Len(z) : inbound' = SubSeq(z, 1, m)
  BY <1>1 DEF ServerCloses
<1>5. Follows(x \o y \o SubSeq(z, 1, m), n, s)
  BY <1>2, <1>3, FollowsLost
<1>6. InFlight' = x \o y \o SubSeq(z, 1, m)
  BY <1>1, <1>4 DEF InFlight, InHands, ServerCloses, recvVars
<1>7. handled' = n /\ sent' = s /\ server' = "closed"
  BY <1>1 DEF ServerCloses, countVars
<1> QED
  BY <1>5, <1>6, <1>7 DEF FlightInv

LEMMA ReadsInOrder == ASSUME CInv, FlightInv, RecvLine PROVE FlightInv'
<1>1. PICK x, z : x = m_recvQueue /\ z = inbound
  OBVIOUS
<1>2. x \in Seq(Message) /\ z \in Seq(Message) /\ z # <<>>
  BY <1>1 DEF CInv, TypeOK, RecvLine
<1>3. Head(z) \in Message /\ Head(z) # NoMessage
  BY <1>2, NoMessageAssumption
<1>4. InFlight = x \o <<>> \o z
  BY <1>1 DEF CInv, ThreadInv, RecvLine, InFlight
<1>5. InFlight' = x \o <<Head(z)>> \o Tail(z)
  BY <1>1, <1>3 DEF RecvLine, InFlight
<1>6. InFlight' = InFlight
  BY <1>2, <1>4, <1>5, SameRead
<1> QED
  BY <1>6, SameFlight DEF RecvLine, countVars, serverVars

LEMMA PushesInOrder == ASSUME CInv, FlightInv, RecvPush PROVE FlightInv'
<1>1. PICK x, z, e : x = m_recvQueue /\ z = inbound /\ e = held
  OBVIOUS
<1>2. x \in Seq(Message) /\ z \in Seq(Message) /\ e # NoMessage /\ e \in Message
  BY <1>1 DEF CInv, TypeOK, ThreadInv, RecvPush
<1>3. InFlight = x \o <<e>> \o z
  BY <1>1, <1>2 DEF InFlight
<1>4. InFlight' = Append(x, e) \o <<>> \o z
  BY <1>1 DEF RecvPush, InFlight
<1>5. InFlight' = InFlight
  BY <1>2, <1>3, <1>4, SamePushed
<1> QED
  BY <1>5, SameFlight DEF RecvPush, countVars, serverVars

LEMMA NextFlight == ASSUME CInv, FlightInv, [Next]_vars PROVE FlightInv'
<1>0. TypeOK
  BY DEF CInv
<1>1. CASE ConnectSucceeds
  <2>1. server = "open"
    BY <1>1 DEF CInv, ThreadInv, ConnectSucceeds
  <2>2. [type |-> "AssignClientId", sequence |-> 1, clientId |-> 1] \in Message
    BY DEF Message
  <2> QED
    BY <1>0, <1>1, <2>1, <2>2, SendsInOrder DEF ConnectSucceeds, countVars
<1>2. CASE ServerAnswers
  <2>1. [type |-> "LoginResult", sequence |-> 1, uuid |-> Head(requests)] \in Message
    BY <1>0, <1>2 DEF TypeOK, ServerAnswers, Message
  <2> QED
    BY <1>0, <1>2, <2>1, SendsInOrder DEF ServerAnswers, countVars, recvVars
<1>3. CASE ServerTicks
  <2>1. Cardinality(UpdatesSent) + 1 \in 1 .. MaxUpdates /\ session \in Uuids
    BY <1>0, <1>3, UpdatesSentFinite, ConstantsAssumption DEF TypeOK, ServerTicks
  <2>2. [type |-> "ResourceUpdate", sequence |-> nextSeq, uuid |-> session,
         wood |-> Cardinality(UpdatesSent) + 1] \in Message
    BY <1>0, <2>1 DEF TypeOK, Message
  <2> QED
    BY <1>0, <1>3, <2>2, SendsInOrder DEF ServerTicks, countVars, recvVars
<1>4. CASE ServerCloses
  BY <1>0, <1>4, ClosesInOrder
<1>5. CASE PollUnexpected \/ PollClientId \/ PollForScene
  BY <1>0, <1>5, PollsInOrder DEF PollUnexpected, PollClientId, PollForScene
<1>6. CASE RecvLine \/ RecvPush
  BY <1>6, ReadsInOrder, PushesInOrder
<1>7. CASE ServerRejects \/ RecvTest \/ RecvError \/ RecvStop \/ UNCHANGED vars
  <2>1. UNCHANGED <<m_recvQueue, held, inbound, handled, sent, server>>
    BY <1>7 DEF ServerRejects, RecvTest, RecvError, RecvStop, vars, recvVars, serverVars, countVars
  <2> QED
    BY <2>1, SameFlight DEF InFlight
<1>8. CASE \/ ConnectFails \/ PollEmpty \/ NoClick \/ NextFrame \/ WindowCloses
           \/ Shutdown \/ CloseSocket \/ Join
           \/ \E id \in Uuids : LoginClick(id) \/ LoginClickThrows(id)
  <2>1. UNCHANGED <<m_recvQueue, held, inbound, handled, sent, server>>
    BY <1>8 DEF ConnectFails, PollEmpty, NoClick, NextFrame, WindowCloses, Shutdown, CloseSocket,
       Join, LoginClick, LoginClickThrows, LoginButton, frameVars, recvVars, serverVars, countVars
  <2> QED
    BY <2>1, SameFlight DEF InFlight
<1> QED
  BY <1>1, <1>2, <1>3, <1>4, <1>5, <1>6, <1>7, <1>8 DEF Next, Main, Recv, Peer

LEMMA FlightInvHolds == Spec => [](CInv /\ FlightInv)
<1>1. Init => FlightInv
  <2>1. ASSUME Init PROVE InFlight = <<>> /\ handled = 0 /\ sent = <<>>
    <3>1. <<>> \o <<>> = <<>>
      OBVIOUS
    <3> QED
      BY <2>1, <3>1 DEF Init, InFlight
  <2> QED
    BY <2>1 DEF FlightInv, Follows
<1> QED
  BY <1>1, NextFlight, CInvHolds, PTL DEF Spec

(* TakenInOrder, for any number of messages and accounts, between the two   *)
(* threads: what the client has not taken yet is what the server sent after *)
(* what it has taken, and all of it unless the connection was reset.        *)
THEOREM TakenInOrderHolds == Spec => []TakenInOrder
<1>1. ASSUME CInv, FlightInv PROVE TakenInOrder
  <2>1. PICK f, n, s : f = InFlight /\ n = handled /\ s = sent
    OBVIOUS
  <2>2. f \in Seq(Message) /\ s \in Seq(Message) /\ n \in Nat /\ Len(f) \in Nat
    BY <1>1, <2>1, FlightTyped DEF CInv
  <2>3. n + Len(f) <= Len(s) /\ \A k \in 1 .. Len(f) : f[k] = s[n + k]
    BY <1>1, <2>1 DEF FlightInv, Follows
  <2>4. /\ SubSeq(s, n + 1, n + Len(f)) \in Seq(Message)
        /\ Len(SubSeq(s, n + 1, n + Len(f))) = Len(f)
        /\ \A k \in 1 .. Len(f) : SubSeq(s, n + 1, n + Len(f))[k] = s[n + k]
    <3>1. \A k \in n + 1 .. n + Len(f) : k \in 1 .. Len(s)
      BY <2>2, <2>3
    <3>2. \A k \in n + 1 .. n + Len(f) : s[k] \in Message
      BY <2>2, <3>1, ElementOfSeq
    <3> QED
      BY <2>2, <3>2
  <2>5. f = SubSeq(s, n + 1, n + Len(f))
    BY <2>2, <2>3, <2>4, SeqEqual
  <2> QED
    BY <1>1, <2>1, <2>3, <2>5 DEF TakenInOrder, FlightInv
<1> QED
  BY <1>1, FlightInvHolds, PTL

=============================================================================
