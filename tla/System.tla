------------------------------- MODULE System -------------------------------
(***************************************************************************)
(* The whole game: the server process with its database, and a client      *)
(* process at the other end of each connection.  Of a client this has what *)
(* meets the server: the sequence filter of Application::Update, the       *)
(* scenes and the player's resources.  That its two threads hand the       *)
(* messages of the connection to the filter in order is Client's           *)
(* TakenInOrder, that no login is sent from the game its InGameSurvives,   *)
(* and that bytes become messages is Framing's TakenAsSent.                *)
(***************************************************************************)
EXTENDS Server

CONSTANT Nothing  \* a player's resources before the first update

VARIABLES
  handled,        \* client -> how many messages it has polled
  lastSeqByType,
  uuid,
  scene,          \* "Login", "Game", or "Exited"
  screen          \* what the player was shown last, with the account it came for

clientVars == <<handled, lastSeqByType, uuid, scene, screen>>
sysVars == <<vars, clientVars>>

Types == {"AssignClientId", "LoginResult", "ResourceUpdate"}

SysTypeOK ==
  /\ TypeOK
  /\ handled \in [Conns -> Nat]
  /\ \A c \in Conns : handled[c] <= Len(wire[c])
  /\ lastSeqByType \in [Conns -> [Types -> Nat]]
  /\ uuid \in [Conns -> Uuids \cup {NoUuid}]
  /\ scene \in [Conns -> {"Login", "Game", "Exited"}]
  /\ screen \in [Conns -> [uuid : Uuids, wood : Nat] \cup {Nothing}]

SysInit ==
  /\ Init
  /\ handled = [c \in Conns |-> 0]
  /\ lastSeqByType = [c \in Conns |-> [t \in Types |-> 0]]
  /\ uuid = [c \in Conns |-> NoUuid]
  /\ scene = [c \in Conns |-> "Login"]
  /\ screen = [c \in Conns |-> Nothing]

-----------------------------------------------------------------------------
(* Application::Update on the next message from the server. *)

Polled(c) == wire[c][handled[c] + 1]

Expected(c) == Polled(c).sequence = lastSeqByType[c][Polled(c).type] + 1

(* Mutant: what is remembered is the sequence to come. *)
CountedAhead(c) ==
  lastSeqByType' = [lastSeqByType EXCEPT ![c][Polled(c).type] = Polled(c).sequence + 1]

(* Mutant: one number is remembered for all types. *)
CountedTogether(c) ==
  lastSeqByType' = [lastSeqByType EXCEPT ![c] = [t \in Types |-> Polled(c).sequence]]

Counted(c) ==
  lastSeqByType' = [lastSeqByType EXCEPT ![c][Polled(c).type] = Polled(c).sequence]

(* LoginScene takes a LoginResult, GameScene an update of its account. *)
TakesLogin(c) == scene[c] = "Login" /\ Polled(c).type = "LoginResult"

(* Mutant: the update's account is not looked at. *)
TakesAnyUpdate(c) == scene[c] = "Game" /\ Polled(c).type = "ResourceUpdate"

TakesUpdate(c) ==
  /\ scene[c] = "Game"
  /\ Polled(c).type = "ResourceUpdate"
  /\ Polled(c).uuid = uuid[c]

Polls(c) ==
  /\ scene[c] # "Exited"
  /\ handled[c] < Len(wire[c])
  /\ handled' = [handled EXCEPT ![c] = @ + 1]
  /\ UNCHANGED <<vars, scene>>

PollUnexpected(c) ==
  /\ Polls(c)
  /\ ~Expected(c)
  /\ UNCHANGED <<lastSeqByType, uuid, screen>>

PollExpected(c) ==
  /\ Polls(c)
  /\ Expected(c)
  /\ Counted(c)
  /\ uuid' = IF TakesLogin(c) THEN [uuid EXCEPT ![c] = Polled(c).uuid] ELSE uuid
  /\ screen' = IF TakesUpdate(c)
               THEN [screen EXCEPT ![c] = [uuid |-> Polled(c).uuid, wood |-> Polled(c).wood]]
               ELSE screen

(* The poll loop has ended, if only because nothing more has arrived yet. *)
EntersGame(c) ==
  /\ scene[c] = "Login"
  /\ uuid[c] # NoUuid
  /\ scene' = [scene EXCEPT ![c] = "Game"]
  /\ UNCHANGED <<vars, handled, lastSeqByType, uuid, screen>>

Starts(c) == ClientConnects(c) /\ UNCHANGED clientVars

ClicksLogin(c, cred) ==
  /\ scene[c] = "Login"
  /\ uuid[c] = NoUuid
  /\ ClientSends(c, cred)
  /\ UNCHANGED clientVars

(* The window is closed, or a click on Login met a lost connection. *)
Exits(c) ==
  /\ ClientCloses(c)
  /\ scene' = [scene EXCEPT ![c] = "Exited"]
  /\ UNCHANGED <<handled, lastSeqByType, uuid, screen>>

Player(c) ==
  \/ Starts(c)
  \/ \E cred \in Credentials : ClicksLogin(c, cred)
  \/ PollUnexpected(c) \/ PollExpected(c)
  \/ EntersGame(c)
  \/ Exits(c)

ServerSteps ==
  /\ \/ \E c \in Conns : Handler(c)
     \/ onResourceTick
     \/ Death
     \/ Restart
  /\ UNCHANGED clientVars

SysNext == ServerSteps \/ \E c \in Conns : Player(c)

SysSpec == SysInit /\ [][SysNext]_sysVars

(* As for the server alone; and the frames of a client that has not exited   *)
(* go on, each with its poll loop and the choice of the scene.               *)
SysFairSpec ==
  /\ SysSpec
  /\ Fairness
  /\ \A c \in Conns :
       /\ WF_sysVars(PollUnexpected(c) \/ PollExpected(c))
       /\ WF_sysVars(EntersGame(c))

-----------------------------------------------------------------------------
(* PlaysOwnAccount: the account a client plays is one it asked for with the *)
(* account's password, through the login handler, which finds the session   *)
(* by a client id, and back through the filter, unless its id was handed    *)
(* out again or the process it was connected to has died.                   *)
PlaysOwnAccount ==
  \A c \in Conns : uuid[c] # NoUuid /\ m_clientId[c] # NoId /\ Unshared(c) =>
    \E n \in DOMAIN asked[c], u \in Users :
      /\ asked[c][n].id = u
      /\ m_accounts[u] # NoAccount
      /\ m_accounts[u].password = asked[c][n].password
      /\ m_accounts[u].uuid = uuid[c]

(* ScreenIsDurable: what a player sees is the stock of the account that is  *)
(* played, and a restart of the server finds at least that.                 *)
ScreenIsDurable ==
  \A c \in Conns : screen[c] # Nothing =>
    /\ screen[c].uuid = uuid[c]
    /\ Stock(uuid[c]) # NoAccount
    /\ Stock(uuid[c]) >= screen[c].wood

(* PlayersInv: the types, and for each player the right account and a       *)
(* screen that a restart of the server does not take back.                  *)
PlayersInv == SysTypeOK /\ PlaysOwnAccount /\ ScreenIsDurable

(* ScreenGrows: a player never sees the stock shrink, although other        *)
(* sessions are credited to the account at the same time, and the session   *)
(* may be logged in to another account behind the player's back.            *)
ScreenGrows ==
  [][\A c \in Conns : screen[c] # Nothing =>
       /\ screen'[c].uuid = screen[c].uuid
       /\ screen'[c].wood >= screen[c].wood]_sysVars

(* ScreenCatchesUp: every update of the played account that a tick sends to *)
(* a client in the game is shown, or a newer one is, or the connection is   *)
(* lost: the numbers that the server counts per client id are those that    *)
(* the client's filter waits for, also behind updates that came too early.  *)
(* It needs ids that are not handed out again.                              *)
DueOnScreen(c, wood) ==
  /\ scene[c] = "Game"
  /\ \E k \in Updates(c) : /\ k > handled[c]
                           /\ Pipeline(c)[k].uuid = uuid[c]
                           /\ Pipeline(c)[k].wood = wood

ScreenCatchesUp ==
  \A c \in Conns : \A n \in 1 .. Cardinality(Conns) * MaxTicks :
    DueOnScreen(c, n * Gain)
      ~> \/ screen[c] # Nothing /\ screen[c].wood >= n * Gain
         \/ peer[c] = "closed"

(* ClickEnters: who has clicked Login is in the game in the end, whatever   *)
(* is clicked before the answer is there (a wrong password and another      *)
(* user's name included), or the name belongs to someone with another       *)
(* password, or the connection is lost: of three messages that all have the *)
(* number 1 the filter passes the two that the login needs, and refuses the *)
(* answer to a second click.  It needs save() not to throw and ids that are *)
(* not handed out again.                                                    *)
ClickEnters ==
  \A c \in Conns, cred \in Credentials :
    asked[c] # <<>> /\ Head(asked[c]) = cred
      ~> \/ scene[c] = "Game"
         \/ m_accounts[cred.id] # NoAccount /\ m_accounts[cred.id].password # cred.password
         \/ peer[c] = "closed" \/ ~Unshared(c)
=============================================================================
