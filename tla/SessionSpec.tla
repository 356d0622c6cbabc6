---------------------------- MODULE SessionSpec -----------------------------
(***************************************************************************)
(* Session in isolation.  The program around it is cut down to what the    *)
(* session can tell: it starts the session, calls send() at any time, from *)
(* the read callback or not, and is told of disconnects.                   *)
(***************************************************************************)
EXTENDS Session

CONSTANTS
  Lines,      \* the lines clients may send; Malformed may be one of them
  MaxLines,   \* bound: lines a client sends
  MaxSends    \* bound: messages sent to one session

ASSUME BoundsAssumption == MaxLines \in Nat /\ MaxSends \in Nat

VARIABLES
  arrived,     \* history: how many lines the client sent
  sent,        \* history: how many messages were sent; the n-th one is n
  disconnects  \* history: how often m_onDisconnect was called

vars == <<sessionVars, arrived, sent, disconnects>>

TypeOK ==
  /\ SessionTypeOK(Lines, Nat)
  /\ arrived \in [Conns -> 0 .. MaxLines]
  /\ sent \in [Conns -> 0 .. MaxSends]
  /\ disconnects \in [Conns -> 0 .. 2]

Init ==
  /\ SessionInit
  /\ arrived = [c \in Conns |-> 0]
  /\ sent = [c \in Conns |-> 0]
  /\ disconnects = [c \in Conns |-> 0]

ClientConnects(c) ==
  /\ Connect(c)
  /\ UNCHANGED <<arrived, sent, disconnects>>

ClientSends(c, line) ==
  /\ arrived[c] < MaxLines
  /\ SendLine(c, line)
  /\ arrived' = [arrived EXCEPT ![c] = @ + 1]
  /\ UNCHANGED <<sent, disconnects>>

ClientCloses(c) ==
  /\ Close(c)
  /\ UNCHANGED <<arrived, sent, disconnects>>

Start(c) ==
  /\ reader[c] = "none"
  /\ peer[c] # "new"
  /\ StartReading(c)
  /\ UNCHANGED <<peer, m_incoming, posted, m_outgoing, writer, wire>>
  /\ UNCHANGED <<arrived, sent, disconnects>>

(* The owner sends: the handshake, a reply, a tick. *)
CountedSend(c) ==
  /\ sent[c] < MaxSends
  /\ SendEach(Only(c, sent[c] + 1))
  /\ sent' = [sent EXCEPT ![c] = @ + 1]

OwnerSends(c) ==
  /\ reader[c] # "none"
  /\ CountedSend(c)
  /\ UNCHANGED <<peer, m_incoming, reader, m_outgoing, writer, wire>>
  /\ UNCHANGED <<arrived, disconnects>>

HandleLine(c) ==
  /\ TakeLine(c)
  /\ Head(m_incoming[c]) # Malformed
  /\ \/ CountedSend(c)
     \/ UNCHANGED <<posted, sent>>
  /\ UNCHANGED <<arrived, disconnects>>

HandleMalformed(c) ==
  /\ TakeMalformed(c)
  /\ UNCHANGED <<arrived, sent, disconnects>>

PostedRuns(c) ==
  /\ RunPosted(c)
  /\ UNCHANGED <<arrived, sent, disconnects>>

WriteCompletes(c) ==
  /\ WriteDone(c)
  /\ UNCHANGED <<arrived, sent, disconnects>>

WriteBreaks(c) ==
  /\ WriteFail(c)
  /\ disconnects' = [disconnects EXCEPT ![c] = @ + 1]
  /\ UNCHANGED <<arrived, sent>>

ReadBreaks(c) ==
  /\ ReadEnd(c)
  /\ disconnects' = [disconnects EXCEPT ![c] = @ + 1]
  /\ UNCHANGED <<arrived, sent>>

Reads(c) == HandleLine(c) \/ HandleMalformed(c) \/ ReadBreaks(c)
Writes(c) == WriteCompletes(c) \/ WriteBreaks(c)

Next ==
  \E c \in Conns :
    \/ ClientConnects(c)
    \/ \E line \in Lines : ClientSends(c, line)
    \/ ClientCloses(c)
    \/ Start(c)
    \/ OwnerSends(c)
    \/ PostedRuns(c)
    \/ Reads(c)
    \/ Writes(c)

(* io_context::run() executes every handler that is ready, a pending read    *)
(* completes when a line or the end of the stream is there, and a pending    *)
(* write completes because the client's receive loop drains the socket until *)
(* it closes it.                                                             *)
Fairness ==
  \A c \in Conns :
    /\ WF_vars(Start(c))
    /\ WF_vars(PostedRuns(c))
    /\ WF_vars(Reads(c))
    /\ WF_vars(Writes(c))

Spec == Init /\ [][Next]_vars /\ Fairness

-----------------------------------------------------------------------------
(* SentInOrder: nothing that send() was given is lost inside the session,   *)
(* doubled or overtaken, however the posted functions, the write handlers   *)
(* and new sends interleave: what went out, then what is queued, then what  *)
(* is posted, are the messages in the order of the calls.                   *)
SentInOrder == \A c \in Conns : Pipeline(c) = [i \in 1 .. sent[c] |-> i]

(* WriteLoopAlive: a queued message has a write pending for it unless a     *)
(* write failed, and no write is pending on an empty queue (doWrite takes   *)
(* front()): the test for an empty queue in the posted function and in the  *)
(* write handler never misses a wake-up and never starts a second write.    *)
WriteLoopAlive == \A c \in Conns : m_outgoing[c] # <<>> <=> writer[c] # "idle"

(* EachSideReportsOnce: m_onDisconnect is called once by the read side and  *)
(* once by a failed write, so up to twice for one session, never more.      *)
EachSideReportsOnce ==
  \A c \in Conns :
    disconnects[c] = (IF reader[c] = "ended" THEN 1 ELSE 0)
                       + (IF writer[c] = "failed" THEN 1 ELSE 0)

(* SendsArrive: a message given to send() goes out, or the client closes.   *)
SendsArrive ==
  \A c \in Conns : Len(wire[c]) < sent[c] ~> Len(wire[c]) = sent[c] \/ peer[c] = "closed"

(* LinesAreRead: every line that arrived is taken off the stream, also the  *)
(* lines behind one that does not parse and the lines behind a failed write.*)
LinesAreRead == \A c \in Conns : m_incoming[c] # <<>> ~> m_incoming[c] = <<>>

(* ClosedIsReleased: once the client has closed, the handlers run out and   *)
(* nothing keeps the session object alive any more.                         *)
ClosedIsReleased ==
  \A c \in Conns : peer[c] = "closed" ~> reader[c] = "ended" /\ ~KeptAlive(c)

=============================================================================
