------------------------------ MODULE Session -------------------------------
(***************************************************************************)
(* The server's end of a connection: class Session of Session.cpp, for     *)
(* every connection at once.  A session is two chains of asynchronous      *)
(* operations on one strand: a read loop (doRead and its handler) and a    *)
(* write loop (doWrite and its handler) fed by send() through a posted     *)
(* function.  This module has the state and the operations; what the       *)
(* callbacks m_onMessage and m_onDisconnect do is conjoined by the modules *)
(* that extend it (SessionSpec in isolation, Server in the real program).  *)
(***************************************************************************)
EXTENDS Naturals, Sequences

CONSTANTS
  Conns,      \* the connections that are ever made; each is used once
  Malformed   \* a line that Protocol::Message::parse throws on

VARIABLES
  peer,       \* the client's end: "new", "open", or "closed"
  m_incoming, \* complete lines that arrived and were not handled yet
  reader,     \* "none" before start(), "armed" while a read is pending, "ended"
  posted,     \* messages of the functions that send() posted, not yet run
  m_outgoing, \* the write queue; its head is being written
  writer,     \* "idle", "busy" while a write is pending, "failed" after an error
  wire        \* history: the messages that went out on the connection

sessionVars == <<peer, m_incoming, reader, posted, m_outgoing, writer, wire>>

SessionTypeOK(Line, Message) ==
  /\ peer \in [Conns -> {"new", "open", "closed"}]
  /\ m_incoming \in [Conns -> Seq(Line)]
  /\ reader \in [Conns -> {"none", "armed", "ended"}]
  /\ posted \in [Conns -> Seq(Message)]
  /\ m_outgoing \in [Conns -> Seq(Message)]
  /\ writer \in [Conns -> {"idle", "busy", "failed"}]
  /\ wire \in [Conns -> Seq(Message)]

SessionInit ==
  /\ peer = [c \in Conns |-> "new"]
  /\ m_incoming = [c \in Conns |-> <<>>]
  /\ reader = [c \in Conns |-> "none"]
  /\ posted = [c \in Conns |-> <<>>]
  /\ m_outgoing = [c \in Conns |-> <<>>]
  /\ writer = [c \in Conns |-> "idle"]
  /\ wire = [c \in Conns |-> <<>>]

(* Everything that send() was given for c, in the order of the calls. *)
Pipeline(c) == wire[c] \o m_outgoing[c] \o posted[c]

(* A handler that captured self is outstanding: the object stays alive even *)
(* when the server has dropped its pointer.                                 *)
KeptAlive(c) == reader[c] = "armed" \/ posted[c] # <<>> \/ writer[c] = "busy"

-----------------------------------------------------------------------------
(* The client's end of the socket. *)

Connect(c) ==
  /\ peer[c] = "new"
  /\ peer' = [peer EXCEPT ![c] = "open"]
  /\ UNCHANGED <<m_incoming, reader, posted, m_outgoing, writer, wire>>

SendLine(c, line) ==
  /\ peer[c] = "open"
  /\ m_incoming' = [m_incoming EXCEPT ![c] = Append(@, line)]
  /\ UNCHANGED <<peer, reader, posted, m_outgoing, writer, wire>>

(* A close that resets the connection discards lines not yet received. *)
Close(c) ==
  /\ peer[c] = "open"
  /\ peer' = [peer EXCEPT ![c] = "closed"]
  /\ \E n \in 0 .. Len(m_incoming[c]) :
       m_incoming' = [m_incoming EXCEPT ![c] = SubSeq(@, 1, n)]
  /\ UNCHANGED <<reader, posted, m_outgoing, writer, wire>>

-----------------------------------------------------------------------------
(* send(), for a handler that sends batch[c] to each session c. *)

SendEach(batch) == posted' = [c \in Conns |-> posted[c] \o batch[c]]

Only(c, message) == [x \in Conns |-> IF x = c THEN <<message>> ELSE <<>>]

(* start(): the first doRead(). *)
StartReading(c) == reader' = [reader EXCEPT ![c] = "armed"]

(* Mutant: nobody starts the write loop for the first message. *)
RunPostedNoKick(c) ==
  /\ posted[c] # <<>>
  /\ m_outgoing' = [m_outgoing EXCEPT ![c] = Append(@, Head(posted[c]))]
  /\ posted' = [posted EXCEPT ![c] = Tail(@)]
  /\ UNCHANGED <<peer, m_incoming, reader, writer, wire>>

(* The posted function: queue the text, start writing if nothing was queued. *)
RunPosted(c) ==
  /\ posted[c] # <<>>
  /\ m_outgoing' = [m_outgoing EXCEPT ![c] = Append(@, Head(posted[c]))]
  /\ posted' = [posted EXCEPT ![c] = Tail(@)]
  /\ writer' = IF m_outgoing[c] = <<>> THEN [writer EXCEPT ![c] = "busy"] ELSE writer
  /\ UNCHANGED <<peer, m_incoming, reader, wire>>

(* Mutant: the handler pops the message and does not look for the next one. *)
WriteDoneOnce(c) ==
  /\ writer[c] = "busy"
  /\ wire' = [wire EXCEPT ![c] = Append(@, Head(m_outgoing[c]))]
  /\ m_outgoing' = [m_outgoing EXCEPT ![c] = Tail(@)]
  /\ writer' = [writer EXCEPT ![c] = "idle"]
  /\ UNCHANGED <<peer, m_incoming, reader, posted>>

(* Mutant: the handler pops the message that was queued last. *)
WriteDonePopsBack(c) ==
  /\ writer[c] = "busy"
  /\ wire' = [wire EXCEPT ![c] = Append(@, Head(m_outgoing[c]))]
  /\ m_outgoing' = [m_outgoing EXCEPT ![c] = SubSeq(@, 1, Len(@) - 1)]
  /\ writer' = [writer EXCEPT ![c] = IF Len(m_outgoing[c]) = 1 THEN "idle" ELSE "busy"]
  /\ UNCHANGED <<peer, m_incoming, reader, posted>>

(* The write handler without an error: pop, and write the next message.  The *)
(* kernel may take the bytes even when the client has closed.                *)
WriteDone(c) ==
  /\ writer[c] = "busy"
  /\ wire' = [wire EXCEPT ![c] = Append(@, Head(m_outgoing[c]))]
  /\ m_outgoing' = [m_outgoing EXCEPT ![c] = Tail(@)]
  /\ writer' = [writer EXCEPT ![c] = IF Tail(m_outgoing[c]) = <<>> THEN "idle" ELSE "busy"]
  /\ UNCHANGED <<peer, m_incoming, reader, posted>>

(* The write handler with an error: nothing is popped, so m_outgoing stays   *)
(* non-empty and no write is started again.  The caller adds m_onDisconnect. *)
WriteFail(c) ==
  /\ writer[c] = "busy"
  /\ peer[c] = "closed"
  /\ writer' = [writer EXCEPT ![c] = "failed"]
  /\ UNCHANGED <<peer, m_incoming, reader, posted, m_outgoing, wire>>

(* The read handler with a line: take it and call doRead() again.  The      *)
(* caller adds m_onMessage and says what becomes of posted.                 *)
TakeLine(c) ==
  /\ reader[c] = "armed"
  /\ m_incoming[c] # <<>>
  /\ m_incoming' = [m_incoming EXCEPT ![c] = Tail(@)]
  /\ UNCHANGED <<peer, reader, m_outgoing, writer, wire>>

(* Mutant: a line that does not parse leaves the handler before doRead(). *)
TakeMalformedAndStop(c) ==
  /\ reader[c] = "armed"
  /\ m_incoming[c] # <<>>
  /\ Head(m_incoming[c]) = Malformed
  /\ m_incoming' = [m_incoming EXCEPT ![c] = Tail(@)]
  /\ reader' = [reader EXCEPT ![c] = "ended"]
  /\ UNCHANGED <<peer, posted, m_outgoing, writer, wire>>

(* A line that does not parse is logged; the loop goes on. *)
TakeMalformed(c) ==
  /\ TakeLine(c)
  /\ Head(m_incoming[c]) = Malformed
  /\ UNCHANGED posted

(* Mutant: the handler reads on as long as something is left to be written. *)
ReadEndAfterWrites(c) ==
  /\ reader[c] = "armed"
  /\ peer[c] = "closed"
  /\ m_incoming[c] = <<>>
  /\ m_outgoing[c] = <<>>
  /\ reader' = [reader EXCEPT ![c] = "ended"]
  /\ UNCHANGED <<peer, m_incoming, posted, m_outgoing, writer, wire>>

(* The read handler with an error: the client has closed and every complete *)
(* line was handled.  The loop ends.  The caller adds m_onDisconnect.       *)
ReadEnd(c) ==
  /\ reader[c] = "armed"
  /\ peer[c] = "closed"
  /\ m_incoming[c] = <<>>
  /\ reader' = [reader EXCEPT ![c] = "ended"]
  /\ UNCHANGED <<peer, m_incoming, posted, m_outgoing, writer, wire>>

(* The process dies: every session object and every socket is gone.  A      *)
(* connection still waiting to be accepted is reset as well.                *)
LoseSessions ==
  /\ peer' = [c \in Conns |-> IF peer[c] = "new" THEN "new" ELSE "closed"]
  /\ reader' = [c \in Conns |-> IF peer[c] = "new" THEN "none" ELSE "ended"]
  /\ m_incoming' = [c \in Conns |-> <<>>]
  /\ posted' = [c \in Conns |-> <<>>]
  /\ m_outgoing' = [c \in Conns |-> <<>>]
  /\ writer' = [c \in Conns |-> "idle"]
  /\ UNCHANGED wire

=============================================================================
