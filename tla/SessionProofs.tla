--------------------------- MODULE SessionProofs ---------------------------
(***************************************************************************)
(* Lemmas about the operations of Session, for any sets of lines and of    *)
(* messages: each keeps the types, the write loop's invariant, and moves   *)
(* messages along without losing or reordering any.                        *)
(***************************************************************************)
EXTENDS Session, TLAPS

(* The write loop's invariant: see WriteLoopAlive of SessionSpec. *)
LoopInv == \A c \in Conns : m_outgoing[c] # <<>> <=> writer[c] # "idle"

(* What the operations of the write side rely on. *)
Sound(Line, Message) == SessionTypeOK(Line, Message) /\ LoopInv

(* A new server's sessions: none. *)
LEMMA InitSound ==
  ASSUME NEW Line, NEW Message, SessionInit
  PROVE  Sound(Line, Message)
BY DEF SessionInit, Sound, SessionTypeOK, LoopInv

-----------------------------------------------------------------------------
(* Sequences *)

(* Taking the first of some sequences' elements off, and putting it behind  *)
(* another one, does not change their concatenation.                        *)
LEMMA MovedHead ==
  ASSUME NEW S, NEW s \in Seq(S), NEW t \in Seq(S), t # <<>>
  PROVE  /\ Head(t) \in S
         /\ Tail(t) \in Seq(S)
         /\ Append(s, Head(t)) \in Seq(S)
         /\ Append(s, Head(t)) # <<>>
         /\ Append(s, Head(t)) \o Tail(t) = s \o t
<1>1. Len(t) > 0 /\ Head(t) \in S /\ Tail(t) \in Seq(S)
  OBVIOUS
<1>2. Append(s, Head(t)) \in Seq(S) /\ Append(s, Head(t)) # <<>>
  BY <1>1
<1>3. Append(s, Head(t)) \o Tail(t) = s \o t
  BY <1>1
<1> QED
  BY <1>1, <1>2, <1>3

LEMMA Associative ==
  ASSUME NEW S, NEW x \in Seq(S), NEW y \in Seq(S), NEW z \in Seq(S)
  PROVE  (x \o y) \o z = x \o (y \o z)
OBVIOUS

-----------------------------------------------------------------------------
(* The client's end: connecting, sending, closing *)

LEMMA ConnectSound ==
  ASSUME NEW Line, NEW Message, NEW c \in Conns, Sound(Line, Message), Connect(c)
  PROVE  Sound(Line, Message)'
BY DEF Connect, Sound, SessionTypeOK, LoopInv

LEMMA SendLineSound ==
  ASSUME NEW Line, NEW Message, NEW c \in Conns, NEW line \in Line, Sound(Line, Message),
         SendLine(c, line)
  PROVE  Sound(Line, Message)'
BY DEF SendLine, Sound, SessionTypeOK, LoopInv

LEMMA CloseSound ==
  ASSUME NEW Line, NEW Message, NEW c \in Conns, Sound(Line, Message), Close(c)
  PROVE  Sound(Line, Message)'
<1>1. PICK n \in 0 .. Len(m_incoming[c]) :
        m_incoming' = [m_incoming EXCEPT ![c] = SubSeq(@, 1, n)]
  BY DEF Close
<1>2. m_incoming[c] \in Seq(Line)
  BY DEF Sound, SessionTypeOK
<1>3. SubSeq(m_incoming[c], 1, n) \in Seq(Line)
  BY <1>2
<1> QED
  BY <1>1, <1>3 DEF Close, Sound, SessionTypeOK, LoopInv

-----------------------------------------------------------------------------
(* The session's end *)

LEMMA SendEachTyped ==
  ASSUME NEW Message, posted \in [Conns -> Seq(Message)],
         NEW batch, \A c \in Conns : batch[c] \in Seq(Message), SendEach(batch)
  PROVE  posted' \in [Conns -> Seq(Message)]
BY DEF SendEach

LEMMA OnlyTyped ==
  ASSUME NEW Message, NEW message \in Message, NEW c, NEW x \in Conns
  PROVE  Only(c, message)[x] \in Seq(Message)
BY DEF Only

LEMMA RunPostedSound ==
  ASSUME NEW Line, NEW Message, NEW c \in Conns, Sound(Line, Message), RunPosted(c)
  PROVE  Sound(Line, Message)'
<1> USE DEF Sound, SessionTypeOK
<1>1. posted[c] \in Seq(Message) /\ posted[c] # <<>> /\ m_outgoing[c] \in Seq(Message)
  BY DEF RunPosted
<1>2. /\ Tail(posted[c]) \in Seq(Message)
      /\ Append(m_outgoing[c], Head(posted[c])) \in Seq(Message)
      /\ Append(m_outgoing[c], Head(posted[c])) # <<>>
  BY <1>1, MovedHead
<1>3. SessionTypeOK(Line, Message)'
  BY <1>2 DEF RunPosted
<1>4. LoopInv'
  BY <1>2 DEF RunPosted, LoopInv
<1> QED
  BY <1>3, <1>4

LEMMA WriteDoneSound ==
  ASSUME NEW Line, NEW Message, NEW c \in Conns, Sound(Line, Message), WriteDone(c)
  PROVE  Sound(Line, Message)'
<1> USE DEF Sound, SessionTypeOK
<1>1. m_outgoing[c] \in Seq(Message) /\ m_outgoing[c] # <<>> /\ wire[c] \in Seq(Message)
  BY DEF WriteDone, LoopInv
<1>2. /\ Tail(m_outgoing[c]) \in Seq(Message)
      /\ Append(wire[c], Head(m_outgoing[c])) \in Seq(Message)
  BY <1>1, MovedHead
<1>3. SessionTypeOK(Line, Message)'
  BY <1>2 DEF WriteDone
<1>4. LoopInv'
  BY DEF WriteDone, LoopInv
<1> QED
  BY <1>3, <1>4

LEMMA WriteFailSound ==
  ASSUME NEW Line, NEW Message, NEW c \in Conns, Sound(Line, Message), WriteFail(c)
  PROVE  Sound(Line, Message)'
BY DEF WriteFail, Sound, SessionTypeOK, LoopInv

LEMMA ReadEndSound ==
  ASSUME NEW Line, NEW Message, NEW c \in Conns, Sound(Line, Message), ReadEnd(c)
  PROVE  Sound(Line, Message)'
BY DEF ReadEnd, Sound, SessionTypeOK, LoopInv

(* The read handler's part: what it does to posted is up to the caller. *)
LEMMA TakeLineSound ==
  ASSUME NEW Line, NEW Message, NEW c \in Conns, Sound(Line, Message), TakeLine(c),
         posted' \in [Conns -> Seq(Message)]
  PROVE  Sound(Line, Message)'
<1>1. m_incoming[c] \in Seq(Line) /\ m_incoming[c] # <<>>
  BY DEF TakeLine, Sound, SessionTypeOK
<1>2. Tail(m_incoming[c]) \in Seq(Line)
  BY <1>1, MovedHead
<1> QED
  BY <1>2 DEF TakeLine, Sound, SessionTypeOK, LoopInv

LEMMA StartReadingSound ==
  ASSUME NEW Line, NEW Message, NEW c \in Conns, Sound(Line, Message), StartReading(c),
         UNCHANGED <<peer, m_incoming, m_outgoing, writer, wire>>,
         posted' \in [Conns -> Seq(Message)]
  PROVE  Sound(Line, Message)'
BY DEF StartReading, Sound, SessionTypeOK, LoopInv

LEMMA LoseSessionsSound ==
  ASSUME NEW Line, NEW Message, Sound(Line, Message), LoseSessions
  PROVE  Sound(Line, Message)'
BY DEF LoseSessions, Sound, SessionTypeOK, LoopInv

-----------------------------------------------------------------------------
(* Messages move through the pipeline in order. *)

LEMMA RunPostedKeepsOrder ==
  ASSUME NEW Line, NEW Message, NEW c \in Conns, Sound(Line, Message), RunPosted(c)
  PROVE  \A d \in Conns : Pipeline(d)' = Pipeline(d)
<1> USE DEF Sound, SessionTypeOK
<1>1. /\ posted[c] \in Seq(Message) /\ posted[c] # <<>>
      /\ m_outgoing[c] \in Seq(Message) /\ wire[c] \in Seq(Message)
  BY DEF RunPosted
<1>2. Append(m_outgoing[c], Head(posted[c])) \o Tail(posted[c]) = m_outgoing[c] \o posted[c]
  BY <1>1, MovedHead
<1>3. /\ m_outgoing'[c] = Append(m_outgoing[c], Head(posted[c]))
      /\ posted'[c] = Tail(posted[c])
      /\ wire' = wire
  BY DEF RunPosted
<1>4. /\ Append(m_outgoing[c], Head(posted[c])) \in Seq(Message)
      /\ Tail(posted[c]) \in Seq(Message)
  BY <1>1, MovedHead
<1>5. ASSUME NEW x \in Seq(Message), NEW y \in Seq(Message), NEW z \in Seq(Message)
      PROVE  (x \o y) \o z = x \o (y \o z)
  BY SMTT(30), Associative
<1>6. Pipeline(c)' = Pipeline(c)
  <2>1. (wire[c] \o Append(m_outgoing[c], Head(posted[c]))) \o Tail(posted[c])
          = wire[c] \o (Append(m_outgoing[c], Head(posted[c])) \o Tail(posted[c]))
    BY <1>1, <1>4, <1>5
  <2>2. (wire[c] \o m_outgoing[c]) \o posted[c] = wire[c] \o (m_outgoing[c] \o posted[c])
    BY <1>1, <1>5
  <2> QED
    BY <1>2, <1>3, <2>1, <2>2, Zenon DEF Pipeline
<1>7. ASSUME NEW d \in Conns, d # c PROVE Pipeline(d)' = Pipeline(d)
  BY <1>7 DEF RunPosted, Pipeline
<1> QED
  BY <1>6, <1>7

LEMMA WriteDoneKeepsOrder ==
  ASSUME NEW Line, NEW Message, NEW c \in Conns, Sound(Line, Message), WriteDone(c)
  PROVE  \A d \in Conns : Pipeline(d)' = Pipeline(d)
<1> USE DEF Sound, SessionTypeOK
<1>1. m_outgoing[c] \in Seq(Message) /\ m_outgoing[c] # <<>> /\ wire[c] \in Seq(Message)
  BY DEF WriteDone, LoopInv
<1>2. Append(wire[c], Head(m_outgoing[c])) \o Tail(m_outgoing[c]) = wire[c] \o m_outgoing[c]
  BY <1>1, MovedHead
<1>3. /\ wire'[c] = Append(wire[c], Head(m_outgoing[c]))
      /\ m_outgoing'[c] = Tail(m_outgoing[c])
      /\ posted' = posted
  BY DEF WriteDone
<1>4. Pipeline(c)' = Pipeline(c)
  BY <1>2, <1>3 DEF Pipeline
<1>5. ASSUME NEW d \in Conns, d # c PROVE Pipeline(d)' = Pipeline(d)
  BY <1>5 DEF WriteDone, Pipeline
<1> QED
  BY <1>4, <1>5

=============================================================================
