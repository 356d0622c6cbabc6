------------------------- MODULE SessionSpecProofs -------------------------
(***************************************************************************)
(* Theorems about a session in isolation, for any number of connections,   *)
(* lines and sends.  They share one inductive invariant: the types, the    *)
(* write loop's invariant, the order of the messages and the count of the  *)
(* disconnects.                                                            *)
(***************************************************************************)
EXTENDS SessionSpec, SessionProofs

CountersTyped ==
  /\ arrived \in [Conns -> 0 .. MaxLines]
  /\ sent \in [Conns -> 0 .. MaxSends]
  /\ disconnects \in [Conns -> Nat]

SpecInv ==
  /\ Sound(Lines, Nat)
  /\ CountersTyped
  /\ SentInOrder
  /\ EachSideReportsOnce

(* Numbering one message more. *)
LEMMA NextNumber ==
  ASSUME NEW n \in Nat
  PROVE  [i \in 1 .. n |-> i] \o <<n + 1>> = [i \in 1 .. n + 1 |-> i]
<1> DEFINE s == [i \in 1 .. n |-> i]
           t == [i \in 1 .. n + 1 |-> i]
<1>1. s \in Seq(Nat) /\ t \in Seq(Nat) /\ <<n + 1>> \in Seq(Nat)
  OBVIOUS
<1>2. Len(s) = n /\ Len(t) = n + 1 /\ Len(s \o <<n + 1>>) = n + 1
  OBVIOUS
<1>3. \A i \in 1 .. n + 1 : (s \o <<n + 1>>)[i] = t[i]
  OBVIOUS
<1> QED
  BY <1>1, <1>2, <1>3

-----------------------------------------------------------------------------
(* A counted send appends the next number to the pipeline of its session.  *)
LEMMA CountedSendInOrder ==
  ASSUME SpecInv, NEW c \in Conns, CountedSend(c), UNCHANGED <<wire, m_outgoing>>
  PROVE  /\ posted' \in [Conns -> Seq(Nat)]
         /\ sent' \in [Conns -> 0 .. MaxSends]
         /\ SentInOrder'
<1>0. ASSUME NEW x \in Seq(Nat), NEW y \in Seq(Nat), NEW z \in Seq(Nat)
      PROVE  (x \o y) \o z = x \o (y \o z)
  BY Associative
<1> USE BoundsAssumption DEF SpecInv, CountersTyped, Sound, SessionTypeOK
<1>1. sent[c] \in Nat /\ sent[c] + 1 \in Nat /\ sent[c] + 1 \in 0 .. MaxSends
  BY DEF CountedSend
<1>2. ASSUME NEW x \in Conns PROVE Only(c, sent[c] + 1)[x] \in Seq(Nat)
  BY <1>1 DEF Only
<1>3. posted' \in [Conns -> Seq(Nat)]
  BY <1>2, SendEachTyped DEF CountedSend
<1>4. sent' \in [Conns -> 0 .. MaxSends]
  BY <1>1 DEF CountedSend
<1>5. ASSUME NEW x \in Conns PROVE Pipeline(x)' = [i \in 1 .. sent'[x] |-> i]
  <2>1. Pipeline(x) = [i \in 1 .. sent[x] |-> i]
    BY DEF SentInOrder
  <2>2. wire[x] \in Seq(Nat) /\ m_outgoing[x] \in Seq(Nat) /\ posted[x] \in Seq(Nat)
    OBVIOUS
  <2>3. CASE x = c
    <3>1. posted'[c] = posted[c] \o <<sent[c] + 1>>
      BY DEF CountedSend, SendEach, Only
    <3>2. sent'[c] = sent[c] + 1
      BY DEF CountedSend
    <3>3. Pipeline(c)' = Pipeline(c) \o <<sent[c] + 1>>
      <4>1. (wire[c] \o m_outgoing[c]) \in Seq(Nat) /\ posted[c] \in Seq(Nat)
        BY <2>2, <2>3
      <4>2. <<sent[c] + 1>> \in Seq(Nat)
        BY <1>1
      <4>3. ((wire[c] \o m_outgoing[c]) \o posted[c]) \o <<sent[c] + 1>>
              = (wire[c] \o m_outgoing[c]) \o (posted[c] \o <<sent[c] + 1>>)
        BY <1>0, <4>1, <4>2
      <4> QED
        BY <3>1, <4>3, Zenon DEF Pipeline
    <3>4. [i \in 1 .. sent[c] |-> i] \o <<sent[c] + 1>> = [i \in 1 .. sent[c] + 1 |-> i]
      BY <1>1, NextNumber
    <3> QED
      BY <2>1, <2>3, <3>2, <3>3, <3>4
  <2>4. CASE x # c
    <3>1. posted'[x] = posted[x] /\ sent'[x] = sent[x]
      BY <2>2, <2>4 DEF CountedSend, SendEach, Only
    <3> QED
      BY <2>1, <3>1 DEF Pipeline
  <2> QED
    BY <2>3, <2>4
<1> QED
  BY <1>3, <1>4, <1>5 DEF SentInOrder

(* The order is kept by whatever leaves the pipelines and sent alone. *)
LEMMA OrderKept ==
  ASSUME SentInOrder, \A c \in Conns : Pipeline(c)' = Pipeline(c), UNCHANGED sent
  PROVE  SentInOrder'
BY DEF SentInOrder

(* So it is by a step that does not touch the write side. *)
LEMMA WriteSideUntouched ==
  ASSUME UNCHANGED <<wire, m_outgoing, posted>>
  PROVE  \A c \in Conns : Pipeline(c)' = Pipeline(c)
BY DEF Pipeline

-----------------------------------------------------------------------------
(* SpecInv is preserved by every step. *)
LEMMA SpecStep ==
  ASSUME SpecInv, [Next]_vars
  PROVE  SpecInv'
<1> USE BoundsAssumption DEF SpecInv
<1>1. ASSUME NEW c \in Conns, ClientConnects(c) PROVE SpecInv'
  <2>1. Sound(Lines, Nat)'
    BY <1>1, ConnectSound DEF ClientConnects
  <2>2. SentInOrder'
    BY <1>1, OrderKept, WriteSideUntouched DEF ClientConnects, Connect
  <2> QED
    BY <1>1, <2>1, <2>2 DEF ClientConnects, Connect, CountersTyped, EachSideReportsOnce
<1>2. ASSUME NEW c \in Conns, NEW line \in Lines, ClientSends(c, line) PROVE SpecInv'
  <2>1. Sound(Lines, Nat)'
    BY <1>2, SendLineSound DEF ClientSends
  <2>2. SentInOrder'
    BY <1>2, OrderKept, WriteSideUntouched DEF ClientSends, SendLine
  <2> QED
    BY <1>2, <2>1, <2>2 DEF ClientSends, SendLine, CountersTyped, EachSideReportsOnce
<1>3. ASSUME NEW c \in Conns, ClientCloses(c) PROVE SpecInv'
  <2>1. Sound(Lines, Nat)'
    BY <1>3, CloseSound DEF ClientCloses
  <2>2. SentInOrder'
    BY <1>3, OrderKept, WriteSideUntouched DEF ClientCloses, Close
  <2> QED
    BY <1>3, <2>1, <2>2 DEF ClientCloses, Close, CountersTyped, EachSideReportsOnce
<1>4. ASSUME NEW c \in Conns, Start(c) PROVE SpecInv'
  <2>1. Sound(Lines, Nat)'
    BY <1>4, StartReadingSound DEF Start, Sound, SessionTypeOK
  <2>2. SentInOrder'
    BY <1>4, OrderKept, WriteSideUntouched DEF Start
  <2>3. EachSideReportsOnce'
    BY <1>4 DEF Start, StartReading, EachSideReportsOnce, Sound, SessionTypeOK
  <2> QED
    BY <1>4, <2>1, <2>2, <2>3 DEF Start, CountersTyped
<1>5. ASSUME NEW c \in Conns, OwnerSends(c) PROVE SpecInv'
  <2>1. posted' \in [Conns -> Seq(Nat)] /\ sent' \in [Conns -> 0 .. MaxSends] /\ SentInOrder'
    BY <1>5, CountedSendInOrder DEF OwnerSends
  <2>2. Sound(Lines, Nat)'
    BY <1>5, <2>1 DEF OwnerSends, Sound, SessionTypeOK, LoopInv
  <2> QED
    BY <1>5, <2>1, <2>2 DEF OwnerSends, CountersTyped, EachSideReportsOnce
<1>6. ASSUME NEW c \in Conns, HandleLine(c) PROVE SpecInv'
  <2>1. posted' \in [Conns -> Seq(Nat)] /\ sent' \in [Conns -> 0 .. MaxSends] /\ SentInOrder'
    <3>1. CASE CountedSend(c)
      BY <1>6, <3>1, CountedSendInOrder DEF HandleLine, TakeLine
    <3>2. CASE UNCHANGED <<posted, sent>>
      <4>1. SentInOrder'
        BY <1>6, <3>2, OrderKept, WriteSideUntouched DEF HandleLine, TakeLine
      <4> QED
        BY <3>2, <4>1 DEF Sound, SessionTypeOK, CountersTyped
    <3> QED
      BY <1>6, <3>1, <3>2 DEF HandleLine
  <2>2. Sound(Lines, Nat)'
    BY <1>6, <2>1, TakeLineSound DEF HandleLine
  <2> QED
    BY <1>6, <2>1, <2>2 DEF HandleLine, TakeLine, CountersTyped, EachSideReportsOnce
<1>7. ASSUME NEW c \in Conns, HandleMalformed(c) PROVE SpecInv'
  <2>1. Sound(Lines, Nat)'
    BY <1>7, TakeLineSound DEF HandleMalformed, TakeMalformed, Sound, SessionTypeOK
  <2>2. SentInOrder'
    BY <1>7, OrderKept, WriteSideUntouched DEF HandleMalformed, TakeMalformed, TakeLine
  <2> QED
    BY <1>7, <2>1, <2>2
       DEF HandleMalformed, TakeMalformed, TakeLine, CountersTyped, EachSideReportsOnce
<1>8. ASSUME NEW c \in Conns, PostedRuns(c) PROVE SpecInv'
  <2>1. Sound(Lines, Nat)'
    BY <1>8, RunPostedSound DEF PostedRuns
  <2>2. SentInOrder'
    BY <1>8, OrderKept, RunPostedKeepsOrder DEF PostedRuns
  <2>3. EachSideReportsOnce'
    BY <1>8 DEF PostedRuns, RunPosted, EachSideReportsOnce, Sound, SessionTypeOK, LoopInv
  <2> QED
    BY <1>8, <2>1, <2>2, <2>3 DEF PostedRuns, CountersTyped
<1>9. ASSUME NEW c \in Conns, WriteCompletes(c) PROVE SpecInv'
  <2>1. Sound(Lines, Nat)'
    BY <1>9, WriteDoneSound DEF WriteCompletes
  <2>2. SentInOrder'
    BY <1>9, OrderKept, WriteDoneKeepsOrder DEF WriteCompletes
  <2>3. EachSideReportsOnce'
    BY <1>9 DEF WriteCompletes, WriteDone, EachSideReportsOnce, Sound, SessionTypeOK
  <2> QED
    BY <1>9, <2>1, <2>2, <2>3 DEF WriteCompletes, CountersTyped
<1>10. ASSUME NEW c \in Conns, WriteBreaks(c) PROVE SpecInv'
  <2>1. Sound(Lines, Nat)'
    BY <1>10, WriteFailSound DEF WriteBreaks
  <2>2. SentInOrder'
    BY <1>10, OrderKept, WriteSideUntouched DEF WriteBreaks, WriteFail
  <2>3. CountersTyped'
    BY <1>10 DEF WriteBreaks, CountersTyped
  <2>4. EachSideReportsOnce'
    <3>1. /\ writer[c] = "busy" /\ writer' = [writer EXCEPT ![c] = "failed"]
          /\ disconnects' = [disconnects EXCEPT ![c] = @ + 1]
          /\ UNCHANGED reader
      BY <1>10 DEF WriteBreaks, WriteFail
    <3>2. /\ disconnects \in [Conns -> Nat]
          /\ writer \in [Conns -> {"idle", "busy", "failed"}]
      BY DEF CountersTyped, Sound, SessionTypeOK
    <3> QED
      BY <3>1, <3>2 DEF EachSideReportsOnce
  <2> QED
    BY <2>1, <2>2, <2>3, <2>4
<1>11. ASSUME NEW c \in Conns, ReadBreaks(c) PROVE SpecInv'
  <2>1. Sound(Lines, Nat)'
    BY <1>11, ReadEndSound DEF ReadBreaks
  <2>2. SentInOrder'
    BY <1>11, OrderKept, WriteSideUntouched DEF ReadBreaks, ReadEnd
  <2>3. CountersTyped'
    BY <1>11 DEF ReadBreaks, CountersTyped
  <2>4. EachSideReportsOnce'
    <3>1. /\ reader[c] = "armed" /\ reader' = [reader EXCEPT ![c] = "ended"]
          /\ disconnects' = [disconnects EXCEPT ![c] = @ + 1]
          /\ UNCHANGED writer
      BY <1>11 DEF ReadBreaks, ReadEnd
    <3>2. /\ disconnects \in [Conns -> Nat]
          /\ reader \in [Conns -> {"none", "armed", "ended"}]
      BY DEF CountersTyped, Sound, SessionTypeOK
    <3> QED
      BY <3>1, <3>2 DEF EachSideReportsOnce
  <2> QED
    BY <2>1, <2>2, <2>3, <2>4
<1>12. CASE UNCHANGED vars
  <2>1. SentInOrder'
    BY <1>12, OrderKept, WriteSideUntouched DEF vars, sessionVars
  <2> QED
    BY <1>12, <2>1
       DEF vars, sessionVars, Sound, SessionTypeOK, LoopInv, CountersTyped, EachSideReportsOnce
<1> QED
  BY <1>1, <1>2, <1>3, <1>4, <1>5, <1>6, <1>7, <1>8, <1>9, <1>10, <1>11, <1>12
     DEF Next, Reads, Writes

LEMMA SpecInvariant == Spec => []SpecInv
<1>1. ASSUME Init PROVE SpecInv
  <2>1. Sound(Lines, Nat)
    BY <1>1, InitSound DEF Init
  <2>2. SentInOrder
    <3>1. ASSUME NEW c \in Conns PROVE Pipeline(c) = <<>>
      BY <1>1 DEF Init, SessionInit, Pipeline
    <3>2. ASSUME NEW c \in Conns PROVE sent[c] = 0
      BY <1>1 DEF Init
    <3>3. [i \in 1 .. 0 |-> i] = <<>>
      OBVIOUS
    <3> QED
      BY <3>1, <3>2, <3>3 DEF SentInOrder
  <2>3. CountersTyped /\ EachSideReportsOnce
    BY <1>1, BoundsAssumption DEF Init, SessionInit, CountersTyped, EachSideReportsOnce
  <2> QED
    BY <2>1, <2>2, <2>3 DEF SpecInv
<1>2. Init => SpecInv
  BY <1>1
<1> QED
  BY <1>2, SpecStep, PTL DEF Spec

(* SessionTyped: the variables keep their types, and m_onDisconnect is      *)
(* called at most twice for one session.                                    *)
THEOREM SessionTyped == Spec => []TypeOK
<1>1. SpecInv => TypeOK
  <2>1. ASSUME SpecInv, NEW c \in Conns PROVE disconnects[c] \in 0 .. 2
    BY <2>1 DEF SpecInv, EachSideReportsOnce
  <2> QED
    BY <2>1 DEF SpecInv, CountersTyped, Sound, TypeOK
<1> QED
  BY <1>1, SpecInvariant, PTL

(* SentInOrderHolds: no message is lost, doubled or overtaken in a session, *)
(* for any number of sends and any interleaving of the handlers.            *)
THEOREM SentInOrderHolds == Spec => []SentInOrder
BY SpecInvariant, PTL DEF SpecInv

(* WriteLoopAliveHolds: a queued message always has its write pending, and  *)
(* there is never a second one.                                             *)
THEOREM WriteLoopAliveHolds == Spec => []WriteLoopAlive
<1>1. SpecInv => WriteLoopAlive
  BY DEF SpecInv, Sound, LoopInv, WriteLoopAlive
<1> QED
  BY <1>1, SpecInvariant, PTL

(* EachSideReportsOnceHolds: each side of a session reports the disconnect  *)
(* exactly once when it ends.                                               *)
THEOREM EachSideReportsOnceHolds == Spec => []EachSideReportsOnce
BY SpecInvariant, PTL DEF SpecInv

=============================================================================
