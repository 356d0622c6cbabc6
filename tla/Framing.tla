------------------------------ MODULE Framing -------------------------------
(***************************************************************************)
(* One direction of a connection, in bytes.  The sender writes texts that  *)
(* end with a newline (Protocol::Message::serialize), the stream delivers  *)
(* the bytes in pieces of any size, and the receiver gathers them in a     *)
(* streambuf until a newline is in it and takes one line out: the read     *)
(* loops of Session::doRead and NetworkClient::recvLoop, which are alike.  *)
(* Session and Client have lines for bytes; the refinement at the end says *)
(* that they may.                                                          *)
(***************************************************************************)
EXTENDS Integers, SequencesExt

CONSTANTS
  Letters,    \* the bytes of a text, but for line ends
  Texts,      \* what is written before the newline, and has none in it
  MaxTexts    \* bound: texts written

ASSUME ConstantsAssumption ==
  /\ Letters \cap {"CR", "LF"} = {}
  /\ \A text \in Texts : text \in Seq(Letters \cup {"CR"})
  /\ MaxTexts \in Nat

VARIABLES
  peer,       \* the sender's end: "open" or "closed"
  writing,    \* what is left to be written of the sender's text
  transit,    \* bytes in the socket
  m_incoming, \* the receiver's streambuf
  reader,     \* "armed" while the read loop runs, or "ended"
  sent,       \* history: the texts the sender began to write
  taken       \* history: the lines handed to Protocol::Message::parse

vars == <<peer, writing, transit, m_incoming, reader, sent, taken>>

Bytes == Letters \cup {"CR", "LF"}

TypeOK ==
  /\ peer \in {"open", "closed"}
  /\ writing \in Seq(Bytes)
  /\ transit \in Seq(Bytes)
  /\ m_incoming \in Seq(Bytes)
  /\ reader \in {"armed", "ended"}
  /\ sent \in Seq(Texts)
  /\ taken \in Seq(Seq(Bytes \ {"LF"}))

Init ==
  /\ peer = "open"
  /\ writing = <<>>
  /\ transit = <<>>
  /\ m_incoming = <<>>
  /\ reader = "armed"
  /\ sent = <<>>
  /\ taken = <<>>

-----------------------------------------------------------------------------
(* The sender: one text at a time, of which the kernel takes what it can.   *)

serialize(text) == Append(text, "LF")

WriteStarts(text) ==
  /\ peer = "open"
  /\ writing = <<>>
  /\ Len(sent) < MaxTexts
  /\ writing' = serialize(text)
  /\ sent' = Append(sent, text)
  /\ UNCHANGED <<peer, transit, m_incoming, reader, taken>>

WriteSome ==
  /\ peer = "open"
  /\ \E n \in 1 .. Len(writing) :
       /\ transit' = transit \o SubSeq(writing, 1, n)
       /\ writing' = SubSeq(writing, n + 1, Len(writing))
  /\ UNCHANGED <<peer, m_incoming, reader, sent, taken>>

(* It closes or dies, in the middle of a text or not; a reset discards what *)
(* was not received.                                                        *)
SenderCloses ==
  /\ peer = "open"
  /\ peer' = "closed"
  /\ \E n \in 0 .. Len(transit) : transit' = SubSeq(transit, 1, n)
  /\ UNCHANGED <<writing, m_incoming, reader, sent, taken>>

-----------------------------------------------------------------------------
(* The receiver: read_until, and getline in its handler. *)

HasLine(bytes) == Contains(bytes, "LF")
LineEnd(bytes) == SelectInSeq(bytes, LAMBDA byte : byte = "LF")

(* Mutant: the last byte is taken for a carriage return. *)
StrippedAlways(line) == IF line = <<>> THEN line ELSE Front(line)

Stripped(line) == IF line # <<>> /\ Last(line) = "CR" THEN Front(line) ELSE line

(* No newline is in the streambuf: more bytes are read into it. *)
ReadSome ==
  /\ reader = "armed"
  /\ ~HasLine(m_incoming)
  /\ \E n \in 1 .. Len(transit) :
       /\ m_incoming' = m_incoming \o SubSeq(transit, 1, n)
       /\ transit' = SubSeq(transit, n + 1, Len(transit))
  /\ UNCHANGED <<peer, writing, reader, sent, taken>>

(* Mutant: the streambuf is made anew for each line. *)
TakeLineAlone ==
  /\ reader = "armed"
  /\ HasLine(m_incoming)
  /\ taken' = Append(taken, Stripped(SubSeq(m_incoming, 1, LineEnd(m_incoming) - 1)))
  /\ m_incoming' = <<>>
  /\ UNCHANGED <<peer, writing, transit, reader, sent>>

(* A newline is there, perhaps since the last read, and bytes behind it.    *)
TakeLine ==
  /\ reader = "armed"
  /\ HasLine(m_incoming)
  /\ taken' = Append(taken, Stripped(SubSeq(m_incoming, 1, LineEnd(m_incoming) - 1)))
  /\ m_incoming' = SubSeq(m_incoming, LineEnd(m_incoming) + 1, Len(m_incoming))
  /\ UNCHANGED <<peer, writing, transit, reader, sent>>

(* Mutant: the end of the stream is noticed before the streambuf is looked  *)
(* through.                                                                 *)
ReadFailsEarly ==
  /\ reader = "armed"
  /\ peer = "closed"
  /\ transit = <<>>
  /\ reader' = "ended"
  /\ UNCHANGED <<peer, writing, transit, m_incoming, sent, taken>>

(* End of the stream or a reset: what is left in the streambuf is no line.  *)
ReadFails ==
  /\ reader = "armed"
  /\ ~HasLine(m_incoming)
  /\ peer = "closed"
  /\ transit = <<>>
  /\ reader' = "ended"
  /\ UNCHANGED <<peer, writing, transit, m_incoming, sent, taken>>

Reads == ReadSome \/ TakeLine \/ ReadFails

Next ==
  \/ \E text \in Texts : WriteStarts(text)
  \/ WriteSome
  \/ SenderCloses
  \/ Reads

(* A write that was begun goes on while the receiver drains the socket, and *)
(* a read loop that is armed runs.  Nobody must write or close.             *)
Spec == Init /\ [][Next]_vars /\ WF_vars(WriteSome) /\ WF_vars(Reads)

-----------------------------------------------------------------------------
(* The complete lines in bytes, as they will be taken. *)
LinesIn(bytes) ==
  LET ends == {i \in DOMAIN bytes : bytes[i] = "LF"}
      end[k \in 0 .. Cardinality(ends)] ==
        IF k = 0 THEN 0
        ELSE CHOOSE i \in ends : Cardinality({j \in ends : j <= i}) = k
  IN  [k \in 1 .. Cardinality(ends) |-> Stripped(SubSeq(bytes, end[k - 1] + 1, end[k] - 1))]

Carries(line, text) == text \in {line, Append(line, "CR")}

(* TakenAsSent: parse() is given each text as it was written, none split,   *)
(* joined with the next, doubled or cut short, however the stream cuts the  *)
(* bytes up; and none is lost while the sender has not closed, and then     *)
(* only the last ones.                                                      *)
TakenAsSent ==
  LET lines == taken \o LinesIn(m_incoming \o transit \o writing)
  IN  /\ \A n \in DOMAIN taken : Carries(taken[n], sent[n])
      /\ peer = "open" => /\ Len(lines) = Len(sent)
                          /\ \A n \in DOMAIN lines : Carries(lines[n], sent[n])

(* FramingInv: the types, and TakenAsSent. *)
FramingInv == TypeOK /\ TakenAsSent

(* LinesArrive: a text that was begun is taken, without another one having  *)
(* to push it out of the streambuf, or the sender closes.                   *)
LinesArrive ==
  \A n \in 1 .. MaxTexts : Len(sent) >= n ~> Len(taken) >= n \/ peer = "closed"

(* The read side of Session, with the lines that are complete in the socket *)
(* and the streambuf for those that have arrived.                           *)
Lines == INSTANCE Session WITH
  Conns <- {1}, Malformed <- "none",
  peer <- <<peer>>, reader <- <<reader>>, m_incoming <- <<LinesIn(m_incoming \o transit)>>,
  posted <- <<<<>>>>, m_outgoing <- <<<<>>>>, writer <- <<"idle">>, wire <- <<<<>>>>

(* ReadsLines: what the read loop does with bytes is what Session says it   *)
(* does with lines: one arrives whole or not at all, TakeLine takes them in *)
(* order, a close discards the last ones, and the loop ends only when none  *)
(* is left.                                                                 *)
ReadsLines ==
  [][\/ \E text \in Texts : Lines!SendLine(1, Stripped(text))
     \/ Lines!Close(1)
     \/ Lines!TakeLine(1)
     \/ Lines!ReadEnd(1)]_<<peer, reader, LinesIn(m_incoming \o transit)>>
=============================================================================
