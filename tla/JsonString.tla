----------------------------- MODULE JsonString -----------------------------
(***************************************************************************)
(* The strings of the JSON library, as this program uses them.  A user     *)
(* name reaches the server as the bytes of a JSON string, which the lexer  *)
(* reads one by one (scan_string).  From then on every save() writes the   *)
(* name with dump_escaped, and every restart reads it back.  The lexer and *)
(* the serializer know UTF-8 each in its own way, ranges there and an      *)
(* automaton here; a name that one takes and the other refuses would make  *)
(* every later save() throw.  dump() is only called as this program calls  *)
(* it: strict, and without escaping what is not ASCII.                     *)
(***************************************************************************)
EXTENDS Integers, SequencesExt

CONSTANT BufferSize  \* of string_buffer, 512

(* Room for one escape and the zero behind it. *)
ASSUME BufferAssumption == BufferSize \in Nat /\ BufferSize >= 7

Quote == 34
Backslash == 92
Newline == 10
Surrogates == 55296 .. 57343
HighSurrogates == 55296 .. 56319
LowSurrogates == 56320 .. 57343
Trailing == <<128, 191>>

(* What comes next.  The other fields of the scanner that are used here:    *)
(* ranges, those of the bytes that follow; digits, those of an escape that  *)
(* were read; high, the high surrogate that needs its other half, or 0.     *)
StringGoals == {"char", "escape", "hex", "second backslash", "second u", "range"}

-----------------------------------------------------------------------------
(* get_codepoint, and the bytes of a code point. *)

Refused(s) == [s EXCEPT !.goal = "parse_error"]

Added(s, bytes) == [s EXCEPT !.goal = "char", !.token_buffer = @ \o bytes]

(* A byte with the last six bits of n, which follows another one. *)
After(n) == 128 + (n % 64)

EncodedFrom(three, cp) ==
  IF cp < 128 THEN <<cp>>
  ELSE IF cp < three THEN <<192 + (cp \div 64), After(cp)>>
  ELSE IF cp < 65536 THEN <<224 + (cp \div 4096), After(cp \div 64), After(cp)>>
  ELSE <<240 + (cp \div 262144), After(cp \div 4096), After(cp \div 64), After(cp)>>

(* Mutant: three bytes are only used from U+1000 on. *)
EncodedNarrow(cp) == EncodedFrom(4096, cp)

Encoded(cp) == EncodedFrom(2048, cp)

(* The value of a hexadecimal digit, or 16. *)
HexValue(byte) ==
  CASE byte \in 48 .. 57  -> byte - 48
    [] byte \in 65 .. 70  -> byte - 55
    [] byte \in 97 .. 102 -> byte - 87
    [] OTHER              -> 16

(* The code point of a pair: 16#35FDC00 is all that is not it. *)
Combined(high, low) == high * 1024 + low - 56613888

Unpaired(s, cp, refused) ==
  CASE cp \in HighSurrogates -> [s EXCEPT !.high = cp, !.goal = "second backslash"]
    [] cp \in refused        -> Refused(s)
    [] OTHER                 -> Added(s, Encoded(cp))

Paired(s, cp) ==
  IF cp \in LowSurrogates THEN Added([s EXCEPT !.high = 0], Encoded(Combined(s.high, cp)))
  ELSE Refused(s)

(* After \u and four digits: a high surrogate must be followed by a low one *)
(* in another escape, and a low one must not stand alone.                   *)
Unicode(s, cp) == IF s.high # 0 THEN Paired(s, cp) ELSE Unpaired(s, cp, LowSurrogates)

Hex(s, byte) ==
  LET digits == Append(s.digits, HexValue(byte))
      cp == 4096 * digits[1] + 256 * digits[2] + 16 * digits[3] + digits[4]
  IN  IF HexValue(byte) = 16 THEN Refused(s)
      ELSE IF Len(digits) < 4 THEN [s EXCEPT !.digits = digits]
      ELSE Unicode([s EXCEPT !.digits = <<>>], cp)

(* What a backslash and a letter stand for. *)
Escapes ==
  {<<Quote, Quote>>, <<Backslash, Backslash>>, <<47, 47>>, <<98, 8>>, <<102, 12>>,
   <<110, Newline>>, <<114, 13>>, <<116, 9>>}

Escape(s, byte) ==
  IF byte = 117 THEN [s EXCEPT !.goal = "hex"]
  ELSE IF \E e \in Escapes : e[1] = byte
  THEN Added(s, <<(CHOOSE e \in Escapes : e[1] = byte)[2]>>)
  ELSE Refused(s)

-----------------------------------------------------------------------------
(* scan_string with the next byte, and next_byte_in_range. *)

RangesFrom(e0, byte) ==
  CASE byte \in 194 .. 223              -> <<Trailing>>
    [] byte = 224                       -> <<<<e0, 191>>, Trailing>>
    [] byte \in (225 .. 239) \ {237}    -> <<Trailing, Trailing>>
    [] byte = 237                       -> <<<<128, 159>>, Trailing>>
    [] byte = 240                       -> <<<<144, 191>>, Trailing, Trailing>>
    [] byte \in 241 .. 243              -> <<Trailing, Trailing, Trailing>>
    [] byte = 244                       -> <<<<128, 143>>, Trailing, Trailing>>
    [] OTHER                            -> <<>>

(* The ranges that the bytes after a first byte have to be in. *)
Ranges(byte) == RangesFrom(160, byte)

Char(s, byte) ==
  CASE byte = Quote          -> [s EXCEPT !.goal = "value_string"]
    [] byte = Backslash      -> [s EXCEPT !.goal = "escape"]
    [] byte \in (32 .. 127) \ {Quote, Backslash} -> Added(s, <<byte>>)
    [] Ranges(byte) # <<>>   -> [Added(s, <<byte>>) EXCEPT !.goal = "range",
                                                           !.ranges = Ranges(byte)]
    [] OTHER                 -> Refused(s)

InRange(s, byte) ==
  IF s.ranges[1][1] <= byte /\ byte <= s.ranges[1][2]
  THEN [Added(s, <<byte>>) EXCEPT !.ranges = Tail(@),
                                  !.goal = IF Len(s.ranges) > 1 THEN "range" ELSE "char"]
  ELSE Refused(s)

Scanned(s, byte) ==
  CASE s.goal = "char"             -> Char(s, byte)
    [] s.goal = "range"            -> InRange(s, byte)
    [] s.goal = "escape"           -> Escape(s, byte)
    [] s.goal = "hex"              -> Hex(s, byte)
    [] s.goal = "second backslash" -> IF byte = Backslash THEN [s EXCEPT !.goal = "second u"]
                                      ELSE Refused(s)
    [] s.goal = "second u"         -> IF byte = 117 THEN [s EXCEPT !.goal = "hex"] ELSE Refused(s)

-----------------------------------------------------------------------------
(* dump_escaped and the automaton of decode: 0 accepts, 1 rejects. *)

TypeOf(byte) ==
  CASE byte \in 0 .. 127               -> 0
    [] byte \in 128 .. 143             -> 1
    [] byte \in 144 .. 159             -> 9
    [] byte \in 160 .. 191             -> 7
    [] byte \in 194 .. 223             -> 2
    [] byte = 224                      -> 10
    [] byte \in (225 .. 239) \ {237}   -> 3
    [] byte = 237                      -> 4
    [] byte = 240                      -> 11
    [] byte \in 241 .. 243             -> 6
    [] byte = 244                      -> 5
    [] OTHER                           -> 8

FirstState == <<0, 1, 2, 3, 5, 8, 7, 1, 1, 1, 4, 6>>

DecodeState(state, type) ==
  CASE state = 0                              -> FirstState[type + 1]
    [] state = 2 /\ type \in {1, 7, 9}        -> 0
    [] state = 3 /\ type \in {1, 7, 9}        -> 2
    [] state = 4 /\ type = 7                  -> 2
    [] state = 5 /\ type \in {1, 9}           -> 2
    [] state = 6 /\ type \in {7, 9}           -> 3
    [] state = 7 /\ type \in {1, 7, 9}        -> 3
    [] state = 8 /\ type = 1                  -> 3
    [] OTHER                                  -> 1

(* The first byte under the mask 255 >> type. *)
FirstBits(byte) == byte % <<256, 128, 64, 32, 16, 8, 4, 2, 1, 1, 1, 1>>[TypeOf(byte) + 1]

HexDigit(n) == IF n < 10 THEN 48 + n ELSE 87 + n

Numbered(cp) == <<Backslash, 117, 48, 48, HexDigit(cp \div 16), HexDigit(cp % 16)>>

(* Mutant: a backslash and the character itself. *)
EscapedPlainly(cp) ==
  IF \E e \in Escapes : e[2] = cp THEN <<Backslash, cp>> ELSE Numbered(cp)

(* A code point that is not copied: by a letter if there is one, or by its  *)
(* number.                                                                  *)
Escaped(cp) ==
  IF \E e \in Escapes : e[2] = cp
  THEN <<Backslash, (CHOOSE e \in Escapes : e[2] = cp)[1]>>
  ELSE Numbered(cp)

MustEscape(cp) == cp < 32 \/ cp \in {Quote, Backslash}

(* Mutant: room is made for a single \u escape. *)
FlushedLate(bytes) == IF BufferSize - bytes < 6 THEN 0 ELSE bytes

(* The index into string_buffer after a code point: it is written out when  *)
(* fewer than 13 bytes are left.                                            *)
Flushed(bytes) == IF BufferSize - bytes < 13 THEN 0 ELSE bytes

DumpStart == [state |-> 0, codepoint |-> 0, points |-> <<>>, output |-> <<>>, bytes |-> 0, most |-> 0]

(* One byte: it is escaped when it ends a code point that must be, else it  *)
(* is copied.  snprintf adds a zero to the six bytes of an escape.          *)
Dumped(d, byte) ==
  LET state == DecodeState(d.state, TypeOf(byte))
      codepoint == IF d.state # 0 THEN (byte % 64) + 64 * d.codepoint ELSE FirstBits(byte)
      written == IF state = 0 /\ MustEscape(codepoint) THEN Escaped(codepoint) ELSE <<byte>>
      end == d.bytes + Len(written)
      touched == IF Len(written) = 6 THEN end + 1 ELSE end
  IN  IF d.state = 1 \/ state = 1 THEN [d EXCEPT !.state = 1]
      ELSE [state |-> state, codepoint |-> codepoint,
            points |-> IF state = 0 THEN Append(d.points, codepoint) ELSE d.points,
            output |-> d.output \o written,
            bytes |-> IF state = 0 THEN Flushed(end) ELSE end,
            most |-> IF touched > d.most THEN touched ELSE d.most]

Dump(text) ==
  LET dump[n \in 0 .. Len(text)] ==
        IF n = 0 THEN DumpStart ELSE Dumped(dump[n - 1], text[n])
  IN  dump[Len(text)]

=============================================================================
