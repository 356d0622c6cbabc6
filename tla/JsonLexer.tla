----------------------------- MODULE JsonLexer ------------------------------
(***************************************************************************)
(* The scanner of the JSON library, for one token: skip_bom, white space,  *)
(* and scan, which hands a quote to scan_string (JsonString) and a digit   *)
(* or a minus to scan_number (JsonNumber).  Every line of the peer and the *)
(* file of accounts are read by it, and what dump() writes (JsonString and *)
(* JsonNumber, too) is only as good as what it reads back.  Comments are   *)
(* not ignored: the program does not ask for it.                           *)
(***************************************************************************)
EXTENDS JsonString, JsonNumber

CONSTANTS
  StringBytes,  \* bound: the bytes that are read in a string,
  LongBytes,    \* and those of a string of several characters
  MaxChars,     \* bound: characters of a string, an escape counts for one
  NumberBytes,  \* bound: the bytes that are read in a number
  MaxBytes      \* bound: bytes of a number

ASSUME ConstantsAssumption ==
  /\ LongBytes \subseteq StringBytes
  /\ StringBytes \subseteq 0 .. 255
  /\ NumberBytes \subseteq 0 .. 255
  /\ MaxChars \in Nat
  /\ MaxBytes \in Nat

VARIABLES
  lexer,  \* the scanner
  begun,  \* history: the characters of the string that it has begun to read,
  wide    \* history: and whether another byte than LongBytes was among them

vars == <<lexer, begun, wide>>

EndOfFile == -1

WhiteSpace == {32, 9, 10, 13}

Structural ==
  [begin_array |-> 91, end_array |-> 93, begin_object |-> 123, end_object |-> 125,
   name_separator |-> 58, value_separator |-> 44]

Literals ==
  [literal_true |-> <<116, 114, 117, 101>>, literal_false |-> <<102, 97, 108, 115, 101>>,
   literal_null |-> <<110, 117, 108, 108>>]

NumberTypes == {"value_unsigned", "value_integer", "value_float"}

(* The tokens that scan() returns. *)
TokenType ==
  DOMAIN Structural \cup DOMAIN Literals \cup NumberTypes
    \cup {"value_string", "end_of_input", "parse_error"}

(* goal: what comes next, or the token that is returned.  return_type is    *)
(* the one that scan_literal and scan_number are after, rest what is to     *)
(* come of a literal.                                                       *)
Lexer ==
  [goal : {"bom", "second of bom", "third of bom", "token", "literal"}
            \cup StringGoals \cup NumberGoals \cup TokenType,
   ranges : Seq({128, 144, 160} \X {143, 159, 191}),
   digits : Seq(0 .. 15),
   high : HighSurrogates \cup {0},
   return_type : DOMAIN Literals \cup NumberTypes,
   rest : Seq(0 .. 255),
   token_buffer : Seq(0 .. 255)]

TypeOK == lexer \in Lexer /\ begun \in 0 .. MaxChars /\ wide \in BOOLEAN

Start ==
  [goal |-> "bom", ranges |-> <<>>, digits |-> <<>>, high |-> 0,
   return_type |-> "value_unsigned", rest |-> <<>>, token_buffer |-> <<>>]

Init == lexer = Start /\ begun = 0 /\ wide = FALSE

-----------------------------------------------------------------------------
reset(s) == [s EXCEPT !.token_buffer = <<>>]

(* The byte that a token begins with, or white space before it. *)
Token(s, byte) ==
  CASE byte \in WhiteSpace           -> [s EXCEPT !.goal = "token"]
    [] byte \in Range(Structural)    ->
         [s EXCEPT !.goal = CHOOSE t \in DOMAIN Structural : Structural[t] = byte]
    [] \E t \in DOMAIN Literals : Head(Literals[t]) = byte ->
         LET t == CHOOSE l \in DOMAIN Literals : Head(Literals[l]) = byte
         IN  [s EXCEPT !.goal = "literal", !.return_type = t, !.rest = Tail(Literals[t])]
    [] byte = Quote                  -> [reset(s) EXCEPT !.goal = "char"]
    [] byte \in Digit \cup {Minus}   ->
         NumberByte([reset(s) EXCEPT !.goal = "init", !.return_type = "value_unsigned"], byte)
    [] byte \in {0, EndOfFile}       -> [s EXCEPT !.goal = "end_of_input"]
    [] OTHER                         -> Refused(s)

(* skip_bom, before the first token; the first byte is put back if it is    *)
(* not that of a byte order mark.                                           *)
FirstByte(s, byte) ==
  IF byte = 239 THEN [s EXCEPT !.goal = "second of bom"] ELSE Token(s, byte)

BomByte(s, byte, expected, then) ==
  IF byte = expected THEN [s EXCEPT !.goal = then] ELSE Refused(s)

scan_literal(s, byte) ==
  IF byte # Head(s.rest) THEN Refused(s)
  ELSE [s EXCEPT !.rest = Tail(@), !.goal = IF Len(s.rest) = 1 THEN s.return_type ELSE @]

(* The scanner after one more byte; when it has its token, it reads no more. *)
Scan(s, byte) ==
  CASE s.goal = "bom"             -> FirstByte(s, byte)
    [] s.goal = "second of bom"   -> BomByte(s, byte, 187, "third of bom")
    [] s.goal = "third of bom"    -> BomByte(s, byte, 191, "token")
    [] s.goal = "token"           -> Token(s, byte)
    [] s.goal = "literal"         -> scan_literal(s, byte)
    [] s.goal \in StringGoals     -> Scanned(s, byte)
    [] s.goal \in NumberGoals     -> NumberByte(s, byte)
    [] OTHER                      -> s

(* The scanner after all of these bytes. *)
Scans(bytes) ==
  LET scan[n \in 0 .. Len(bytes)] == IF n = 0 THEN Start ELSE Scan(scan[n - 1], bytes[n])
  IN  scan[Len(bytes)]

-----------------------------------------------------------------------------
InString == lexer.goal \in StringGoals
InNumber == lexer.goal \in NumberGoals

BeginsChar(byte) == lexer.goal = "char" /\ byte \notin {Quote, EndOfFile}

(* The bytes that are tried.  A number that has MaxBytes of them ends. *)
Inputs ==
  {EndOfFile}
    \cup IF InString THEN StringBytes
         ELSE IF InNumber /\ Len(lexer.token_buffer) = MaxBytes THEN {}
         ELSE IF InNumber THEN NumberBytes
         ELSE 0 .. 255

get(byte) ==
  /\ lexer.goal \notin TokenType
  /\ lexer' = Scan(lexer, byte)
  /\ begun' = IF BeginsChar(byte) THEN begun + 1 ELSE begun
  /\ wide' = (wide \/ (InString /\ byte \notin LongBytes \cup {EndOfFile}))
  /\ begun' <= MaxChars
  /\ begun' > 1 => ~wide'

Next == \E byte \in Inputs : get(byte)

Spec == Init /\ [][Next]_vars

-----------------------------------------------------------------------------
Text == lexer.token_buffer
Parsed == lexer.goal = "value_string"
ParsedInteger == lexer.goal \in {"value_unsigned", "value_integer"}

(* ParsedIsDumpable: dump() throws no type_error for a string that the      *)
(* parser accepted: no user name a client registers under can make every    *)
(* later save() and tick fail (JsonDB::save dumps all of m_accounts).       *)
ParsedIsDumpable == Parsed => Dump(Text).state = 0

(* StaysOneLine: no dumped string contains a newline, which ends a message  *)
(* for the peer's read_until (Protocol::Message::serialize), however the    *)
(* newline came into the string.                                            *)
StaysOneLine == Parsed => \A i \in DOMAIN Dump(Text).output : Dump(Text).output[i] # Newline

(* TextIsReadBack: a dumped string is read back as it was: the user names   *)
(* that load() finds are those that save() wrote, whatever was escaped.     *)
TextIsReadBack ==
  Parsed => LET quoted == <<Quote>> \o Dump(Text).output \o <<Quote>>
                again == Scans(quoted)
            IN  again.goal = "value_string" /\ again.token_buffer = Text

(* IntegerIsReadBack: a dumped integer has the bytes that it was read from, *)
(* whatever its length and up to the limits of its type, so the sequences   *)
(* and resources one side writes the other side reads.  Only minus zero has *)
(* another spelling.                                                        *)
IntegerIsReadBack ==
  ParsedInteger =>
    \/ dump_integer(Converted(lexer.return_type, Text).value) = Text
    \/ Text = <<Minus, Ascii(0)>>

(* StoredAsRead: a string that one side of the program accepts, dump()      *)
(* writes, on one line, and the scanner reads back the same.                *)
StoredAsRead == ParsedIsDumpable /\ StaysOneLine /\ TextIsReadBack

(* OneSpelling: an accepted string has the bytes of its code points and no  *)
(* others, with no surrogate among them: two spellings of one name (raw, by *)
(* one escape or by two) cannot be two accounts.                            *)
OneSpelling ==
  Parsed => LET points == Dump(Text).points
            IN  /\ Text = FlattenSeq([i \in DOMAIN points |-> Encoded(points[i])])
                /\ \A i \in DOMAIN points : points[i] <= 1114111 /\ points[i] \notin Surrogates

(* BufferSuffices: dump_escaped writes inside string_buffer, although it    *)
(* looks at the room that is left only when a code point is complete.       *)
BufferSuffices == Parsed => Dump(Text).most <= BufferSize

(* NumbersExactly: the scanner takes the longest number of the grammar that *)
(* is there, and gives up exactly when no number begins like that, so       *)
(* neither a client's malformed line nor a cut file passes for a number.    *)
NumbersExactly ==
  InNumber => \A byte \in NumberBytes :
                LET next == Scan(lexer, byte)
                    longer == Append(Text, byte)
                IN  CASE next.goal = "parse_error" -> ~Begins(longer)
                      [] next.goal \in NumberGoals -> next.token_buffer = longer /\ Begins(longer)
                      [] OTHER                     -> IsNumber(Text) /\ ~Begins(longer)

(* ScannerInv: the types, and the numbers: they are read as the grammar     *)
(* says and written as they were read.                                      *)
ScannerInv == TypeOK /\ NumbersExactly /\ IntegerIsReadBack
=============================================================================
