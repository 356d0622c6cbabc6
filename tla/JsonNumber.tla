----------------------------- MODULE JsonNumber -----------------------------
(***************************************************************************)
(* The numbers of the JSON library: scan_number, the part of the scanner   *)
(* that JsonLexer uses for a digit or a minus, and dump_integer, which     *)
(* writes sequences, resources, client ids and camp levels.  Fractions are *)
(* scanned and their value is left out: the program writes none.           *)
(***************************************************************************)
EXTENDS Integers, SequencesExt

CONSTANT IntegerMax  \* of number_integer_t, 2^63 - 1 in the build

ASSUME IntegerAssumption == IntegerMax \in Nat

UnsignedMax == 2 * IntegerMax + 1

Ascii(digit) == 48 + digit
Digit == Ascii(0) .. Ascii(9)
Minus == 45
Plus == 43
Point == 46
Exponent == {69, 101}

(* The labels of scan_number that bytes are read at. *)
NumberGoals ==
  {"minus", "zero", "any1", "decimal1", "decimal2", "exponent", "sign", "any2"}

-----------------------------------------------------------------------------
(* scan_number *)

(* Mutant: digits may follow a leading zero. *)
GotoPadded(from, byte) ==
  IF from = "init" /\ byte = Minus THEN "minus"
  ELSE IF from \in {"init", "minus"} /\ byte = Ascii(0) THEN "zero"
  ELSE IF from \in {"init", "minus", "zero", "any1"} /\ byte \in Digit THEN "any1"
  ELSE IF from \in {"zero", "any1"} /\ byte = Point THEN "decimal1"
  ELSE IF from \in {"decimal1", "decimal2"} /\ byte \in Digit THEN "decimal2"
  ELSE IF from \in {"zero", "any1", "decimal2"} /\ byte \in Exponent THEN "exponent"
  ELSE IF from = "exponent" /\ byte \in {Plus, Minus} THEN "sign"
  ELSE IF from \in {"exponent", "sign", "any2"} /\ byte \in Digit THEN "any2"
  ELSE IF from \in {"zero", "any1", "decimal2", "any2"} THEN "done"
  ELSE "parse_error"

Goto(from, byte) ==
  IF from = "init" /\ byte = Minus THEN "minus"
  ELSE IF from \in {"init", "minus"} /\ byte = Ascii(0) THEN "zero"
  ELSE IF from \in {"init", "minus", "any1"} /\ byte \in Digit THEN "any1"
  ELSE IF from \in {"zero", "any1"} /\ byte = Point THEN "decimal1"
  ELSE IF from \in {"decimal1", "decimal2"} /\ byte \in Digit THEN "decimal2"
  ELSE IF from \in {"zero", "any1", "decimal2"} /\ byte \in Exponent THEN "exponent"
  ELSE IF from = "exponent" /\ byte \in {Plus, Minus} THEN "sign"
  ELSE IF from \in {"exponent", "sign", "any2"} /\ byte \in Digit THEN "any2"
  ELSE IF from \in {"zero", "any1", "decimal2", "any2"} THEN "done"
  ELSE "parse_error"

(* number_type is only assigned where a sign, a point or an exponent leads. *)
TypeAt(to, number_type) ==
  CASE to = "minus"                      -> "value_integer"
    [] to \in {"decimal1", "exponent"}   -> "value_float"
    [] OTHER                             -> number_type

-----------------------------------------------------------------------------
(* strtoull and strtoll, and what becomes of a number that is too large.    *)
Magnitude(text) ==
  LET value[n \in 0 .. Len(text)] ==
        IF n = 0 THEN 0
        ELSE IF text[n] = Minus THEN value[n - 1]
        ELSE 10 * value[n - 1] + (text[n] - Ascii(0))
  IN  value[Len(text)]

Converted(type, text) ==
  LET x == Magnitude(text)
  IN  CASE type = "value_unsigned" /\ x <= UnsignedMax   -> [type |-> type, value |-> x]
        [] type = "value_integer" /\ x <= IntegerMax + 1 -> [type |-> type, value |-> -x]
        [] OTHER                                         -> [type |-> "value_float", value |-> 0]

(* scan_number with the next byte.  The one that ends a number is not part  *)
(* of it (unget).                                                           *)
NumberByte(s, byte) ==
  LET to == Goto(s.goal, byte)
  IN  CASE to = "done"         -> [s EXCEPT !.goal = Converted(s.return_type, s.token_buffer).type]
        [] to = "parse_error"  -> [s EXCEPT !.goal = to]
        [] OTHER               -> [s EXCEPT !.goal = to,
                                            !.return_type = TypeAt(to, @),
                                            !.token_buffer = Append(@, byte)]

-----------------------------------------------------------------------------
(* dump_integer: the length first, then pairs of digits from the end of     *)
(* number_buffer, where 0 is what nobody wrote.                             *)

(* Four digits at a time. *)
count_digits[x \in Nat] ==
  IF x < 10000
  THEN IF x < 10 THEN 1 ELSE IF x < 100 THEN 2 ELSE IF x < 1000 THEN 3 ELSE 4
  ELSE 4 + count_digits[x \div 10000]

Pair(x) == <<Ascii(x \div 10), Ascii(x % 10)>>

(* Pairs as long as there are any, then what is left. *)
Pairs[x \in Nat] ==
  IF x >= 100 THEN Pairs[x \div 100] \o Pair(x % 100)
  ELSE IF x >= 10 THEN Pair(x)
  ELSE <<Ascii(x)>>

(* number_buffer with these digits at its end. *)
Filled(sign, n_chars, digits) ==
  LET before == n_chars - Len(digits)
  IN  [i \in 1 .. n_chars |-> IF i > before THEN digits[i - before]
                             ELSE IF i <= Len(sign) THEN sign[i]
                             ELSE 0]

dump_integer(x) ==
  LET abs_value == IF x < 0 THEN -(x + 1) + 1 ELSE x
      sign == IF x < 0 THEN <<Minus>> ELSE <<>>
  IN  Filled(sign, Len(sign) + count_digits[abs_value], Pairs[abs_value])

-----------------------------------------------------------------------------
(* The grammar of RFC 8259. *)
AllDigits(text) == text # <<>> /\ \A i \in DOMAIN text : text[i] \in Digit
IsInt(text) == AllDigits(text) /\ (text[1] = Ascii(0) => Len(text) = 1)
IsFrac(text) == text = <<>> \/ (Head(text) = Point /\ AllDigits(Tail(text)))
IsExp(text) ==
  \/ text = <<>>
  \/ /\ Head(text) \in Exponent
     /\ \/ AllDigits(Tail(text))
        \/ /\ Len(text) > 1
           /\ text[2] \in {Plus, Minus}
           /\ AllDigits(SubSeq(text, 3, Len(text)))

IsNumber(text) ==
  \E minus \in {0, 1}, i, j \in 0 .. Len(text) :
    /\ minus <= i /\ i <= j
    /\ minus = 1 => text[1] = Minus
    /\ IsInt(SubSeq(text, minus + 1, i))
    /\ IsFrac(SubSeq(text, i + 1, j))
    /\ IsExp(SubSeq(text, j + 1, Len(text)))

(* Whatever a number can begin with, one digit makes it a number. *)
Begins(text) == IsNumber(text) \/ IsNumber(Append(text, Ascii(0)))
=============================================================================
