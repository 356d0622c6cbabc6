-------------------------- MODULE JsonLexerProofs --------------------------
(***************************************************************************)
(* What JsonLexer promises of a string and of a number of any length.      *)
(* Strings: the two halves of the library know UTF-8 each in its own way,  *)
(* so StringInv ties them together after every byte that scan_string       *)
(* takes: decode's automaton is in the state that its ranges stand for     *)
(* (Following), what dump_escaped has written of it is in the buffer and   *)
(* has no newline (DumpsTo), and scan_string, reading that, would be where *)
(* it is now (Between).  Numbers: the label that scan_number is at stands  *)
(* for a prefix of a number of the grammar (SoFar), and the digits it has  *)
(* are those that dump_integer would write (Spelled), so NumberInv holds.  *)
(* The recursive functions (Dump, Scans, FlattenSeq, Magnitude, Pairs,     *)
(* count_digits) take one more element at a time.                          *)
(***************************************************************************)
EXTENDS JsonLexer, SequenceTheorems, WellFoundedInduction, TLAPS

-----------------------------------------------------------------------------
(* Induction, as a fact about sets. *)
LEMMA Least ==
  ASSUME NEW T, T \subseteq Nat, T # {}
  PROVE  \E x \in T : \A y \in T : x <= y
<1>1. PICK x \in T : \A y \in T : ~ (<<y, x>> \in OpToRel(<, Nat))
  BY NatLessThanWellFounded, WFMin
<1>2. \A y \in T : ~(y < x)
  BY <1>1 DEF OpToRel
<1> QED
  BY <1>2

LEMMA Induction ==
  ASSUME NEW T, 0 \in T, \A k \in Nat : k \in T => k + 1 \in T
  PROVE  Nat \subseteq T
<1> SUFFICES ASSUME Nat \ T # {} PROVE FALSE
  OBVIOUS
<1>1. PICK x \in Nat \ T : \A y \in Nat \ T : x <= y
  BY Least
<1>2. x # 0
  OBVIOUS
<1>3. PICK k \in Nat : x = k + 1
  <2>1. x - 1 \in Nat /\ x = (x - 1) + 1
    BY <1>2
  <2> QED
    BY <2>1
<1>4. k \in T
  BY <1>1, <1>3
<1> QED
  BY <1>3, <1>4

(* A sequence has its last element behind the others. *)
LEMMA Appended ==
  ASSUME NEW S, NEW t \in Seq(S), NEW b \in S
  PROVE  /\ Append(t, b) \in Seq(S) /\ Len(Append(t, b)) = Len(t) + 1
         /\ Append(t, b)[Len(t) + 1] = b
         /\ \A n \in 1 .. Len(t) : Append(t, b)[n] = t[n]
OBVIOUS

-----------------------------------------------------------------------------
(* Dump, one byte more *)

Byte == 0 .. 255

(* The equation of the recursive function in Dump, up to the m-th byte. *)
Dumps(text, m, f) ==
  f = [n \in 0 .. m |-> IF n = 0 THEN DumpStart ELSE Dumped(f[n - 1], text[n])]

LEMMA DumpsExists ==
  ASSUME NEW text, NEW l \in Nat
  PROVE  \E f : Dumps(text, l, f)
<1> DEFINE T == {m \in Nat : \E f : Dumps(text, m, f)}
<1>1. 0 \in T
  <2>1. PICK f : f = [n \in 0 .. 0 |-> DumpStart]
    OBVIOUS
  <2>2. Dumps(text, 0, f)
    BY <2>1 DEF Dumps
  <2> QED
    BY <2>2
<1>2. ASSUME NEW k \in Nat, k \in T
      PROVE  k + 1 \in T
  <2>1. PICK f : Dumps(text, k, f)
    BY <1>2
  <2>2. PICK m \in Nat : m = k + 1
    OBVIOUS
  <2>3. PICK g : g = [n \in 0 .. m |-> IF n = m THEN Dumped(f[k], text[m]) ELSE f[n]]
    OBVIOUS
  <2>4. ASSUME NEW n \in 0 .. m
        PROVE  g[n] = IF n = 0 THEN DumpStart ELSE Dumped(g[n - 1], text[n])
    <3>1. CASE n = m
      <4>1. g[m] = Dumped(f[k], text[m]) /\ g[k] = f[k] /\ m - 1 = k /\ m # 0
        BY <2>2, <2>3
      <4> QED
        BY <3>1, <4>1, Zenon
    <3>2. CASE n # m
      <4>1. n \in 0 .. k /\ (n # 0 => n - 1 \in 0 .. m /\ n - 1 # m)
        BY <2>2, <3>2
      <4>2. g[n] = f[n] /\ (n # 0 => g[n - 1] = f[n - 1])
        BY <2>3, <3>2, <4>1
      <4>3. f[n] = IF n = 0 THEN DumpStart ELSE Dumped(f[n - 1], text[n])
        BY <2>1, <4>1 DEF Dumps
      <4> QED
        BY <4>2, <4>3
    <3> QED
      BY <3>1, <3>2
  <2>5. Dumps(text, m, g)
    <3>1. g = [n \in 0 .. m |-> g[n]]
      BY <2>3
    <3> QED
      BY <2>4, <3>1 DEF Dumps
  <2> QED
    BY <2>2, <2>5
<1> QED
  BY <1>1, <1>2, Induction

LEMMA DumpIs ==
  ASSUME NEW text, NEW l \in Nat, Len(text) = l
  PROVE  \E f : Dumps(text, l, f) /\ Dump(text) = f[l]
<1>1. \E f : Dumps(text, l, f)
  BY DumpsExists
<1>2. PICK g : g = CHOOSE f : Dumps(text, l, f)
  OBVIOUS
<1>3. Dumps(text, l, g)
  BY <1>1, <1>2, Zenon
<1>4. Dump(text) = g[l]
  BY <1>2 DEF Dump, Dumps
<1> QED
  BY <1>3, <1>4

(* dump_escaped takes the bytes one after the other. *)
LEMMA DumpEmpty == Dump(<<>>) = DumpStart
<1>1. PICK f : Dumps(<<>>, 0, f) /\ Dump(<<>>) = f[0]
  <2>1. Len(<<>>) = 0
    OBVIOUS
  <2> QED
    BY <2>1, DumpIs
<1> QED
  BY <1>1 DEF Dumps

LEMMA DumpAppend ==
  ASSUME NEW text \in Seq(Byte), NEW byte \in Byte
  PROVE  Dump(Append(text, byte)) = Dumped(Dump(text), byte)
<1>1. PICK l \in Nat : l = Len(text)
  OBVIOUS
<1>2. PICK m \in Nat : m = l + 1
  OBVIOUS
<1>3. PICK longer : longer = Append(text, byte)
  OBVIOUS
<1>4. Len(longer) = m /\ longer[m] = byte /\ \A n \in 1 .. l : longer[n] = text[n]
  BY <1>1, <1>2, <1>3, Appended
<1>5. PICK f : Dumps(text, l, f) /\ Dump(text) = f[l]
  BY <1>1, DumpIs
<1>6. PICK g : Dumps(longer, m, g) /\ Dump(longer) = g[m]
  BY <1>4, DumpIs
<1> DEFINE T == {n \in Nat : n <= l => f[n] = g[n]}
<1>7. 0 \in T
  BY <1>5, <1>6 DEF Dumps
<1>8. ASSUME NEW k \in Nat, k \in T
      PROVE  k + 1 \in T
  <2>1. SUFFICES ASSUME k + 1 <= l PROVE f[k + 1] = g[k + 1]
    OBVIOUS
  <2>2. PICK n \in 1 .. l : n = k + 1
    BY <2>1
  <2>3. n \in 0 .. l /\ n \in 0 .. m /\ n # 0 /\ n - 1 = k
    BY <1>2, <2>2
  <2>4. f[n] = Dumped(f[k], text[n])
    BY <1>5, <2>3 DEF Dumps
  <2>5. g[n] = Dumped(g[k], longer[n])
    BY <1>6, <2>3 DEF Dumps
  <2>6. f[k] = g[k] /\ longer[n] = text[n]
    BY <1>4, <1>8, <2>1
  <2> QED
    BY <2>2, <2>4, <2>5, <2>6
<1>9. Nat \subseteq T
  <2> HIDE DEF T
  <2> QED
    BY <1>7, <1>8, Induction
<1>10. f[l] = g[l]
  BY <1>9
<1>11. g[m] = Dumped(g[l], longer[m])
  <2>1. m \in 0 .. m /\ m # 0 /\ m - 1 = l
    BY <1>2
  <2> QED
    BY <1>6, <2>1 DEF Dumps
<1> QED
  BY <1>3, <1>4, <1>5, <1>6, <1>10, <1>11

-----------------------------------------------------------------------------
(* The automaton of decode and the ranges of the scanner *)

(* The ranges that the scanner expects where the automaton is in state. *)
RangesAt(state) ==
  CASE state = 2 -> <<Trailing>>
    [] state = 3 -> <<Trailing, Trailing>>
    [] state = 4 -> <<<<160, 191>>, Trailing>>
    [] state = 5 -> <<<<128, 159>>, Trailing>>
    [] state = 6 -> <<<<144, 191>>, Trailing, Trailing>>
    [] state = 7 -> <<Trailing, Trailing, Trailing>>
    [] state = 8 -> <<<<128, 143>>, Trailing, Trailing>>
    [] OTHER     -> <<>>

(* The states in the middle of a character. *)
Inside == 2 .. 8

After1(state, byte) == DecodeState(state, TypeOf(byte))

LEMMA Types ==
  ASSUME NEW byte \in Byte
  PROVE  /\ byte \in 0 .. 127                       => TypeOf(byte) = 0
         /\ byte \in 128 .. 143                     => TypeOf(byte) = 1
         /\ byte \in 144 .. 159                     => TypeOf(byte) = 9
         /\ byte \in 160 .. 191                     => TypeOf(byte) = 7
         /\ byte \in 194 .. 223                     => TypeOf(byte) = 2
         /\ byte = 224                              => TypeOf(byte) = 10
         /\ byte \in (225 .. 239) \ {237}           => TypeOf(byte) = 3
         /\ byte = 237                              => TypeOf(byte) = 4
         /\ byte = 240                              => TypeOf(byte) = 11
         /\ byte \in 241 .. 243                     => TypeOf(byte) = 6
         /\ byte = 244                              => TypeOf(byte) = 5
         /\ byte \in {192, 193} \cup (245 .. 255)   => TypeOf(byte) = 8
<1>1. byte \in 0 .. 127 => TypeOf(byte) = 0
  BY DEF TypeOf
<1>2. byte \in 128 .. 143 => TypeOf(byte) = 1
  BY DEF TypeOf
<1>3. byte \in 144 .. 159 => TypeOf(byte) = 9
  BY DEF TypeOf
<1>4. byte \in 160 .. 191 => TypeOf(byte) = 7
  BY DEF TypeOf
<1>5. byte \in 194 .. 223 => TypeOf(byte) = 2
  BY DEF TypeOf
<1>6. byte = 224 => TypeOf(byte) = 10
  BY DEF TypeOf
<1>7. byte \in (225 .. 239) \ {237} => TypeOf(byte) = 3
  BY DEF TypeOf
<1>8. byte = 237 => TypeOf(byte) = 4
  BY DEF TypeOf
<1>9. byte = 240 => TypeOf(byte) = 11
  BY DEF TypeOf
<1>10. byte \in 241 .. 243 => TypeOf(byte) = 6
  BY DEF TypeOf
<1>11. byte = 244 => TypeOf(byte) = 5
  BY DEF TypeOf
<1>12. byte \in {192, 193} \cup (245 .. 255) => TypeOf(byte) = 8
  BY DEF TypeOf
<1> QED
  BY <1>1, <1>2, <1>3, <1>4, <1>5, <1>6, <1>7, <1>8, <1>9, <1>10, <1>11, <1>12, Zenon

LEMMA StatesFirst ==
  /\ \A type \in {1, 7, 8, 9} : DecodeState(0, type) = 1
  /\ DecodeState(0, 0) = 0 /\ DecodeState(0, 2) = 2 /\ DecodeState(0, 3) = 3
  /\ DecodeState(0, 4) = 5 /\ DecodeState(0, 5) = 8 /\ DecodeState(0, 6) = 7
  /\ DecodeState(0, 10) = 4 /\ DecodeState(0, 11) = 6
BY DEF DecodeState, FirstState

LEMMA StatesLater ==
  ASSUME NEW type \in 0 .. 11
  PROVE  /\ DecodeState(2, type) = IF type \in {1, 7, 9} THEN 0 ELSE 1
         /\ DecodeState(3, type) = IF type \in {1, 7, 9} THEN 2 ELSE 1
         /\ DecodeState(4, type) = IF type = 7 THEN 2 ELSE 1
         /\ DecodeState(5, type) = IF type \in {1, 9} THEN 2 ELSE 1
         /\ DecodeState(6, type) = IF type \in {7, 9} THEN 3 ELSE 1
         /\ DecodeState(7, type) = IF type \in {1, 7, 9} THEN 3 ELSE 1
         /\ DecodeState(8, type) = IF type = 1 THEN 3 ELSE 1
BY DEF DecodeState

LEMMA RangesOfByte ==
  ASSUME NEW byte \in Byte
  PROVE  /\ byte \in 194 .. 223            => Ranges(byte) = <<Trailing>>
         /\ byte = 224                     => Ranges(byte) = <<<<160, 191>>, Trailing>>
         /\ byte \in (225 .. 239) \ {237}  => Ranges(byte) = <<Trailing, Trailing>>
         /\ byte = 237                     => Ranges(byte) = <<<<128, 159>>, Trailing>>
         /\ byte = 240                     => Ranges(byte) = <<<<144, 191>>, Trailing, Trailing>>
         /\ byte \in 241 .. 243            => Ranges(byte) = <<Trailing, Trailing, Trailing>>
         /\ byte = 244                     => Ranges(byte) = <<<<128, 143>>, Trailing, Trailing>>
         /\ byte \notin 194 .. 244         => Ranges(byte) = <<>>
<1>1. PICK a : a = <<Trailing>>
  OBVIOUS
<1>2. PICK b : b = <<<<160, 191>>, Trailing>>
  OBVIOUS
<1>3. PICK c : c = <<Trailing, Trailing>>
  OBVIOUS
<1>4. PICK d : d = <<<<128, 159>>, Trailing>>
  OBVIOUS
<1>5. PICK e : e = <<<<144, 191>>, Trailing, Trailing>>
  OBVIOUS
<1>6. PICK f : f = <<Trailing, Trailing, Trailing>>
  OBVIOUS
<1>7. PICK g : g = <<<<128, 143>>, Trailing, Trailing>>
  OBVIOUS
<1>8. PICK h : h = <<>>
  OBVIOUS
<1>9. Ranges(byte) =
        CASE byte \in 194 .. 223           -> a
          [] byte = 224                    -> b
          [] byte \in (225 .. 239) \ {237} -> c
          [] byte = 237                    -> d
          [] byte = 240                    -> e
          [] byte \in 241 .. 243           -> f
          [] byte = 244                    -> g
          [] OTHER                         -> h
  BY <1>1, <1>2, <1>3, <1>4, <1>5, <1>6, <1>7, <1>8, Zenon DEF Ranges, RangesFrom
<1>10. /\ byte \in 194 .. 223            => Ranges(byte) = a
       /\ byte = 224                     => Ranges(byte) = b
       /\ byte \in (225 .. 239) \ {237}  => Ranges(byte) = c
       /\ byte = 237                     => Ranges(byte) = d
       /\ byte = 240                     => Ranges(byte) = e
       /\ byte \in 241 .. 243            => Ranges(byte) = f
       /\ byte = 244                     => Ranges(byte) = g
       /\ byte \notin 194 .. 244         => Ranges(byte) = h
  BY <1>9
<1>11. byte \in 194 .. 223 => Ranges(byte) = <<Trailing>>
  BY <1>1, <1>10, Zenon
<1>12. byte = 224 => Ranges(byte) = <<<<160, 191>>, Trailing>>
  BY <1>2, <1>10, Zenon
<1>13. byte \in (225 .. 239) \ {237} => Ranges(byte) = <<Trailing, Trailing>>
  BY <1>3, <1>10, Zenon
<1>14. byte = 237 => Ranges(byte) = <<<<128, 159>>, Trailing>>
  BY <1>4, <1>10, Zenon
<1>15. byte = 240 => Ranges(byte) = <<<<144, 191>>, Trailing, Trailing>>
  BY <1>5, <1>10, Zenon
<1>16. byte \in 241 .. 243 => Ranges(byte) = <<Trailing, Trailing, Trailing>>
  BY <1>6, <1>10, Zenon
<1>17. byte = 244 => Ranges(byte) = <<<<128, 143>>, Trailing, Trailing>>
  BY <1>7, <1>10, Zenon
<1>18. byte \notin 194 .. 244 => Ranges(byte) = <<>>
  BY <1>8, <1>10, Zenon
<1> QED
  BY <1>11, <1>12, <1>13, <1>14, <1>15, <1>16, <1>17, <1>18, Zenon

LEMMA RangesOfState ==
  /\ RangesAt(0) = <<>>
  /\ RangesAt(2) = <<Trailing>>
  /\ RangesAt(3) = <<Trailing, Trailing>>
  /\ RangesAt(4) = <<<<160, 191>>, Trailing>>
  /\ RangesAt(5) = <<<<128, 159>>, Trailing>>
  /\ RangesAt(6) = <<<<144, 191>>, Trailing, Trailing>>
  /\ RangesAt(7) = <<Trailing, Trailing, Trailing>>
  /\ RangesAt(8) = <<<<128, 143>>, Trailing, Trailing>>
BY SMTT(30) DEF RangesAt

LEMMA Tuples ==
  ASSUME NEW a, NEW b, NEW c
  PROVE  /\ Tail(<<a>>) = <<>> /\ Tail(<<a, b>>) = <<b>> /\ Tail(<<a, b, c>>) = <<b, c>>
         /\ Len(<<a>>) = 1 /\ Len(<<a, b>>) = 2 /\ Len(<<a, b, c>>) = 3
         /\ <<a>>[1] = a /\ <<a, b>>[1] = a /\ <<a, b>>[2] = b /\ <<a, b, c>>[1] = a
         /\ <<a>> # <<>> /\ <<a, b>> # <<>> /\ <<a, b, c>> # <<>>
OBVIOUS

(* The first byte of a character: utf8d and scan_string agree on it. *)
LEMMA FirstOfOne ==
  ASSUME NEW byte \in 0 .. 127
  PROVE  After1(0, byte) = 0 /\ FirstBits(byte) = byte
<1>1. TypeOf(byte) = 0
  BY Types DEF Byte
<1>2. After1(0, byte) = 0
  BY <1>1, StatesFirst DEF After1
<1>3. FirstBits(byte) = byte
  BY <1>1 DEF FirstBits
<1> QED
  BY <1>2, <1>3

LEMMA FirstOfMany ==
  ASSUME NEW byte \in Byte \ (0 .. 127), After1(0, byte) # 1
  PROVE  /\ byte \in 194 .. 244
         /\ After1(0, byte) \in Inside
         /\ Ranges(byte) = RangesAt(After1(0, byte))
<1>1. \/ byte \in 128 .. 193 \cup (245 .. 255)
      \/ byte \in 194 .. 223
      \/ byte = 224
      \/ byte \in (225 .. 239) \ {237}
      \/ byte = 237
      \/ byte = 240
      \/ byte \in 241 .. 243
      \/ byte = 244
  BY DEF Byte
<1>2. byte \notin 128 .. 193 \cup (245 .. 255)
  <2>1. SUFFICES ASSUME byte \in 128 .. 193 \cup (245 .. 255) PROVE TypeOf(byte) \in {1, 7, 8, 9}
    BY StatesFirst DEF After1
  <2> QED
    BY <2>1, Types DEF Byte
<1>3. CASE byte \in 194 .. 223
  <2>1. After1(0, byte) = 2
    BY <1>3, Types, StatesFirst DEF After1
  <2> QED
    BY <1>3, <2>1, RangesOfByte, RangesOfState DEF Inside
<1>4. CASE byte = 224
  <2>1. After1(0, byte) = 4
    BY <1>4, Types, StatesFirst DEF After1
  <2> QED
    BY <1>4, <2>1, RangesOfByte, RangesOfState DEF Inside
<1>5. CASE byte \in (225 .. 239) \ {237}
  <2>1. After1(0, byte) = 3
    BY <1>5, Types, StatesFirst DEF After1
  <2> QED
    BY <1>5, <2>1, RangesOfByte, RangesOfState DEF Inside
<1>6. CASE byte = 237
  <2>1. After1(0, byte) = 5
    BY <1>6, Types, StatesFirst DEF After1
  <2> QED
    BY <1>6, <2>1, RangesOfByte, RangesOfState DEF Inside
<1>7. CASE byte = 240
  <2>1. After1(0, byte) = 6
    BY <1>7, Types, StatesFirst DEF After1
  <2> QED
    BY <1>7, <2>1, RangesOfByte, RangesOfState DEF Inside
<1>8. CASE byte \in 241 .. 243
  <2>1. After1(0, byte) = 7
    BY <1>8, Types, StatesFirst DEF After1
  <2> QED
    BY <1>8, <2>1, RangesOfByte, RangesOfState DEF Inside
<1>9. CASE byte = 244
  <2>1. After1(0, byte) = 8
    BY <1>9, Types, StatesFirst DEF After1
  <2> QED
    BY <1>9, <2>1, RangesOfByte, RangesOfState DEF Inside
<1> QED
  BY <1>1, <1>2, <1>3, <1>4, <1>5, <1>6, <1>7, <1>8, <1>9

(* A byte that follows: it is in the range that the scanner expects exactly *)
(* if the automaton takes it, and both then expect the same.                *)
Follows(state, byte, low, high, next) ==
  /\ After1(state, byte) # 1 <=> low <= byte /\ byte <= high
  /\ After1(state, byte) # 1 => byte \in 128 .. 191 /\ After1(state, byte) = next

LEMMA StateFollows ==
  ASSUME NEW byte \in Byte
  PROVE  /\ Follows(2, byte, 128, 191, 0)
         /\ Follows(3, byte, 128, 191, 2)
         /\ Follows(4, byte, 160, 191, 2)
         /\ Follows(5, byte, 128, 159, 2)
         /\ Follows(6, byte, 144, 191, 3)
         /\ Follows(7, byte, 128, 191, 3)
         /\ Follows(8, byte, 128, 143, 3)
<1>1. PICK type : type = TypeOf(byte)
  OBVIOUS
<1>2. /\ type \in 0 .. 11
      /\ type \in {1, 7, 9} <=> byte \in 128 .. 191
      /\ type = 7 <=> byte \in 160 .. 191
      /\ type \in {1, 9} <=> byte \in 128 .. 159
      /\ type \in {7, 9} <=> byte \in 144 .. 191
      /\ type = 1 <=> byte \in 128 .. 143
  <2>1. \/ byte \in 0 .. 127 /\ type = 0
        \/ byte \in 128 .. 143 /\ type = 1
        \/ byte \in 144 .. 159 /\ type = 9
        \/ byte \in 160 .. 191 /\ type = 7
        \/ byte \in 192 .. 255 /\ type \in {2, 3, 4, 5, 6, 8, 10, 11}
    BY <1>1, Types DEF Byte
  <2> QED
    BY <2>1
<1>3. \A state : After1(state, byte) = DecodeState(state, type)
  BY <1>1 DEF After1
<1> QED
  BY <1>2, <1>3, StatesLater DEF Follows, Byte

(* What that means for the ranges. *)
Agrees(state, byte) ==
  /\ RangesAt(state) # <<>>
  /\ After1(state, byte) # 1
       <=> RangesAt(state)[1][1] <= byte /\ byte <= RangesAt(state)[1][2]
  /\ After1(state, byte) # 1 =>
       /\ byte \in 128 .. 191
       /\ After1(state, byte) \in {0, 2, 3}
       /\ RangesAt(After1(state, byte)) = Tail(RangesAt(state))
       /\ After1(state, byte) = 0 <=> Len(RangesAt(state)) = 1

LEMMA Following ==
  ASSUME NEW state \in Inside, NEW byte \in Byte
  PROVE  Agrees(state, byte)
<1>1. CASE state = 2
  <2>1. PICK first : first = Trailing
    OBVIOUS
  <2>2. PICK ranges : ranges = <<Trailing>>
    OBVIOUS
  <2>3. RangesAt(2) = ranges /\ ranges # <<>> /\ ranges[1] = first /\ Len(ranges) = 1
    BY <2>1, <2>2, RangesOfState, Tuples
  <2>4. RangesAt(0) = Tail(ranges)
    BY <2>2, RangesOfState, Tuples
  <2>5. first[1] = 128 /\ first[2] = 191
    BY <2>1 DEF Trailing
  <2>6. /\ After1(2, byte) # 1 <=> 128 <= byte /\ byte <= 191
        /\ After1(2, byte) # 1 => byte \in 128 .. 191 /\ After1(2, byte) = 0
    BY StateFollows DEF Follows
  <2>7. After1(2, byte) # 1 => RangesAt(After1(2, byte)) = Tail(ranges)
    BY <2>4, <2>6, Zenon
  <2>8. After1(2, byte) # 1 =>
          After1(2, byte) \in {0, 2, 3} /\ (After1(2, byte) = 0 <=> Len(ranges) = 1)
    BY <2>3, <2>6
  <2>9. After1(2, byte) # 1 <=> ranges[1][1] <= byte /\ byte <= ranges[1][2]
    BY <2>3, <2>5, <2>6, Zenon
  <2> QED
    BY <1>1, <2>3, <2>6, <2>7, <2>8, <2>9, Zenon DEF Agrees
<1>2. CASE state = 3
  <2>1. PICK first : first = Trailing
    OBVIOUS
  <2>2. PICK ranges : ranges = <<Trailing, Trailing>>
    OBVIOUS
  <2>3. RangesAt(3) = ranges /\ ranges # <<>> /\ ranges[1] = first /\ Len(ranges) = 2
    BY <2>1, <2>2, RangesOfState, Tuples
  <2>4. RangesAt(2) = Tail(ranges)
    BY <2>2, RangesOfState, Tuples
  <2>5. first[1] = 128 /\ first[2] = 191
    BY <2>1 DEF Trailing
  <2>6. /\ After1(3, byte) # 1 <=> 128 <= byte /\ byte <= 191
        /\ After1(3, byte) # 1 => byte \in 128 .. 191 /\ After1(3, byte) = 2
    BY StateFollows DEF Follows
  <2>7. After1(3, byte) # 1 => RangesAt(After1(3, byte)) = Tail(ranges)
    BY <2>4, <2>6, Zenon
  <2>8. After1(3, byte) # 1 =>
          After1(3, byte) \in {0, 2, 3} /\ (After1(3, byte) = 0 <=> Len(ranges) = 1)
    BY <2>3, <2>6
  <2>9. After1(3, byte) # 1 <=> ranges[1][1] <= byte /\ byte <= ranges[1][2]
    BY <2>3, <2>5, <2>6, Zenon
  <2> QED
    BY <1>2, <2>3, <2>6, <2>7, <2>8, <2>9, Zenon DEF Agrees
<1>3. CASE state = 4
  <2>1. PICK first : first = <<160, 191>>
    OBVIOUS
  <2>2. PICK ranges : ranges = <<<<160, 191>>, Trailing>>
    OBVIOUS
  <2>3. RangesAt(4) = ranges /\ ranges # <<>> /\ ranges[1] = first /\ Len(ranges) = 2
    BY <2>1, <2>2, RangesOfState, Tuples
  <2>4. RangesAt(2) = Tail(ranges)
    BY <2>2, RangesOfState, Tuples
  <2>5. first[1] = 160 /\ first[2] = 191
    BY <2>1
  <2>6. /\ After1(4, byte) # 1 <=> 160 <= byte /\ byte <= 191
        /\ After1(4, byte) # 1 => byte \in 128 .. 191 /\ After1(4, byte) = 2
    BY StateFollows DEF Follows
  <2>7. After1(4, byte) # 1 => RangesAt(After1(4, byte)) = Tail(ranges)
    BY <2>4, <2>6, Zenon
  <2>8. After1(4, byte) # 1 =>
          After1(4, byte) \in {0, 2, 3} /\ (After1(4, byte) = 0 <=> Len(ranges) = 1)
    BY <2>3, <2>6
  <2>9. After1(4, byte) # 1 <=> ranges[1][1] <= byte /\ byte <= ranges[1][2]
    BY <2>3, <2>5, <2>6, Zenon
  <2> QED
    BY <1>3, <2>3, <2>6, <2>7, <2>8, <2>9, Zenon DEF Agrees
<1>4. CASE state = 5
  <2>1. PICK first : first = <<128, 159>>
    OBVIOUS
  <2>2. PICK ranges : ranges = <<<<128, 159>>, Trailing>>
    OBVIOUS
  <2>3. RangesAt(5) = ranges /\ ranges # <<>> /\ ranges[1] = first /\ Len(ranges) = 2
    BY <2>1, <2>2, RangesOfState, Tuples
  <2>4. RangesAt(2) = Tail(ranges)
    BY <2>2, RangesOfState, Tuples
  <2>5. first[1] = 128 /\ first[2] = 159
    BY <2>1
  <2>6. /\ After1(5, byte) # 1 <=> 128 <= byte /\ byte <= 159
        /\ After1(5, byte) # 1 => byte \in 128 .. 191 /\ After1(5, byte) = 2
    BY StateFollows DEF Follows
  <2>7. After1(5, byte) # 1 => RangesAt(After1(5, byte)) = Tail(ranges)
    BY <2>4, <2>6, Zenon
  <2>8. After1(5, byte) # 1 =>
          After1(5, byte) \in {0, 2, 3} /\ (After1(5, byte) = 0 <=> Len(ranges) = 1)
    BY <2>3, <2>6
  <2>9. After1(5, byte) # 1 <=> ranges[1][1] <= byte /\ byte <= ranges[1][2]
    BY <2>3, <2>5, <2>6, Zenon
  <2> QED
    BY <1>4, <2>3, <2>6, <2>7, <2>8, <2>9, Zenon DEF Agrees
<1>5. CASE state = 6
  <2>1. PICK first : first = <<144, 191>>
    OBVIOUS
  <2>2. PICK ranges : ranges = <<<<144, 191>>, Trailing, Trailing>>
    OBVIOUS
  <2>3. RangesAt(6) = ranges /\ ranges # <<>> /\ ranges[1] = first /\ Len(ranges) = 3
    BY <2>1, <2>2, RangesOfState, Tuples
  <2>4. RangesAt(3) = Tail(ranges)
    BY <2>2, RangesOfState, Tuples
  <2>5. first[1] = 144 /\ first[2] = 191
    BY <2>1
  <2>6. /\ After1(6, byte) # 1 <=> 144 <= byte /\ byte <= 191
        /\ After1(6, byte) # 1 => byte \in 128 .. 191 /\ After1(6, byte) = 3
    BY StateFollows DEF Follows
  <2>7. After1(6, byte) # 1 => RangesAt(After1(6, byte)) = Tail(ranges)
    BY <2>4, <2>6, Zenon
  <2>8. After1(6, byte) # 1 =>
          After1(6, byte) \in {0, 2, 3} /\ (After1(6, byte) = 0 <=> Len(ranges) = 1)
    BY <2>3, <2>6
  <2>9. After1(6, byte) # 1 <=> ranges[1][1] <= byte /\ byte <= ranges[1][2]
    BY <2>3, <2>5, <2>6, Zenon
  <2> QED
    BY <1>5, <2>3, <2>6, <2>7, <2>8, <2>9, Zenon DEF Agrees
<1>6. CASE state = 7
  <2>1. PICK first : first = Trailing
    OBVIOUS
  <2>2. PICK ranges : ranges = <<Trailing, Trailing, Trailing>>
    OBVIOUS
  <2>3. RangesAt(7) = ranges /\ ranges # <<>> /\ ranges[1] = first /\ Len(ranges) = 3
    BY <2>1, <2>2, RangesOfState, Tuples
  <2>4. RangesAt(3) = Tail(ranges)
    BY <2>2, RangesOfState, Tuples
  <2>5. first[1] = 128 /\ first[2] = 191
    BY <2>1 DEF Trailing
  <2>6. /\ After1(7, byte) # 1 <=> 128 <= byte /\ byte <= 191
        /\ After1(7, byte) # 1 => byte \in 128 .. 191 /\ After1(7, byte) = 3
    BY StateFollows DEF Follows
  <2>7. After1(7, byte) # 1 => RangesAt(After1(7, byte)) = Tail(ranges)
    BY <2>4, <2>6, Zenon
  <2>8. After1(7, byte) # 1 =>
          After1(7, byte) \in {0, 2, 3} /\ (After1(7, byte) = 0 <=> Len(ranges) = 1)
    BY <2>3, <2>6
  <2>9. After1(7, byte) # 1 <=> ranges[1][1] <= byte /\ byte <= ranges[1][2]
    BY <2>3, <2>5, <2>6, Zenon
  <2> QED
    BY <1>6, <2>3, <2>6, <2>7, <2>8, <2>9, Zenon DEF Agrees
<1>7. CASE state = 8
  <2>1. PICK first : first = <<128, 143>>
    OBVIOUS
  <2>2. PICK ranges : ranges = <<<<128, 143>>, Trailing, Trailing>>
    OBVIOUS
  <2>3. RangesAt(8) = ranges /\ ranges # <<>> /\ ranges[1] = first /\ Len(ranges) = 3
    BY <2>1, <2>2, RangesOfState, Tuples
  <2>4. RangesAt(3) = Tail(ranges)
    BY <2>2, RangesOfState, Tuples
  <2>5. first[1] = 128 /\ first[2] = 143
    BY <2>1
  <2>6. /\ After1(8, byte) # 1 <=> 128 <= byte /\ byte <= 143
        /\ After1(8, byte) # 1 => byte \in 128 .. 191 /\ After1(8, byte) = 3
    BY StateFollows DEF Follows
  <2>7. After1(8, byte) # 1 => RangesAt(After1(8, byte)) = Tail(ranges)
    BY <2>4, <2>6, Zenon
  <2>8. After1(8, byte) # 1 =>
          After1(8, byte) \in {0, 2, 3} /\ (After1(8, byte) = 0 <=> Len(ranges) = 1)
    BY <2>3, <2>6
  <2>9. After1(8, byte) # 1 <=> ranges[1][1] <= byte /\ byte <= ranges[1][2]
    BY <2>3, <2>5, <2>6, Zenon
  <2> QED
    BY <1>7, <2>3, <2>6, <2>7, <2>8, <2>9, Zenon DEF Agrees
<1> QED
  BY <1>1, <1>2, <1>3, <1>4, <1>5, <1>6, <1>7 DEF Inside

-----------------------------------------------------------------------------
(* The arithmetic of code points.  The bounds are inequalities, because the *)
(* prover would enumerate the ranges.                                       *)

(* Six more bits. *)
LEMMA SixBits ==
  ASSUME NEW c \in Nat, NEW x \in Nat, x <= 63, NEW cp \in Nat, cp = x + 64 * c
  PROVE  /\ cp \div 64 = c /\ cp % 64 = x
         /\ cp \div 4096 = c \div 64 /\ cp \div 262144 = c \div 4096
BY SMT

LEMMA SurrogateBounds ==
  ASSUME NEW cp \in Nat
  PROVE  /\ cp \in Surrogates <=> 55296 <= cp /\ cp <= 57343
         /\ cp \in HighSurrogates <=> 55296 <= cp /\ cp <= 56319
         /\ cp \in LowSurrogates <=> 56320 <= cp /\ cp <= 57343
BY SMT DEF Surrogates, HighSurrogates, LowSurrogates

LEMMA EncodedInTwo ==
  ASSUME NEW cp \in Nat, 128 <= cp, cp <= 2047
  PROVE  Encoded(cp) = <<192 + (cp \div 64), After(cp)>>
BY SMT DEF Encoded, EncodedFrom

LEMMA EncodedInThree ==
  ASSUME NEW cp \in Nat, 2048 <= cp, cp <= 65535
  PROVE  Encoded(cp) = <<224 + (cp \div 4096), After(cp \div 64), After(cp)>>
BY SMT DEF Encoded, EncodedFrom

LEMMA EncodedInFour ==
  ASSUME NEW cp \in Nat, 65536 <= cp
  PROVE  Encoded(cp) = <<240 + (cp \div 262144), After(cp \div 4096), After(cp \div 64), After(cp)>>
BY SMT DEF Encoded, EncodedFrom

Character(cp) == cp <= 1114111 /\ ~(55296 <= cp /\ cp <= 57343)

(* All but the last byte of a code point that is spelled in two, three or   *)
(* four, all but the last two.                                              *)
OneOfTwo(c, bytes) == 2 <= c /\ c <= 31 /\ bytes = <<192 + c>>

TwoOfThree(c, bytes) ==
  /\ 32 <= c /\ c <= 1023 /\ ~(864 <= c /\ c <= 895)
  /\ bytes = <<224 + (c \div 64), After(c)>>

ThreeOfFour(c, bytes) ==
  /\ 1024 <= c /\ c <= 17407
  /\ bytes = <<240 + (c \div 4096), After(c \div 64), After(c)>>

OneOfThree(c, bytes) == 1 <= c /\ c <= 15 /\ c # 13 /\ bytes = <<224 + c>>

TwoOfFour(c, bytes) == 16 <= c /\ c <= 271 /\ bytes = <<240 + (c \div 64), After(c)>>

(* The bytes that the automaton has taken of a code point, when it is in    *)
(* state with what it knows of it.                                          *)
Pending(state, c, bytes) ==
  \/ state = 0 /\ bytes = <<>>
  \/ state = 2 /\ (OneOfTwo(c, bytes) \/ TwoOfThree(c, bytes) \/ ThreeOfFour(c, bytes))
  \/ state = 3 /\ (OneOfThree(c, bytes) \/ TwoOfFour(c, bytes))
  \/ state = 4 /\ c = 0 /\ bytes = <<224>>
  \/ state = 5 /\ c = 13 /\ bytes = <<237>>
  \/ state = 6 /\ c = 0 /\ bytes = <<240>>
  \/ state = 7 /\ 1 <= c /\ c <= 3 /\ bytes = <<240 + c>>
  \/ state = 8 /\ c = 4 /\ bytes = <<244>>

(* The first byte. *)
LEMMA PendingFirst ==
  ASSUME NEW byte \in 194 .. 244
  PROVE  FirstBits(byte) \in Nat /\ Pending(After1(0, byte), FirstBits(byte), <<byte>>)
<1>1. CASE byte \in 194 .. 223
  <2>1. TypeOf(byte) = 2 /\ After1(0, byte) = 2
    BY <1>1, Types, StatesFirst DEF After1, Byte
  <2>2. FirstBits(byte) = byte - 192
    BY <1>1, <2>1 DEF FirstBits
  <2> QED
    BY <1>1, <2>1, <2>2, SMT DEF Pending, OneOfTwo, OneOfThree
<1>2. CASE byte = 224
  <2>1. TypeOf(byte) = 10 /\ After1(0, byte) = 4
    BY <1>2, Types, StatesFirst DEF After1, Byte
  <2>2. FirstBits(byte) = 0
    BY <1>2, <2>1 DEF FirstBits
  <2> QED
    BY <1>2, <2>1, <2>2, SMT DEF Pending, OneOfTwo, OneOfThree
<1>3. CASE byte \in (225 .. 239) \ {237}
  <2>1. TypeOf(byte) = 3 /\ After1(0, byte) = 3
    BY <1>3, Types, StatesFirst DEF After1, Byte
  <2>2. FirstBits(byte) = byte - 224
    BY <1>3, <2>1 DEF FirstBits
  <2> QED
    BY <1>3, <2>1, <2>2, SMT DEF Pending, OneOfTwo, OneOfThree
<1>4. CASE byte = 237
  <2>1. TypeOf(byte) = 4 /\ After1(0, byte) = 5
    BY <1>4, Types, StatesFirst DEF After1, Byte
  <2>2. FirstBits(byte) = 13
    BY <1>4, <2>1 DEF FirstBits
  <2> QED
    BY <1>4, <2>1, <2>2, SMT DEF Pending
<1>5. CASE byte = 240
  <2>1. TypeOf(byte) = 11 /\ After1(0, byte) = 6
    BY <1>5, Types, StatesFirst DEF After1, Byte
  <2>2. FirstBits(byte) = 0
    BY <1>5, <2>1 DEF FirstBits
  <2> QED
    BY <1>5, <2>1, <2>2, SMT DEF Pending
<1>6. CASE byte \in 241 .. 243
  <2>1. TypeOf(byte) = 6 /\ After1(0, byte) = 7
    BY <1>6, Types, StatesFirst DEF After1, Byte
  <2>2. FirstBits(byte) = byte - 240
    BY <1>6, <2>1 DEF FirstBits
  <2> QED
    BY <1>6, <2>1, <2>2, SMT DEF Pending
<1>7. CASE byte = 244
  <2>1. TypeOf(byte) = 5 /\ After1(0, byte) = 8
    BY <1>7, Types, StatesFirst DEF After1, Byte
  <2>2. FirstBits(byte) = 4
    BY <1>7, <2>1 DEF FirstBits
  <2> QED
    BY <1>7, <2>1, <2>2, SMT DEF Pending
<1> QED
  BY <1>1, <1>2, <1>3, <1>4, <1>5, <1>6, <1>7

(* Append, for short sequences. *)
LEMMA AppendOne ==
  ASSUME NEW S, NEW a \in S, NEW b \in S
  PROVE  Append(<<a>>, b) = <<a, b>>
<1>1. PICK s : s = Append(<<a>>, b)
  OBVIOUS
<1>2. PICK t : t = <<a, b>>
  OBVIOUS
<1>3. <<a>> \in Seq(S) /\ Len(<<a>>) = 1 /\ <<a>>[1] = a
  OBVIOUS
<1>4. s \in Seq(S) /\ Len(s) = 2 /\ s[1] = a /\ s[2] = b
  BY <1>1, <1>3
<1>5. t \in Seq(S) /\ Len(t) = 2 /\ t[1] = a /\ t[2] = b
  BY <1>2
<1>6. Len(s) = Len(t) /\ \A i \in 1 .. Len(s) : s[i] = t[i]
  BY <1>4, <1>5
<1>7. s = t
  BY <1>4, <1>5, <1>6, SeqEqual
<1> QED
  BY <1>1, <1>2, <1>7, Zenon

LEMMA AppendTwo ==
  ASSUME NEW S, NEW a \in S, NEW b \in S, NEW c \in S
  PROVE  Append(<<a, b>>, c) = <<a, b, c>>
<1>1. PICK s : s = Append(<<a, b>>, c)
  OBVIOUS
<1>2. PICK t : t = <<a, b, c>>
  OBVIOUS
<1>3. <<a, b>> \in Seq(S) /\ Len(<<a, b>>) = 2 /\ <<a, b>>[1] = a /\ <<a, b>>[2] = b
  OBVIOUS
<1>4. s \in Seq(S) /\ Len(s) = 3 /\ s[1] = a /\ s[2] = b /\ s[3] = c
  BY <1>1, <1>3
<1>5. t \in Seq(S) /\ Len(t) = 3 /\ t[1] = a /\ t[2] = b /\ t[3] = c
  BY <1>2
<1>6. Len(s) = Len(t) /\ \A i \in 1 .. Len(s) : s[i] = t[i]
  BY <1>4, <1>5
<1>7. s = t
  BY <1>4, <1>5, <1>6, SeqEqual
<1> QED
  BY <1>1, <1>2, <1>7, Zenon

LEMMA AppendThree ==
  ASSUME NEW S, NEW a \in S, NEW b \in S, NEW c \in S, NEW d \in S
  PROVE  Append(<<a, b, c>>, d) = <<a, b, c, d>>
<1>1. PICK s : s = Append(<<a, b, c>>, d)
  OBVIOUS
<1>2. PICK t : t = <<a, b, c, d>>
  OBVIOUS
<1>3. /\ <<a, b, c>> \in Seq(S) /\ Len(<<a, b, c>>) = 3
      /\ <<a, b, c>>[1] = a /\ <<a, b, c>>[2] = b /\ <<a, b, c>>[3] = c
  OBVIOUS
<1>4. s \in Seq(S) /\ Len(s) = 4 /\ s[1] = a /\ s[2] = b /\ s[3] = c /\ s[4] = d
  BY <1>1, <1>3
<1>5. t \in Seq(S) /\ Len(t) = 4 /\ t[1] = a /\ t[2] = b /\ t[3] = c /\ t[4] = d
  BY <1>2
<1>6. Len(s) = Len(t) /\ \A i \in 1 .. Len(s) : s[i] = t[i]
  BY <1>4, <1>5
<1>7. s = t
  BY <1>4, <1>5, <1>6, SeqEqual
<1> QED
  BY <1>1, <1>2, <1>7, Zenon

LEMMA AfterNat ==
  ASSUME NEW n \in Nat
  PROVE  After(n) \in Nat
BY DEF After

(* A byte that follows completes a code point, which is spelled like that,  *)
(* or brings it one byte further.                                           *)
Completed(cp, bytes) == 128 <= cp /\ Character(cp) /\ Encoded(cp) = bytes

LEMMA PendingNext ==
  ASSUME NEW state \in Inside, NEW c \in Nat, NEW bytes \in Seq(Byte), NEW byte \in Byte,
         NEW cp \in Nat, cp = (byte % 64) + 64 * c,
         Pending(state, c, bytes), After1(state, byte) # 1
  PROVE  IF After1(state, byte) = 0 THEN Completed(cp, Append(bytes, byte))
         ELSE Pending(After1(state, byte), cp, Append(bytes, byte))
<1>1. byte \in 128 .. 191
  BY Following DEF Agrees
<1>2. PICK x \in Nat : x <= 63 /\ byte = 128 + x /\ byte % 64 = x
  <2>1. /\ byte - 128 \in Nat /\ byte - 128 <= 63
        /\ byte = 128 + (byte - 128) /\ byte % 64 = byte - 128
    BY <1>1
  <2> QED
    BY <2>1
<1>3. /\ cp = x + 64 * c /\ cp \div 64 = c /\ cp % 64 = x
      /\ cp \div 4096 = c \div 64 /\ cp \div 262144 = c \div 4096
  BY <1>2, SixBits, SMT
<1>4. After(cp) = byte
  BY <1>2, <1>3, SMT DEF After
<1>5. CASE state = 2
  <2>1. After1(state, byte) = 0
    BY <1>5, StateFollows DEF Follows
  <2>2. CASE OneOfTwo(c, bytes)
    <3>1. 128 <= cp /\ cp <= 2047
      BY <1>2, <1>3, <2>2, SMT DEF OneOfTwo
    <3>2. Encoded(cp) = <<192 + (cp \div 64), After(cp)>>
      BY <3>1, EncodedInTwo, SMT
    <3>3. PICK p \in Nat : bytes = <<p>> /\ p = 192 + c
      BY <2>2, SMT DEF OneOfTwo
    <3>4. Encoded(cp) = <<p, byte>>
      BY <1>3, <1>4, <3>2, <3>3, SMT
    <3>5. Encoded(cp) = Append(bytes, byte)
      BY <3>3, <3>4, AppendOne
    <3> QED
      BY <2>1, <3>1, <3>5, SMT DEF Completed, Character
  <2>3. CASE TwoOfThree(c, bytes)
    <3>1. 2048 <= cp /\ cp <= 65535 /\ ~(55296 <= cp /\ cp <= 57343)
      BY <1>2, <1>3, <2>3, SMT DEF TwoOfThree
    <3>2. Encoded(cp) = <<224 + (cp \div 4096), After(cp \div 64), After(cp)>>
      BY <3>1, EncodedInThree, SMT
    <3>3. PICK p \in Nat, q \in Nat : bytes = <<p, q>> /\ p = 224 + (c \div 64) /\ q = After(c)
      BY <2>3, AfterNat, SMT DEF TwoOfThree
    <3>4. Encoded(cp) = <<p, q, byte>>
      BY <1>3, <1>4, <3>2, <3>3, SMT
    <3>5. Encoded(cp) = Append(bytes, byte)
      BY <3>3, <3>4, AppendTwo
    <3> QED
      BY <2>1, <3>1, <3>5, SMT DEF Completed, Character
  <2>4. CASE ThreeOfFour(c, bytes)
    <3>1. 65536 <= cp /\ cp <= 1114111
      BY <1>2, <1>3, <2>4, SMT DEF ThreeOfFour
    <3>2. Encoded(cp)
            = <<240 + (cp \div 262144), After(cp \div 4096), After(cp \div 64), After(cp)>>
      BY <3>1, EncodedInFour, SMTT(30)
    <3>3. PICK p \in Nat, q \in Nat, r \in Nat : /\ bytes = <<p, q, r>>
                         /\ p = 240 + (c \div 4096) /\ q = After(c \div 64) /\ r = After(c)
      BY <2>4, AfterNat, SMT DEF ThreeOfFour
    <3>4. Encoded(cp) = <<p, q, r, byte>>
      BY <1>3, <1>4, <3>2, <3>3, SMT
    <3>5. Encoded(cp) = Append(bytes, byte)
      BY <3>3, <3>4, AppendThree
    <3> QED
      BY <2>1, <3>1, <3>5, SMT DEF Completed, Character
  <2> QED
    BY <1>5, <2>2, <2>3, <2>4, SMTT(30) DEF Pending
<1>6. CASE state = 3
  <2>1. After1(state, byte) = 2
    BY <1>6, StateFollows DEF Follows
  <2>2. CASE OneOfThree(c, bytes)
    <3>1. 32 <= cp /\ cp <= 1023 /\ ~(864 <= cp /\ cp <= 895)
      BY <1>2, <1>3, <2>2, SMT DEF OneOfThree
    <3>2. PICK p \in Nat : bytes = <<p>> /\ p = 224 + (cp \div 64)
      BY <1>3, <2>2, SMT DEF OneOfThree
    <3>3. Append(bytes, byte) = <<p, After(cp)>>
      BY <1>4, <3>2, AppendOne
    <3>4. TwoOfThree(cp, Append(bytes, byte))
      BY <3>1, <3>2, <3>3, SMT DEF TwoOfThree
    <3> QED
      BY <2>1, <3>4, SMT DEF Pending
  <2>3. CASE TwoOfFour(c, bytes)
    <3>1. 1024 <= cp /\ cp <= 17407
      BY <1>2, <1>3, <2>3, SMT DEF TwoOfFour
    <3>2. PICK p \in Nat, q \in Nat :
            bytes = <<p, q>> /\ p = 240 + (cp \div 4096) /\ q = After(cp \div 64)
      BY <1>3, <2>3, AfterNat, SMT DEF TwoOfFour
    <3>3. Append(bytes, byte) = <<p, q, After(cp)>>
      BY <1>4, <3>2, AppendTwo
    <3>4. ThreeOfFour(cp, Append(bytes, byte))
      BY <3>1, <3>2, <3>3, SMT DEF ThreeOfFour
    <3> QED
      BY <2>1, <3>4, SMT DEF Pending
  <2> QED
    BY <1>6, <2>2, <2>3, SMT DEF Pending
<1>7. CASE state = 4
  <2>1. After1(state, byte) = 2 /\ 160 <= byte /\ c = 0 /\ bytes = <<224>>
    BY <1>7, StateFollows, SMT DEF Follows, Pending
  <2>2. 32 <= cp /\ cp <= 63 /\ cp \div 64 = 0
    BY <1>2, <1>3, <2>1, SMT
  <2>3. PICK p \in Nat : bytes = <<p>> /\ p = 224 + (cp \div 64)
    BY <2>1, <2>2, SMT
  <2>4. Append(bytes, byte) = <<p, After(cp)>>
    BY <1>4, <2>3, AppendOne
  <2>5. TwoOfThree(cp, Append(bytes, byte))
    BY <2>2, <2>3, <2>4, SMT DEF TwoOfThree
  <2> QED
    BY <2>1, <2>5, SMT DEF Pending
<1>8. CASE state = 5
  <2>1. After1(state, byte) = 2 /\ byte <= 159 /\ c = 13 /\ bytes = <<237>>
    BY <1>8, StateFollows, SMT DEF Follows, Pending
  <2>2. 832 <= cp /\ cp <= 863 /\ cp \div 64 = 13
    BY <1>2, <1>3, <2>1, SMT
  <2>3. PICK p \in Nat : bytes = <<p>> /\ p = 224 + (cp \div 64)
    BY <2>1, <2>2, SMT
  <2>4. Append(bytes, byte) = <<p, After(cp)>>
    BY <1>4, <2>3, AppendOne
  <2>5. TwoOfThree(cp, Append(bytes, byte))
    BY <2>2, <2>3, <2>4, SMT DEF TwoOfThree
  <2> QED
    BY <2>1, <2>5, SMT DEF Pending
<1>9. CASE state = 6
  <2>1. After1(state, byte) = 3 /\ 144 <= byte /\ c = 0 /\ bytes = <<240>>
    BY <1>9, StateFollows, SMT DEF Follows, Pending
  <2>2. 16 <= cp /\ cp <= 63 /\ cp \div 64 = 0
    BY <1>2, <1>3, <2>1, SMT
  <2>3. PICK p \in Nat : bytes = <<p>> /\ p = 240 + (cp \div 64)
    BY <2>1, <2>2, SMT
  <2>4. Append(bytes, byte) = <<p, After(cp)>>
    BY <1>4, <2>3, AppendOne
  <2>5. TwoOfFour(cp, Append(bytes, byte))
    BY <2>2, <2>3, <2>4, SMT DEF TwoOfFour
  <2> QED
    BY <2>1, <2>5, SMT DEF Pending
<1>10. CASE state = 7
  <2>1. After1(state, byte) = 3 /\ 1 <= c /\ c <= 3 /\ bytes = <<240 + c>>
    BY <1>10, StateFollows, SMT DEF Follows, Pending
  <2>2. 64 <= cp /\ cp <= 255 /\ cp \div 64 = c
    BY <1>2, <1>3, <2>1, SMT
  <2>3. PICK p \in Nat : bytes = <<p>> /\ p = 240 + (cp \div 64)
    BY <2>1, <2>2, SMT
  <2>4. Append(bytes, byte) = <<p, After(cp)>>
    BY <1>4, <2>3, AppendOne
  <2>5. TwoOfFour(cp, Append(bytes, byte))
    BY <2>2, <2>3, <2>4, SMT DEF TwoOfFour
  <2> QED
    BY <2>1, <2>5, SMT DEF Pending
<1>11. CASE state = 8
  <2>1. After1(state, byte) = 3 /\ byte <= 143 /\ c = 4 /\ bytes = <<244>>
    BY <1>11, StateFollows, SMT DEF Follows, Pending
  <2>2. 256 <= cp /\ cp <= 271 /\ cp \div 64 = 4
    BY <1>2, <1>3, <2>1, SMT
  <2>3. PICK p \in Nat : bytes = <<p>> /\ p = 240 + (cp \div 64)
    BY <2>1, <2>2, SMT
  <2>4. Append(bytes, byte) = <<p, After(cp)>>
    BY <1>4, <2>3, AppendOne
  <2>5. TwoOfFour(cp, Append(bytes, byte))
    BY <2>2, <2>3, <2>4, SMT DEF TwoOfFour
  <2> QED
    BY <2>1, <2>5, SMT DEF Pending
<1> QED
  BY <1>5, <1>6, <1>7, <1>8, <1>9, <1>10, <1>11 DEF Inside

-----------------------------------------------------------------------------
(* Scans, one byte more *)

(* The equation of the recursive function in Scans, up to the m-th byte. *)
Scanning(text, m, f) ==
  f = [n \in 0 .. m |-> IF n = 0 THEN Start ELSE Scan(f[n - 1], text[n])]

LEMMA ScansExists ==
  ASSUME NEW text, NEW l \in Nat
  PROVE  \E f : Scanning(text, l, f)
<1> DEFINE T == {m \in Nat : \E f : Scanning(text, m, f)}
<1>1. 0 \in T
  <2>1. PICK f : f = [n \in 0 .. 0 |-> Start]
    OBVIOUS
  <2>2. Scanning(text, 0, f)
    BY <2>1 DEF Scanning
  <2> QED
    BY <2>2
<1>2. ASSUME NEW k \in Nat, k \in T
      PROVE  k + 1 \in T
  <2>1. PICK f : Scanning(text, k, f)
    BY <1>2
  <2>2. PICK m \in Nat : m = k + 1
    OBVIOUS
  <2>3. PICK g : g = [n \in 0 .. m |-> IF n = m THEN Scan(f[k], text[m]) ELSE f[n]]
    OBVIOUS
  <2>4. ASSUME NEW n \in 0 .. m
        PROVE  g[n] = IF n = 0 THEN Start ELSE Scan(g[n - 1], text[n])
    <3>1. CASE n = m
      <4>1. g[m] = Scan(f[k], text[m]) /\ g[k] = f[k] /\ m - 1 = k /\ m # 0
        BY <2>2, <2>3
      <4> QED
        BY <3>1, <4>1, Zenon
    <3>2. CASE n # m
      <4>1. n \in 0 .. k /\ (n # 0 => n - 1 \in 0 .. m /\ n - 1 # m)
        BY <2>2, <3>2
      <4>2. g[n] = f[n] /\ (n # 0 => g[n - 1] = f[n - 1])
        BY <2>3, <3>2, <4>1
      <4>3. f[n] = IF n = 0 THEN Start ELSE Scan(f[n - 1], text[n])
        BY <2>1, <4>1 DEF Scanning
      <4> QED
        BY <4>2, <4>3
    <3> QED
      BY <3>1, <3>2
  <2>5. Scanning(text, m, g)
    <3>1. g = [n \in 0 .. m |-> g[n]]
      BY <2>3
    <3> QED
      BY <2>4, <3>1 DEF Scanning
  <2> QED
    BY <2>2, <2>5
<1> QED
  BY <1>1, <1>2, Induction

LEMMA ScansIs ==
  ASSUME NEW text, NEW l \in Nat, Len(text) = l
  PROVE  \E f : Scanning(text, l, f) /\ Scans(text) = f[l]
<1>1. \E f : Scanning(text, l, f)
  BY ScansExists
<1>2. PICK g : g = CHOOSE f : Scanning(text, l, f)
  OBVIOUS
<1>3. Scanning(text, l, g)
  BY <1>1, <1>2, Zenon
<1>4. Scans(text) = g[l]
  BY <1>2 DEF Scans, Scanning
<1> QED
  BY <1>3, <1>4

(* scan reads the bytes one after the other. *)
LEMMA ScansEmpty == Scans(<<>>) = Start
<1>1. PICK f : Scanning(<<>>, 0, f) /\ Scans(<<>>) = f[0]
  <2>1. Len(<<>>) = 0
    OBVIOUS
  <2> QED
    BY <2>1, ScansIs
<1> QED
  BY <1>1 DEF Scanning

LEMMA ScansAppend ==
  ASSUME NEW text \in Seq(Byte), NEW byte \in Byte
  PROVE  Scans(Append(text, byte)) = Scan(Scans(text), byte)
<1>1. PICK l \in Nat : l = Len(text)
  OBVIOUS
<1>2. PICK m \in Nat : m = l + 1
  OBVIOUS
<1>3. PICK longer : longer = Append(text, byte)
  OBVIOUS
<1>4. Len(longer) = m /\ longer[m] = byte /\ \A n \in 1 .. l : longer[n] = text[n]
  BY <1>1, <1>2, <1>3, Appended
<1>5. PICK f : Scanning(text, l, f) /\ Scans(text) = f[l]
  BY <1>1, ScansIs
<1>6. PICK g : Scanning(longer, m, g) /\ Scans(longer) = g[m]
  BY <1>4, ScansIs
<1> DEFINE T == {n \in Nat : n <= l => f[n] = g[n]}
<1>7. 0 \in T
  BY <1>5, <1>6 DEF Scanning
<1>8. ASSUME NEW k \in Nat, k \in T
      PROVE  k + 1 \in T
  <2>1. SUFFICES ASSUME k + 1 <= l PROVE f[k + 1] = g[k + 1]
    OBVIOUS
  <2>2. PICK n \in 1 .. l : n = k + 1
    BY <2>1
  <2>3. n \in 0 .. l /\ n \in 0 .. m /\ n # 0 /\ n - 1 = k
    BY <1>2, <2>2
  <2>4. f[n] = Scan(f[k], text[n])
    BY <1>5, <2>3 DEF Scanning
  <2>5. g[n] = Scan(g[k], longer[n])
    BY <1>6, <2>3 DEF Scanning
  <2>6. f[k] = g[k] /\ longer[n] = text[n]
    BY <1>4, <1>8, <2>1
  <2> QED
    BY <2>2, <2>4, <2>5, <2>6
<1>9. Nat \subseteq T
  <2> HIDE DEF T
  <2> QED
    BY <1>7, <1>8, Induction
<1>10. f[l] = g[l]
  BY <1>9
<1>11. g[m] = Scan(g[l], longer[m])
  <2>1. m \in 0 .. m /\ m # 0 /\ m - 1 = l
    BY <1>2
  <2> QED
    BY <1>6, <2>1 DEF Scanning
<1> QED
  BY <1>3, <1>4, <1>5, <1>6, <1>10, <1>11

-----------------------------------------------------------------------------
(* FlattenSeq, one sequence more *)

(* The equation of the recursive function in FlattenSeq, up to the m-th. *)
Flattens(seqs, m, f) ==
  f = [i \in 1 .. m |-> IF i = 1 THEN seqs[i] ELSE f[i - 1] \o seqs[i]]

LEMMA FlattensExists ==
  ASSUME NEW seqs, NEW l \in Nat
  PROVE  \E f : Flattens(seqs, l, f)
<1> DEFINE T == {m \in Nat : \E f : Flattens(seqs, m, f)}
<1>1. 0 \in T
  <2>1. PICK f : f = [i \in 1 .. 0 |-> seqs[i]]
    OBVIOUS
  <2>2. Flattens(seqs, 0, f)
    BY <2>1 DEF Flattens
  <2> QED
    BY <2>2
<1>2. ASSUME NEW k \in Nat, k \in T
      PROVE  k + 1 \in T
  <2>1. PICK f : Flattens(seqs, k, f)
    BY <1>2
  <2>2. PICK m \in Nat : m = k + 1
    OBVIOUS
  <2>3. PICK last : last = IF m = 1 THEN seqs[m] ELSE f[k] \o seqs[m]
    OBVIOUS
  <2>4. PICK g : g = [i \in 1 .. m |-> IF i = m THEN last ELSE f[i]]
    OBVIOUS
  <2>5. ASSUME NEW i \in 1 .. m
        PROVE  g[i] = IF i = 1 THEN seqs[i] ELSE g[i - 1] \o seqs[i]
    <3>1. CASE i = m
      <4>1. g[m] = last /\ (m # 1 => g[m - 1] = f[k])
        BY <2>2, <2>4
      <4> QED
        BY <2>3, <3>1, <4>1, Zenon
    <3>2. CASE i # m
      <4>1. i \in 1 .. k /\ (i # 1 => i - 1 \in 1 .. m /\ i - 1 # m)
        BY <2>2, <3>2
      <4>2. g[i] = f[i] /\ (i # 1 => g[i - 1] = f[i - 1])
        BY <2>4, <3>2, <4>1
      <4>3. f[i] = IF i = 1 THEN seqs[i] ELSE f[i - 1] \o seqs[i]
        BY <2>1, <4>1 DEF Flattens
      <4> QED
        BY <4>2, <4>3, Zenon
    <3> QED
      BY <3>1, <3>2
  <2>6. Flattens(seqs, m, g)
    <3>1. g = [i \in 1 .. m |-> g[i]]
      BY <2>4
    <3> QED
      BY <2>5, <3>1 DEF Flattens
  <2> QED
    BY <2>2, <2>6
<1> QED
  BY <1>1, <1>2, Induction

LEMMA FlattenIs ==
  ASSUME NEW seqs, NEW l \in Nat, Len(seqs) = l, l # 0
  PROVE  \E f : Flattens(seqs, l, f) /\ FlattenSeq(seqs) = f[l]
<1>1. \E f : Flattens(seqs, l, f)
  BY FlattensExists
<1>2. PICK g : g = CHOOSE f : Flattens(seqs, l, f)
  OBVIOUS
<1>3. Flattens(seqs, l, g)
  BY <1>1, <1>2, Zenon
<1>4. FlattenSeq(seqs) = g[l]
  BY <1>2 DEF FlattenSeq, Flattens
<1> QED
  BY <1>3, <1>4

LEMMA FlattenAppend ==
  ASSUME NEW S, NEW seqs \in Seq(Seq(S)), NEW one \in Seq(S)
  PROVE  FlattenSeq(Append(seqs, one)) = FlattenSeq(seqs) \o one
<1>1. PICK l \in Nat : l = Len(seqs)
  OBVIOUS
<1>2. PICK m \in Nat : m = l + 1
  OBVIOUS
<1>3. PICK longer : longer = Append(seqs, one)
  OBVIOUS
<1>4. Len(longer) = m /\ longer[m] = one /\ \A n \in 1 .. l : longer[n] = seqs[n]
  BY <1>1, <1>2, <1>3, Appended
<1>5. PICK g : Flattens(longer, m, g) /\ FlattenSeq(longer) = g[m]
  BY <1>2, <1>4, FlattenIs
<1>6. CASE l = 0
  <2>1. seqs = <<>> /\ m = 1
    <3>1. seqs # <<>> => Len(seqs) \in Nat \ {0}
      BY EmptySeq
    <3> QED
      BY <1>1, <1>2, <1>6, <3>1
  <2>2. FlattenSeq(seqs) = <<>>
    BY <2>1 DEF FlattenSeq
  <2>3. FlattenSeq(longer) = one
    <3>1. 1 \in 1 .. m
      BY <2>1
    <3> QED
      BY <1>4, <1>5, <2>1, <3>1 DEF Flattens
  <2>4. <<>> \o one = one
    OBVIOUS
  <2> QED
    BY <1>3, <2>2, <2>3, <2>4
<1>7. CASE l # 0
  <2>1. PICK f : Flattens(seqs, l, f) /\ FlattenSeq(seqs) = f[l]
    BY <1>1, <1>7, FlattenIs
  <2> DEFINE T == {n \in Nat : 0 < n /\ n <= l => f[n] = g[n]}
  <2>2. 0 \in T
    OBVIOUS
  <2>3. ASSUME NEW k \in Nat, k \in T
        PROVE  k + 1 \in T
    <3>1. SUFFICES ASSUME k + 1 <= l PROVE f[k + 1] = g[k + 1]
      OBVIOUS
    <3>2. PICK n \in 1 .. l : n = k + 1
      BY <3>1
    <3>3. n \in 1 .. m /\ n - 1 = k
      BY <1>2, <3>2
    <3>4. longer[n] = seqs[n]
      BY <1>4
    <3>5. f[n] = IF n = 1 THEN seqs[n] ELSE f[k] \o seqs[n]
      BY <2>1, <3>3 DEF Flattens
    <3>6. g[n] = IF n = 1 THEN longer[n] ELSE g[k] \o longer[n]
      BY <1>5, <3>3 DEF Flattens
    <3>7. n # 1 => f[k] = g[k]
      BY <2>3, <3>2
    <3> QED
      BY <3>2, <3>4, <3>5, <3>6, <3>7, Zenon
  <2>4. Nat \subseteq T
    <3> HIDE DEF T
    <3> QED
      BY <2>2, <2>3, Induction
  <2>5. f[l] = g[l]
    BY <1>7, <2>4
  <2>6. g[m] = g[l] \o longer[m]
    <3>1. m \in 1 .. m /\ m # 1 /\ m - 1 = l
      BY <1>2, <1>7
    <3> QED
      BY <1>5, <3>1 DEF Flattens
  <2> QED
    BY <1>3, <1>4, <1>5, <2>1, <2>5, <2>6, Zenon
<1> QED
  BY <1>6, <1>7

-----------------------------------------------------------------------------
(* The bytes of code points *)

Spelling(points) == FlattenSeq([i \in DOMAIN points |-> Encoded(points[i])])

LEMMA Sequences ==
  ASSUME NEW S
  PROVE  /\ \A a \in S : <<a>> \in Seq(S)
         /\ \A a \in S, b \in S : <<a, b>> \in Seq(S)
         /\ \A a \in S, b \in S, c \in S : <<a, b, c>> \in Seq(S)
         /\ \A a \in S, b \in S, c \in S, d \in S : <<a, b, c, d>> \in Seq(S)
OBVIOUS

LEMMA EncodedType ==
  ASSUME NEW cp \in Nat, Character(cp)
  PROVE  Encoded(cp) \in Seq(Byte)
<1>1. After(cp) \in Byte /\ After(cp \div 64) \in Byte /\ After(cp \div 4096) \in Byte
  BY SMT DEF After, Byte
<1>2. CASE cp < 128
  <2>1. Encoded(cp) = <<cp>>
    BY <1>2, SMT DEF Encoded, EncodedFrom
  <2>2. cp \in Byte
    BY <1>2, SMT DEF Byte
  <2>3. <<cp>> \in Seq(Byte)
    BY <2>2, Sequences
  <2> QED
    BY <2>1, <2>3, Zenon
<1>3. CASE 128 <= cp /\ cp <= 2047
  <2>1. Encoded(cp) = <<192 + (cp \div 64), After(cp)>>
    BY <1>3, EncodedInTwo, SMT
  <2>2. 192 + (cp \div 64) \in Byte
    BY <1>3, SMT DEF Byte
  <2>3. PICK p \in Byte : p = 192 + (cp \div 64)
    BY <2>2
  <2>4. PICK q \in Byte : q = After(cp)
    BY <1>1
  <2>5. <<p, q>> \in Seq(Byte)
    BY Sequences, Zenon
  <2> QED
    BY <2>1, <2>3, <2>4, <2>5, SMT
<1>4. CASE 2048 <= cp /\ cp <= 65535
  <2>1. Encoded(cp) = <<224 + (cp \div 4096), After(cp \div 64), After(cp)>>
    BY <1>4, EncodedInThree, SMT
  <2>2. 224 + (cp \div 4096) \in Byte
    BY <1>4, SMT DEF Byte
  <2>3. PICK p \in Byte : p = 224 + (cp \div 4096)
    BY <2>2
  <2>4. PICK q \in Byte : q = After(cp \div 64)
    BY <1>1
  <2>5. PICK r \in Byte : r = After(cp)
    BY <1>1
  <2>6. <<p, q, r>> \in Seq(Byte)
    BY Sequences, Zenon
  <2> QED
    BY <2>1, <2>3, <2>4, <2>5, <2>6, SMT
<1>5. CASE 65536 <= cp
  <2>1. Encoded(cp)
          = <<240 + (cp \div 262144), After(cp \div 4096), After(cp \div 64), After(cp)>>
    BY <1>5, EncodedInFour, SMT
  <2>2. 240 + (cp \div 262144) \in Byte
    BY <1>5, SMT DEF Byte, Character
  <2>3. PICK p \in Byte : p = 240 + (cp \div 262144)
    BY <2>2
  <2>4. PICK q \in Byte : q = After(cp \div 4096)
    BY <1>1
  <2>5. PICK r \in Byte : r = After(cp \div 64)
    BY <1>1
  <2>6. PICK t \in Byte : t = After(cp)
    BY <1>1
  <2>7. <<p, q, r, t>> \in Seq(Byte)
    BY Sequences, Zenon
  <2> QED
    BY <2>1, <2>3, <2>4, <2>5, <2>6, <2>7, SMT
<1> QED
  BY <1>2, <1>3, <1>4, <1>5, SMT

LEMMA SpellingEmpty == Spelling(<<>>) = <<>>
<1>1. PICK e : e = [i \in DOMAIN <<>> |-> Encoded(<<>>[i])]
  OBVIOUS
<1>2. e = <<>>
  BY <1>1
<1> QED
  BY <1>1, <1>2 DEF Spelling, FlattenSeq

Characters == {cp \in Nat : Character(cp)}

LEMMA SpellingAppend ==
  ASSUME NEW points \in Seq(Characters), NEW cp \in Characters
  PROVE  Spelling(Append(points, cp)) = Spelling(points) \o Encoded(cp)
<1>1. PICK longer : longer = Append(points, cp)
  OBVIOUS
<1>2. PICK l \in Nat : l = Len(points)
  OBVIOUS
<1>3. PICK m \in Nat : m = l + 1
  OBVIOUS
<1>4. DOMAIN longer = 1 .. m /\ longer[m] = cp /\ \A i \in 1 .. l : longer[i] = points[i]
  BY <1>1, <1>2, <1>3, Appended
<1>5. DOMAIN points = 1 .. l
  BY <1>2
<1>6. PICK s : s = [i \in 1 .. l |-> Encoded(points[i])]
  OBVIOUS
<1>7. PICK t : t = [i \in 1 .. m |-> Encoded(longer[i])]
  OBVIOUS
<1>8. \A one \in Characters : Encoded(one) \in Seq(Byte)
  BY EncodedType DEF Characters
<1>9. \A i \in 1 .. l : points[i] \in Characters
  BY <1>5
<1>10. s \in Seq(Seq(Byte)) /\ Len(s) = l
  BY <1>6, <1>8, <1>9
<1>11. Encoded(cp) \in Seq(Byte)
  BY <1>8
<1>12. PICK e : e = Encoded(cp)
  OBVIOUS
<1>13. PICK u : u = Append(s, e)
  OBVIOUS
<1>14. t = u
  <2>1. u \in Seq(Seq(Byte)) /\ Len(u) = m /\ u[m] = e /\ \A i \in 1 .. l : u[i] = s[i]
    BY <1>3, <1>10, <1>11, <1>12, <1>13, Appended
  <2>2. ASSUME NEW i \in 1 .. m
        PROVE  t[i] = u[i]
    <3>1. t[i] = Encoded(longer[i])
      BY <1>7
    <3>2. CASE i = m
      BY <1>4, <1>12, <2>1, <3>1, <3>2, Zenon
    <3>3. CASE i # m
      <4>1. i \in 1 .. l
        BY <1>3, <3>3
      <4>2. longer[i] = points[i] /\ u[i] = s[i] /\ s[i] = Encoded(points[i])
        BY <1>4, <1>6, <2>1, <4>1
      <4> QED
        BY <3>1, <4>2, Zenon
    <3> QED
      BY <3>2, <3>3
  <2>3. t \in Seq(Seq(Byte)) /\ Len(t) = m
    <3>1. u \in [1 .. m -> Seq(Byte)]
      BY <2>1, LenProperties
    <3>2. \A i \in 1 .. m : t[i] \in Seq(Byte)
      BY <2>2, <3>1
    <3> QED
      BY <1>7, <3>2
  <2> QED
    BY <2>1, <2>2, <2>3, SeqEqual
<1>15. FlattenSeq(u) = FlattenSeq(s) \o e
  BY <1>10, <1>11, <1>12, <1>13, FlattenAppend
<1>16. Spelling(longer) = FlattenSeq(t)
  BY <1>4, <1>7, Zenon DEF Spelling
<1>17. Spelling(points) = FlattenSeq(s)
  BY <1>5, <1>6, Zenon DEF Spelling
<1> QED
  BY <1>1, <1>12, <1>14, <1>15, <1>16, <1>17, Zenon

-----------------------------------------------------------------------------
(* One byte of dump_escaped *)

DumpState ==
  [state : {0} \cup Inside, codepoint : Nat, points : Seq(Characters), output : Seq(Byte),
   bytes : Nat, most : Nat]

(* The code point after one more byte, and what is written for the byte. *)
Code(d, byte) == IF d.state # 0 THEN (byte % 64) + 64 * d.codepoint ELSE FirstBits(byte)

WrittenAs(state, cp, byte) == IF state = 0 /\ MustEscape(cp) THEN Escaped(cp) ELSE <<byte>>

(* The byte, read with pending, completes the code point or belongs to one. *)
Takes(state, cp, bytes, byte) ==
  /\ state \in {0} \cup Inside /\ cp \in Nat
  /\ state = 0 => Character(cp) /\ Encoded(cp) = bytes
  /\ state # 0 => Pending(state, cp, bytes)
  /\ state = 0 /\ MustEscape(cp) => cp = byte
  /\ byte = Newline => state = 0 /\ cp = Newline

LEMMA TakesByte ==
  ASSUME NEW d \in DumpState, NEW byte \in Byte, NEW pending \in Seq(Byte),
         Pending(d.state, d.codepoint, pending), After1(d.state, byte) # 1
  PROVE  Takes(After1(d.state, byte), Code(d, byte), Append(pending, byte), byte)
<1>1. PICK next : next = After1(d.state, byte)
  OBVIOUS
<1>2. PICK cp : cp = Code(d, byte)
  OBVIOUS
<1>3. PICK bytes : bytes = Append(pending, byte)
  OBVIOUS
<1>4. CASE d.state = 0
  <2>1. cp = FirstBits(byte)
    BY <1>2, <1>4 DEF Code
  <2>2. bytes = <<byte>>
    <3>1. pending = <<>>
      BY <1>4 DEF Pending, Inside
    <3> QED
      BY <1>3, <3>1
  <2>3. CASE byte \in 0 .. 127
    <3>1. next = 0 /\ cp = byte
      BY <1>1, <1>4, <2>1, <2>3, FirstOfOne
    <3>2. Encoded(cp) = bytes
      <4>1. Encoded(byte) = <<byte>>
        BY <2>3, SMT DEF Encoded, EncodedFrom
      <4> QED
        BY <2>2, <3>1, <4>1, Zenon
    <3>3. Character(cp) /\ cp \in Nat
      BY <2>3, <3>1, SMT DEF Character
    <3> QED
      BY <1>1, <1>2, <1>3, <3>1, <3>2, <3>3 DEF Takes
  <2>4. CASE byte \notin 0 .. 127
    <3>1. byte \in 194 .. 244 /\ next \in Inside
      <4>1. byte \in Byte \ (0 .. 127) /\ next = After1(0, byte) /\ After1(0, byte) # 1
        BY <1>1, <1>4, <2>4
      <4> QED
        <5>1. byte \in 194 .. 244
          BY <4>1, FirstOfMany, SMT
        <5>2. After1(0, byte) \in Inside
          BY <4>1, FirstOfMany, ZenonT(30)
        <5> QED
          BY <4>1, <5>1, <5>2, Zenon
    <3>2. cp \in Nat /\ Pending(next, cp, bytes)
      BY <1>1, <1>4, <2>1, <2>2, <3>1, PendingFirst
    <3>3. next # 0 /\ byte # Newline
      BY <3>1 DEF Inside, Newline
    <3> QED
      BY <1>1, <1>2, <1>3, <3>1, <3>2, <3>3 DEF Takes
  <2> QED
    BY <2>3, <2>4
<1>5. CASE d.state # 0
  <2>1. d.state \in Inside /\ d.codepoint \in Nat
    BY <1>5 DEF DumpState
  <2>2. cp \in Nat /\ cp = (byte % 64) + 64 * d.codepoint
    BY <1>2, <1>5, <2>1 DEF Code, Byte
  <2>3. IF next = 0 THEN Completed(cp, bytes) ELSE Pending(next, cp, bytes)
    BY <1>1, <1>3, <2>1, <2>2, PendingNext
  <2>4. byte \in 128 .. 191 /\ next \in {0, 2, 3}
    BY <1>1, <2>1, Following DEF Agrees
  <2>5. byte # Newline /\ next \in {0} \cup Inside
    BY <2>4 DEF Newline, Inside
  <2>6. next = 0 => Character(cp) /\ Encoded(cp) = bytes /\ ~MustEscape(cp)
    BY <2>2, <2>3, SMT DEF Completed, MustEscape, Quote, Backslash
  <2> QED
    BY <1>1, <1>2, <1>3, <2>2, <2>3, <2>5, <2>6 DEF Takes
<1> QED
  BY <1>4, <1>5

LEMMA EscapeTable ==
  ASSUME NEW e \in Escapes
  PROVE  /\ e[1] \in Byte /\ e[1] # Newline /\ e[1] # 117 /\ e[2] \in 0 .. 127
         /\ \A f \in Escapes : f[1] = e[1] => f[2] = e[2]
BY DEF Escapes, Byte, Quote, Backslash, Newline

LEMMA EscapedIs ==
  ASSUME NEW cp \in 0 .. 127, MustEscape(cp)
  PROVE  \/ \E e \in Escapes : e[2] = cp /\ Escaped(cp) = <<Backslash, e[1]>>
         \/ cp < 32 /\ Escaped(cp) = Numbered(cp)
<1>1. CASE \E e \in Escapes : e[2] = cp
  <2>1. PICK c : c = CHOOSE e \in Escapes : e[2] = cp
    OBVIOUS
  <2>2. c \in Escapes /\ c[2] = cp
    BY <1>1, <2>1, Zenon
  <2>3. Escaped(cp) = <<Backslash, c[1]>>
    BY <1>1, <2>1, Zenon DEF Escaped
  <2> QED
    BY <2>2, <2>3, Zenon
<1>2. CASE ~ \E e \in Escapes : e[2] = cp
  <2>1. Escaped(cp) = Numbered(cp)
    BY <1>2, Zenon DEF Escaped
  <2>2. \E e \in Escapes : e[2] = Quote
    <3>1. <<Quote, Quote>> \in Escapes /\ <<Quote, Quote>>[2] = Quote
      BY DEF Escapes
    <3> QED
      BY <3>1, Zenon
  <2>3. \E e \in Escapes : e[2] = Backslash
    <3>1. <<Backslash, Backslash>> \in Escapes /\ <<Backslash, Backslash>>[2] = Backslash
      BY DEF Escapes
    <3> QED
      BY <3>1, Zenon
  <2>4. cp < 32
    BY <1>2, <2>2, <2>3 DEF MustEscape
  <2> QED
    BY <2>1, <2>4
<1> QED
  BY <1>1, <1>2

LEMMA HexDigits ==
  ASSUME NEW n \in 0 .. 15
  PROVE  HexDigit(n) \in 48 .. 102 /\ HexValue(HexDigit(n)) = n
<1>1. CASE n < 10
  BY <1>1 DEF HexDigit, HexValue
<1>2. CASE ~(n < 10)
  BY <1>2 DEF HexDigit, HexValue
<1> QED
  BY <1>1, <1>2

LEMMA SixBytes ==
  ASSUME NEW S, NEW a \in S, NEW b \in S, NEW c \in S, NEW d \in S, NEW e \in S, NEW f \in S,
         NEW s, s = <<a, b, c, d, e, f>>
  PROVE  /\ s \in Seq(S) /\ Len(s) = 6
         /\ s[1] = a /\ s[2] = b /\ s[3] = c /\ s[4] = d /\ s[5] = e /\ s[6] = f
OBVIOUS

(* One line: a newline is never among the bytes that are written. *)
OneLine(bytes) == \A i \in DOMAIN bytes : bytes[i] # Newline

LEMMA WrittenType ==
  ASSUME NEW state, NEW cp, NEW bytes, NEW byte \in Byte, Takes(state, cp, bytes, byte)
  PROVE  /\ WrittenAs(state, cp, byte) \in Seq(Byte)
         /\ Len(WrittenAs(state, cp, byte)) \in {1, 2, 6}
         /\ state # 0 \/ 128 <= cp => Len(WrittenAs(state, cp, byte)) = 1
         /\ OneLine(WrittenAs(state, cp, byte))
<1>1. PICK w : w = WrittenAs(state, cp, byte)
  OBVIOUS
<1>2. CASE ~(state = 0 /\ MustEscape(cp))
  <2>1. w = <<byte>>
    BY <1>1, <1>2 DEF WrittenAs
  <2>2. w \in Seq(Byte) /\ Len(w) = 1 /\ w[1] = byte
    BY <2>1
  <2>3. byte # Newline
    BY <1>2 DEF Takes, MustEscape, Newline
  <2>4. OneLine(w)
    BY <2>2, <2>3 DEF OneLine
  <2> QED
    BY <1>1, <2>2, <2>4
<1>3. CASE state = 0 /\ MustEscape(cp)
  <2>1. w = Escaped(cp)
    BY <1>1, <1>3 DEF WrittenAs
  <2>2. cp \in 0 .. 127
    BY <1>3 DEF MustEscape, Takes, Quote, Backslash
  <2>3. CASE \E e \in Escapes : e[2] = cp /\ Escaped(cp) = <<Backslash, e[1]>>
    <3>1. PICK e \in Escapes : w = <<Backslash, e[1]>>
      BY <2>1, <2>3
    <3>2. Backslash \in Byte /\ Backslash # Newline
      BY DEF Backslash, Byte, Newline
    <3>3. PICK letter \in Byte : letter = e[1] /\ letter # Newline
      BY EscapeTable
    <3>4. w \in Seq(Byte) /\ Len(w) = 2 /\ w[1] = Backslash /\ w[2] = letter
      BY <3>1, <3>2, <3>3
    <3>5. OneLine(w)
      BY <3>2, <3>3, <3>4 DEF OneLine
    <3> QED
      BY <1>1, <1>3, <2>2, <3>4, <3>5
  <2>4. CASE cp < 32 /\ Escaped(cp) = Numbered(cp)
    <3>1. PICK x \in Byte : x = HexDigit(cp \div 16) /\ x # Newline
      <4>1. cp \div 16 \in 0 .. 15
        BY <2>2, <2>4
      <4> QED
        BY <4>1, HexDigits DEF Byte, Newline
    <3>2. PICK y \in Byte : y = HexDigit(cp % 16) /\ y # Newline
      <4>1. cp % 16 \in 0 .. 15
        BY <2>2, <2>4
      <4> QED
        BY <4>1, HexDigits DEF Byte, Newline
    <3>3. w = <<Backslash, 117, 48, 48, x, y>>
      BY <2>1, <2>4, <3>1, <3>2, Zenon DEF Numbered
    <3>4. /\ Backslash \in Byte /\ 117 \in Byte /\ 48 \in Byte
          /\ Backslash # Newline /\ 117 # Newline /\ 48 # Newline
      BY DEF Backslash, Byte, Newline
    <3>5. /\ w \in Seq(Byte) /\ Len(w) = 6
          /\ w[1] = Backslash /\ w[2] = 117 /\ w[3] = 48 /\ w[4] = 48 /\ w[5] = x /\ w[6] = y
      BY <3>3, <3>4, SixBytes
    <3>6. OneLine(w)
      BY <3>1, <3>2, <3>4, <3>5 DEF OneLine
    <3> QED
      BY <1>1, <1>3, <2>2, <3>5, <3>6
  <2> QED
    BY <1>3, <2>2, <2>3, <2>4, EscapedIs
<1> QED
  BY <1>2, <1>3

-----------------------------------------------------------------------------
(* What is true of dump_escaped when it has taken a text so far *)

LEMMA PendingLength ==
  ASSUME NEW state \in {0} \cup Inside, NEW c \in Nat, NEW bytes \in Seq(Byte),
         Pending(state, c, bytes)
  PROVE  Len(bytes) <= 3 /\ (state = 0 => bytes = <<>>)
<1>1. \/ bytes = <<>>
      \/ \E x : bytes = <<x>>
      \/ \E x, y : bytes = <<x, y>>
      \/ \E x, y, z : bytes = <<x, y, z>>
  <2> DEFINE P == \/ bytes = <<>>
                  \/ \E x : bytes = <<x>>
                  \/ \E x, y : bytes = <<x, y>>
                  \/ \E x, y, z : bytes = <<x, y, z>>
  <2>1. bytes = <<>> => P
    OBVIOUS
  <2>2. OneOfTwo(c, bytes) => P
    BY Zenon DEF OneOfTwo
  <2>3. TwoOfThree(c, bytes) => P
    <3>1. SUFFICES ASSUME bytes = <<224 + (c \div 64), After(c)>> PROVE P
      BY Zenon DEF TwoOfThree
    <3> QED
      BY <3>1, Zenon
  <2>4. ThreeOfFour(c, bytes) => P
    <3>1. PICK p, q, r : p = 240 + (c \div 4096) /\ q = After(c \div 64) /\ r = After(c)
      OBVIOUS
    <3>2. ThreeOfFour(c, bytes) => bytes = <<p, q, r>>
      BY <3>1, SMT DEF ThreeOfFour
    <3> QED
      BY <3>2, Zenon
  <2>5. OneOfThree(c, bytes) => P
    BY Zenon DEF OneOfThree
  <2>6. TwoOfFour(c, bytes) => P
    <3>1. PICK p, q : p = 240 + (c \div 64) /\ q = After(c)
      OBVIOUS
    <3>2. TwoOfFour(c, bytes) => bytes = <<p, q>>
      BY <3>1, SMT DEF TwoOfFour
    <3> QED
      BY <3>2, Zenon
  <2>7. ASSUME NEW x, bytes = <<x>> PROVE P
    BY <2>7, Zenon
  <2>8. (bytes = <<224>> => P) /\ (bytes = <<237>> => P) /\ (bytes = <<240>> => P)
    BY <2>7, Zenon
  <2>9. (bytes = <<240 + c>> => P) /\ (bytes = <<244>> => P)
    BY <2>7, Zenon
  <2>10. \/ bytes = <<>> \/ OneOfTwo(c, bytes) \/ TwoOfThree(c, bytes) \/ ThreeOfFour(c, bytes)
         \/ OneOfThree(c, bytes) \/ TwoOfFour(c, bytes)
         \/ bytes = <<224>> \/ bytes = <<237>> \/ bytes = <<240>> \/ bytes = <<244>>
         \/ bytes = <<240 + c>>
    BY Zenon DEF Pending
  <2> HIDE DEF P
  <2>11. P
    BY <2>1, <2>2, <2>3, <2>4, <2>5, <2>6, <2>8, <2>9, <2>10, Zenon
  <2> QED
    BY <2>11 DEF P
<1>2. state = 0 => bytes = <<>>
  BY DEF Pending
<1>3. bytes = <<>> => Len(bytes) <= 3
  OBVIOUS
<1>4. ASSUME NEW x, bytes = <<x>>
      PROVE  Len(bytes) <= 3
  <2>1. Len(bytes) = 1
    BY <1>4, Tuples
  <2> QED
    BY <2>1
<1>5. ASSUME NEW x, NEW y, bytes = <<x, y>>
      PROVE  Len(bytes) <= 3
  <2>1. Len(bytes) = 2
    BY <1>5, Tuples
  <2> QED
    BY <2>1
<1>6. ASSUME NEW x, NEW y, NEW z, bytes = <<x, y, z>>
      PROVE  Len(bytes) <= 3
  <2>1. Len(bytes) = 3
    BY <1>6, Tuples
  <2> QED
    BY <2>1
<1>7. Len(bytes) <= 3
  BY <1>1, <1>3, <1>4, <1>5, <1>6, Zenon
<1> QED
  BY <1>2, <1>7, Zenon

(* Bytes in the buffer: few enough for what the next byte may add. *)
Room(bytes, pending) == bytes <= Len(pending) \/ bytes + 13 <= BufferSize + Len(pending)

DumpsTo(d, text, pending) ==
  /\ d \in DumpState /\ pending \in Seq(Byte) /\ Spelling(d.points) \in Seq(Byte)
  /\ Pending(d.state, d.codepoint, pending)
  /\ text = Spelling(d.points) \o pending
  /\ OneLine(d.output)
  /\ Room(d.bytes, pending) /\ d.most <= BufferSize

LEMMA DumpedIs ==
  ASSUME NEW d \in DumpState, NEW byte \in Byte, After1(d.state, byte) # 1
  PROVE  LET state == After1(d.state, byte)
             cp == Code(d, byte)
             w == WrittenAs(state, cp, byte)
             end == d.bytes + Len(w)
             touched == IF Len(w) = 6 THEN end + 1 ELSE end
         IN  Dumped(d, byte) =
               [state |-> state, codepoint |-> cp,
                points |-> IF state = 0 THEN Append(d.points, cp) ELSE d.points,
                output |-> d.output \o w,
                bytes |-> IF state = 0 THEN Flushed(end) ELSE end,
                most |-> IF touched > d.most THEN touched ELSE d.most]
<1>1. d.state # 1
  BY DEF DumpState, Inside
<1> QED
  BY <1>1, Zenon DEF Dumped, After1, Code, WrittenAs

LEMMA OneLineBoth ==
  ASSUME NEW s \in Seq(Byte), NEW t \in Seq(Byte), OneLine(s), OneLine(t)
  PROVE  OneLine(s \o t)
BY DEF OneLine

LEMMA ConcatAppend ==
  ASSUME NEW S, NEW s \in Seq(S), NEW t \in Seq(S), NEW b \in S
  PROVE  s \o Append(t, b) = Append(s \o t, b)
<1>1. PICK x : x = s \o Append(t, b)
  OBVIOUS
<1>2. PICK y : y = Append(s \o t, b)
  OBVIOUS
<1>3. PICK u : u = s \o t
  OBVIOUS
<1>4. u \in Seq(S) /\ Len(u) = Len(s) + Len(t)
  BY <1>3
<1>5. x \in Seq(S) /\ Len(x) = Len(s) + Len(t) + 1
  BY <1>1
<1>6. y \in Seq(S) /\ Len(y) = Len(s) + Len(t) + 1
  BY <1>2, <1>3, <1>4
<1>7. ASSUME NEW i \in 1 .. Len(x)
      PROVE  x[i] = y[i]
  <2>1. CASE i <= Len(s)
    <3>1. x[i] = s[i]
      BY <1>1, <2>1
    <3>2. u[i] = s[i]
      BY <1>3, <2>1
    <3>3. y[i] = u[i]
      BY <1>2, <1>3, <1>4, <2>1
    <3> QED
      BY <3>1, <3>2, <3>3
  <2>2. CASE Len(s) < i /\ i <= Len(s) + Len(t)
    <3>1. x[i] = t[i - Len(s)]
      <4>1. x[i] = Append(t, b)[i - Len(s)]
        BY <1>1, <2>2
      <4> QED
        BY <2>2, <4>1
    <3>2. u[i] = t[i - Len(s)]
      BY <1>3, <2>2
    <3>3. y[i] = u[i]
      BY <1>2, <1>3, <1>4, <2>2
    <3> QED
      BY <3>1, <3>2, <3>3
  <2>3. CASE i = Len(s) + Len(t) + 1
    <3>1. x[i] = b
      <4>1. x[i] = Append(t, b)[i - Len(s)] /\ i - Len(s) = Len(t) + 1
        BY <1>1, <2>3
      <4> QED
        BY <4>1
    <3>2. y[i] = b
      BY <1>2, <1>3, <1>4, <2>3
    <3> QED
      BY <3>1, <3>2
  <2> QED
    BY <1>5, <2>1, <2>2, <2>3
<1>8. x = y
  BY <1>5, <1>6, <1>7, SeqEqual
<1> QED
  BY <1>1, <1>2, <1>8

(* dump_escaped takes another byte. *)
LEMMA DumpsByte ==
  ASSUME NEW d, NEW text \in Seq(Byte), NEW pending, DumpsTo(d, text, pending),
         NEW byte \in Byte, After1(d.state, byte) # 1
  PROVE  \E rest : DumpsTo(Dumped(d, byte), Append(text, byte), rest)
<1>1. /\ d \in DumpState /\ pending \in Seq(Byte) /\ Spelling(d.points) \in Seq(Byte)
      /\ Pending(d.state, d.codepoint, pending)
      /\ text = Spelling(d.points) \o pending
      /\ OneLine(d.output)
      /\ Room(d.bytes, pending) /\ d.most <= BufferSize
  BY DEF DumpsTo
<1>2. PICK state : state = After1(d.state, byte)
  OBVIOUS
<1>3. PICK cp : cp = Code(d, byte)
  OBVIOUS
<1>4. PICK bytes : bytes = Append(pending, byte)
  OBVIOUS
<1>5. PICK w : w = WrittenAs(state, cp, byte)
  OBVIOUS
<1>6. Takes(state, cp, bytes, byte)
  BY <1>1, <1>2, <1>3, <1>4, TakesByte
<1>7. state \in {0} \cup Inside /\ cp \in Nat
  BY <1>6 DEF Takes
<1>8. /\ w \in Seq(Byte) /\ Len(w) \in {1, 2, 6} /\ OneLine(w)
      /\ state # 0 => Len(w) = 1
  BY <1>5, <1>6, WrittenType
<1>9. d.state # 0 => Len(w) = 1
  <2>1. d.state # 0 => byte \in 128 .. 191
    <3>1. SUFFICES ASSUME d.state # 0 PROVE byte \in 128 .. 191
      OBVIOUS
    <3>2. d.state \in Inside
      BY <1>1, <3>1 DEF DumpState
    <3> QED
      BY <3>2, Following DEF Agrees
  <2>2. state = 0 /\ MustEscape(cp) => cp = byte
    BY <1>6 DEF Takes
  <2>3. byte \in 128 .. 191 => ~MustEscape(byte)
    BY DEF MustEscape, Quote, Backslash
  <2>4. d.state # 0 => w = <<byte>>
    BY <1>5, <2>1, <2>2, <2>3, Zenon DEF WrittenAs
  <2> QED
    BY <2>4
<1>10. PICK k \in Nat : k = Len(pending) /\ k <= 3 /\ (d.state = 0 => k = 0)
  <2>1. d.state \in {0} \cup Inside /\ d.codepoint \in Nat
    BY <1>1 DEF DumpState
  <2>2. Len(pending) <= 3 /\ (d.state = 0 => pending = <<>>)
    BY <1>1, <2>1, PendingLength
  <2> QED
    BY <1>1, <2>2
<1>11. PICK end \in Nat : end = d.bytes + Len(w)
  BY <1>1, <1>8 DEF DumpState
<1>12. PICK touched \in Nat : touched = IF Len(w) = 6 THEN end + 1 ELSE end
  BY <1>11
<1>13. PICK e : e = Dumped(d, byte)
  OBVIOUS
<1>14. e = [state |-> state, codepoint |-> cp,
            points |-> IF state = 0 THEN Append(d.points, cp) ELSE d.points,
            output |-> d.output \o w,
            bytes |-> IF state = 0 THEN Flushed(end) ELSE end,
            most |-> IF touched > d.most THEN touched ELSE d.most]
  BY <1>1, <1>2, <1>3, <1>5, <1>11, <1>12, <1>13, DumpedIs, Zenon
<1>15. state = 0 => cp \in Characters /\ Encoded(cp) = bytes
  BY <1>6, <1>7 DEF Takes, Characters
<1>16. BufferSize \in Nat /\ BufferSize >= 7
  BY BufferAssumption
<1>17. Room(d.bytes, pending) /\ d.bytes \in Nat /\ d.most \in Nat
  BY <1>1 DEF DumpState
<1>18. touched <= BufferSize
  <2>1. PICK n \in {1, 2, 6} : n = Len(w)
    BY <1>8
  <2>2. d.bytes <= k \/ d.bytes + 13 <= BufferSize + k
    BY <1>10, <1>17 DEF Room
  <2>3. CASE n = 1
    BY <1>10, <1>11, <1>12, <1>16, <1>17, <2>1, <2>2, <2>3
  <2>4. CASE n # 1
    <3>1. d.state = 0
      BY <1>9, <2>1, <2>4
    <3>2. PICK b \in Nat : b = d.bytes
      BY <1>17
    <3>3. b = 0 \/ b + 13 <= BufferSize
      <4>1. k = 0
        BY <1>10, <3>1
      <4> QED
        BY <1>16, <2>2, <3>2, <4>1
    <3>4. CASE n = 2
      <4>1. touched = b + 2
        BY <1>11, <1>12, <2>1, <3>2, <3>4
      <4> QED
        BY <1>16, <3>3, <4>1
    <3>5. CASE n = 6
      <4>1. touched = b + 7
        BY <1>11, <1>12, <2>1, <3>2, <3>5
      <4> QED
        BY <1>16, <3>3, <4>1
    <3> QED
      BY <2>1, <2>4, <3>4, <3>5
  <2> QED
    BY <2>3, <2>4
<1>19. e.most \in Nat /\ e.most <= BufferSize
  BY <1>1, <1>12, <1>14, <1>17, <1>18
<1>20. OneLine(e.output) /\ e.output \in Seq(Byte)
  <2>1. d.output \in Seq(Byte)
    BY <1>1 DEF DumpState
  <2>2. OneLine(d.output \o w) /\ d.output \o w \in Seq(Byte)
    BY <1>1, <1>8, <2>1, OneLineBoth
  <2> QED
    BY <1>14, <2>2
<1>21. bytes \in Seq(Byte) /\ Len(bytes) = k + 1
  BY <1>1, <1>4, <1>10
<1>22. Append(text, byte) = Spelling(d.points) \o bytes
  <2>1. PICK s \in Seq(Byte) : s = Spelling(d.points)
    BY <1>1
  <2>2. s \o Append(pending, byte) = Append(s \o pending, byte)
    BY <1>1, ConcatAppend
  <2> QED
    BY <1>1, <1>4, <2>1, <2>2, Zenon
<1>23. d.points \in Seq(Characters)
  BY <1>1 DEF DumpState
<1>24. CASE state = 0
  <2>1. e.points = Append(d.points, cp) /\ e.state = 0 /\ e.bytes = Flushed(end)
    BY <1>14, <1>24
  <2>2. cp \in Characters /\ Encoded(cp) = bytes
    BY <1>15, <1>24
  <2>3. Spelling(e.points) = Spelling(d.points) \o bytes
    BY <1>23, <2>1, <2>2, SpellingAppend
  <2>4. Spelling(e.points) \in Seq(Byte)
    <3>1. PICK s \in Seq(Byte) : s = Spelling(d.points)
      BY <1>1
    <3>2. s \o bytes \in Seq(Byte)
      BY <1>21, ConcatProperties
    <3> QED
      BY <2>3, <3>1, <3>2
  <2>5. Append(text, byte) = Spelling(e.points) \o <<>>
    <3>1. PICK s \in Seq(Byte) : s = Spelling(e.points)
      BY <2>4
    <3>2. s \o <<>> = s
      OBVIOUS
    <3> QED
      BY <1>22, <2>3, <3>1, <3>2
  <2>6. e.bytes \in Nat /\ Room(e.bytes, <<>>)
    BY <1>11, <1>16, <2>1 DEF Flushed, Room
  <2>7. e \in DumpState
    <3>1. e.points \in Seq(Characters)
      BY <1>23, <2>1, <2>2
    <3>2. e.codepoint \in Nat /\ e.state \in {0} \cup Inside
      BY <1>7, <1>14
    <3>3. e = [state |-> e.state, codepoint |-> e.codepoint, points |-> e.points,
               output |-> e.output, bytes |-> e.bytes, most |-> e.most]
      BY <1>14
    <3> QED
      BY <1>19, <1>20, <2>6, <3>1, <3>2, <3>3 DEF DumpState
  <2>8. Pending(e.state, e.codepoint, <<>>) /\ <<>> \in Seq(Byte)
    BY <2>1 DEF Pending
  <2>9. DumpsTo(e, Append(text, byte), <<>>)
    BY <1>19, <1>20, <2>4, <2>5, <2>6, <2>7, <2>8, Zenon DEF DumpsTo
  <2> QED
    BY <1>13, <2>9
<1>25. CASE state # 0
  <2>1. e.points = d.points /\ e.bytes = end /\ e.state = state /\ e.codepoint = cp
    BY <1>14, <1>25
  <2>2. Len(w) = 1
    BY <1>8, <1>25
  <2>3. Room(e.bytes, bytes) /\ e.bytes \in Nat
    BY <1>10, <1>11, <1>16, <1>17, <1>21, <2>1, <2>2 DEF Room
  <2>4. Pending(e.state, e.codepoint, bytes)
    BY <1>6, <1>25, <2>1 DEF Takes
  <2>5. e \in DumpState
    <3>1. e = [state |-> e.state, codepoint |-> e.codepoint, points |-> e.points,
               output |-> e.output, bytes |-> e.bytes, most |-> e.most]
      BY <1>14
    <3> QED
      BY <1>7, <1>19, <1>20, <1>23, <2>1, <2>3, <3>1 DEF DumpState
  <2>6. DumpsTo(e, Append(text, byte), bytes)
    BY <1>1, <1>19, <1>20, <1>21, <1>22, <2>1, <2>3, <2>4, <2>5, Zenon DEF DumpsTo
  <2> QED
    BY <1>13, <2>6
<1> QED
  BY <1>24, <1>25

-----------------------------------------------------------------------------
(* One byte of the scanner, in a string *)

(* The scanner in a string, or behind its end. *)
Reads(goal, ranges, digits, high, text) ==
  [goal |-> goal, ranges |-> ranges, digits |-> digits, high |-> high,
   return_type |-> "value_unsigned", rest |-> <<>>, token_buffer |-> text]

(* It has taken text, after which the automaton is in state. *)
Between(state, text) ==
  Reads(IF state = 0 THEN "char" ELSE "range", RangesAt(state), <<>>, 0, text)

Read == Byte \cup {EndOfFile}

LEMMA GoalIs ==
  ASSUME NEW g, NEW r, NEW d, NEW h, NEW text, NEW goal
  PROVE  [Reads(g, r, d, h, text) EXCEPT !.goal = goal] = Reads(goal, r, d, h, text)
BY DEF Reads

Ranged(s, goal, ranges) == [s EXCEPT !.goal = goal, !.ranges = ranges]

LEMMA RangesAre ==
  ASSUME NEW g, NEW r, NEW d, NEW h, NEW text, NEW goal, NEW ranges
  PROVE  Ranged(Reads(g, r, d, h, text), goal, ranges) = Reads(goal, ranges, d, h, text)
<1>1. PICK s : s = Reads(g, r, d, h, text)
  OBVIOUS
<1>2. PICK t : t = [s EXCEPT !.goal = goal, !.ranges = ranges]
  OBVIOUS
<1>3. s = [goal |-> g, ranges |-> r, digits |-> d, high |-> h, return_type |-> "value_unsigned",
           rest |-> <<>>, token_buffer |-> text]
  BY <1>1 DEF Reads
<1>4. /\ t.goal = goal /\ t.ranges = ranges /\ t.digits = d /\ t.high = h
      /\ t.return_type = "value_unsigned" /\ t.rest = <<>> /\ t.token_buffer = text
  BY <1>2, <1>3
<1>5. t = [goal |-> t.goal, ranges |-> t.ranges, digits |-> t.digits, high |-> t.high,
           return_type |-> t.return_type, rest |-> t.rest, token_buffer |-> t.token_buffer]
  BY <1>2, <1>3
<1>6. t = Reads(goal, ranges, d, h, text)
  BY <1>4, <1>5 DEF Reads
<1> QED
  BY <1>1, <1>2, <1>6, Zenon DEF Ranged

LEMMA AddedIs ==
  ASSUME NEW g, NEW r, NEW d, NEW h, NEW text, NEW bytes
  PROVE  Added(Reads(g, r, d, h, text), bytes) = Reads("char", r, d, h, text \o bytes)
<1>1. PICK s : s = Reads(g, r, d, h, text)
  OBVIOUS
<1>2. PICK longer : longer = text \o bytes
  OBVIOUS
<1>3. PICK t : t = [s EXCEPT !.goal = "char", !.token_buffer = longer]
  OBVIOUS
<1>4. s = [goal |-> g, ranges |-> r, digits |-> d, high |-> h, return_type |-> "value_unsigned",
           rest |-> <<>>, token_buffer |-> text]
  BY <1>1 DEF Reads
<1>5. s.token_buffer = text
  BY <1>4
<1>6. Added(s, bytes) = t
  BY <1>2, <1>3, <1>5, Zenon DEF Added
<1>7. /\ t.goal = "char" /\ t.ranges = r /\ t.digits = d /\ t.high = h
      /\ t.return_type = "value_unsigned" /\ t.rest = <<>> /\ t.token_buffer = longer
  BY <1>3, <1>4
<1>8. t = [goal |-> t.goal, ranges |-> t.ranges, digits |-> t.digits, high |-> t.high,
           return_type |-> t.return_type, rest |-> t.rest, token_buffer |-> t.token_buffer]
  BY <1>3, <1>4
<1>9. t = Reads("char", r, d, h, longer)
  BY <1>7, <1>8 DEF Reads
<1> QED
  BY <1>1, <1>2, <1>6, <1>9, Zenon

LEMMA ScanIs ==
  ASSUME NEW s, NEW byte
  PROVE  /\ s.goal = "char"             => Scan(s, byte) = Char(s, byte)
         /\ s.goal = "range"            => Scan(s, byte) = InRange(s, byte)
         /\ s.goal = "escape"           => Scan(s, byte) = Escape(s, byte)
         /\ s.goal = "hex"              => Scan(s, byte) = Hex(s, byte)
<1>1. PICK a, b, c, d, e, f, g :
        /\ a = FirstByte(s, byte) /\ b = BomByte(s, byte, 187, "third of bom")
        /\ c = BomByte(s, byte, 191, "token") /\ d = Token(s, byte)
        /\ e = scan_literal(s, byte) /\ f = Scanned(s, byte) /\ g = NumberByte(s, byte)
  OBVIOUS
<1>2. Scan(s, byte) =
        CASE s.goal = "bom"             -> a
          [] s.goal = "second of bom"   -> b
          [] s.goal = "third of bom"    -> c
          [] s.goal = "token"           -> d
          [] s.goal = "literal"         -> e
          [] s.goal \in StringGoals     -> f
          [] s.goal \in NumberGoals     -> g
          [] OTHER                      -> s
  BY <1>1, Zenon DEF Scan
<1>3. s.goal = "char" \/ s.goal = "range" \/ s.goal = "escape" \/ s.goal = "hex"
        => Scan(s, byte) = f
  BY <1>2 DEF StringGoals, NumberGoals
<1>4. s.goal = "char" => Scanned(s, byte) = Char(s, byte)
  BY DEF Scanned
<1>5. s.goal = "range" => Scanned(s, byte) = InRange(s, byte)
  BY DEF Scanned
<1>6. s.goal = "escape" => Scanned(s, byte) = Escape(s, byte)
  BY DEF Scanned
<1>7. s.goal = "hex" => Scanned(s, byte) = Hex(s, byte)
  BY DEF Scanned
<1> QED
  BY <1>1, <1>3, <1>4, <1>5, <1>6, <1>7

LEMMA ConcatOne ==
  ASSUME NEW S, NEW s \in Seq(S), NEW b \in S
  PROVE  s \o <<b>> = Append(s, b)
OBVIOUS

(* Between two characters. *)
LEMMA CharIs ==
  ASSUME NEW text \in Seq(Byte), NEW byte \in Read, NEW s, s = Between(0, text)
  PROVE  \/ byte = Quote /\ Scan(s, byte) = Reads("value_string", <<>>, <<>>, 0, text)
         \/ byte = Backslash /\ Scan(s, byte) = Reads("escape", <<>>, <<>>, 0, text)
         \/ /\ byte \in Byte /\ After1(0, byte) # 1 /\ byte \notin {Quote, Backslash}
            /\ Scan(s, byte) = Between(After1(0, byte), Append(text, byte))
         \/ /\ byte \in Byte /\ After1(0, byte) # 1 => byte < 32
            /\ Scan(s, byte).goal = "parse_error"
<1>1. s = Reads("char", <<>>, <<>>, 0, text)
  BY RangesOfState, Zenon DEF Between
<1>2. /\ s.goal = "char" /\ s.ranges = <<>> /\ s.digits = <<>> /\ s.high = 0
      /\ s.return_type = "value_unsigned" /\ s.rest = <<>> /\ s.token_buffer = text
      /\ s = [goal |-> s.goal, ranges |-> s.ranges, digits |-> s.digits, high |-> s.high,
              return_type |-> s.return_type, rest |-> s.rest, token_buffer |-> s.token_buffer]
  BY <1>1 DEF Reads
<1>3. Scan(s, byte) = Char(s, byte)
  BY <1>2, ScanIs
<1>4. PICK quote, escape, plain, range, refused :
        /\ quote = [s EXCEPT !.goal = "value_string"]
        /\ escape = [s EXCEPT !.goal = "escape"]
        /\ plain = Added(s, <<byte>>)
        /\ range = [Added(s, <<byte>>) EXCEPT !.goal = "range", !.ranges = Ranges(byte)]
        /\ refused = Refused(s)
  OBVIOUS
<1>5. Char(s, byte) =
        CASE byte = Quote                                -> quote
          [] byte = Backslash                            -> escape
          [] byte \in (32 .. 127) \ {Quote, Backslash}   -> plain
          [] Ranges(byte) # <<>>                         -> range
          [] OTHER                                       -> refused
  BY <1>4, Zenon DEF Char
<1>6. byte \in 32 .. 127 => Ranges(byte) = <<>>
  <2>1. byte \in 32 .. 127 => byte \in Byte /\ byte \notin 194 .. 244
    BY DEF Byte
  <2> QED
    BY <2>1, RangesOfByte, ZenonT(30)
<1>8. CASE byte = Quote
  <2>1. Char(s, byte) = quote
    BY <1>5, <1>6, <1>8 DEF Quote, Backslash
  <2>2. quote = Reads("value_string", <<>>, <<>>, 0, text)
    BY <1>1, <1>4, GoalIs
  <2> QED
    BY <1>3, <1>8, <2>1, <2>2
<1>9. CASE byte = Backslash
  <2>1. Char(s, byte) = escape
    BY <1>5, <1>6, <1>9 DEF Quote, Backslash
  <2>2. escape = Reads("escape", <<>>, <<>>, 0, text)
    BY <1>1, <1>4, GoalIs
  <2> QED
    BY <1>3, <1>9, <2>1, <2>2
<1>10. CASE byte \in (32 .. 127) \ {Quote, Backslash}
  <2>1. Char(s, byte) = plain
    BY <1>5, <1>6, <1>10
  <2>2. byte \in 0 .. 127 /\ byte \in Byte
    BY <1>10 DEF Byte
  <2>3. After1(0, byte) = 0
    BY <2>2, FirstOfOne
  <2>4. PICK longer : longer = Append(text, byte)
    OBVIOUS
  <2>5. text \o <<byte>> = longer
    BY <2>2, <2>4, ConcatOne
  <2>6. plain = Reads("char", <<>>, <<>>, 0, longer)
    <3>1. Added(Reads("char", <<>>, <<>>, 0, text), <<byte>>)
            = Reads("char", <<>>, <<>>, 0, text \o <<byte>>)
      BY AddedIs
    <3> QED
      BY <1>1, <1>4, <2>5, <3>1, Zenon
  <2>7. Between(After1(0, byte), longer) = Reads("char", <<>>, <<>>, 0, longer)
    BY <2>3, RangesOfState, Zenon DEF Between
  <2>8. After1(0, byte) # 1
    BY <2>3
  <2> QED
    BY <1>3, <1>10, <2>1, <2>2, <2>4, <2>6, <2>7, <2>8, Zenon
<1>7. CASE byte \notin 32 .. 127
  <2>1. byte # Quote /\ byte # Backslash /\ byte \notin (32 .. 127) \ {Quote, Backslash}
    BY <1>7 DEF Quote, Backslash
  <2>2. CASE Ranges(byte) # <<>>
    <3>1. Char(s, byte) = [Added(s, <<byte>>) EXCEPT !.goal = "range", !.ranges = Ranges(byte)]
      BY <2>1, <2>2, Zenon DEF Char
    <3>2. byte \in 194 .. 244
      <4>1. byte \in Byte => byte \in 194 .. 244
        BY <2>2, RangesOfByte
      <4>2. byte # EndOfFile
        <5>1. Ranges(-1) = <<>>
          BY DEF Ranges, RangesFrom
        <5> QED
          BY <2>2, <5>1 DEF EndOfFile
      <4> QED
        BY <4>1, <4>2 DEF Read
    <3>3. byte \in Byte \ (0 .. 127) /\ After1(0, byte) # 1
      <4>1. byte \in Byte \ (0 .. 127)
        BY <3>2 DEF Byte
      <4>2. PICK type : type = TypeOf(byte) /\ type \in {2, 3, 4, 5, 6, 10, 11}
        <5>1. \/ byte \in 194 .. 223
              \/ byte = 224
              \/ byte \in (225 .. 239) \ {237}
              \/ byte = 237
              \/ byte = 240
              \/ byte \in 241 .. 243
              \/ byte = 244
          BY <3>2
        <5> QED
          BY <4>1, <5>1, Types
      <4>3. DecodeState(0, type) # 1
        BY <4>2, StatesFirst
      <4> QED
        BY <4>1, <4>2, <4>3, Zenon DEF After1
    <3>4. After1(0, byte) \in Inside
      BY <3>3, FirstOfMany, ZenonT(30)
    <3>5. Ranges(byte) = RangesAt(After1(0, byte))
      BY <3>3, FirstOfMany, ZenonT(30)
    <3>6. text \o <<byte>> = Append(text, byte)
      BY <3>3, ConcatOne
    <3>7. PICK r : r = Ranges(byte)
      OBVIOUS
    <3>8. [Added(s, <<byte>>) EXCEPT !.goal = "range", !.ranges = r]
            = Reads("range", r, <<>>, 0, Append(text, byte))
      <4>1. Added(Reads("char", <<>>, <<>>, 0, text), <<byte>>)
              = Reads("char", <<>>, <<>>, 0, text \o <<byte>>)
        BY AddedIs
      <4>2. Ranged(Reads("char", <<>>, <<>>, 0, Append(text, byte)), "range", r)
              = Reads("range", r, <<>>, 0, Append(text, byte))
        BY RangesAre
      <4> QED
        BY <1>1, <3>6, <4>1, <4>2, Zenon DEF Ranged
    <3>9. Between(After1(0, byte), Append(text, byte))
            = Reads("range", r, <<>>, 0, Append(text, byte))
      <4>1. After1(0, byte) # 0
        BY <3>4 DEF Inside
      <4> QED
        BY <3>5, <3>7, <4>1, Zenon DEF Between
    <3> QED
      BY <1>3, <2>1, <3>1, <3>3, <3>7, <3>8, <3>9
  <2>3. CASE Ranges(byte) = <<>>
    <3>1. Char(s, byte) = Refused(s)
      BY <2>1, <2>3, Zenon DEF Char
    <3>2. Refused(s).goal = "parse_error"
      BY <1>1 DEF Refused, Reads
    <3>3. ASSUME byte \in Byte, After1(0, byte) # 1
          PROVE  byte < 32
      <4>1. byte \in 0 .. 127
        <5>1. SUFFICES ASSUME byte \notin 0 .. 127 PROVE FALSE
          OBVIOUS
        <5>2. byte \in Byte \ (0 .. 127) /\ After1(0, byte) # 1
          BY <3>3, <5>1
        <5>3. After1(0, byte) \in Inside
          BY <5>2, FirstOfMany, ZenonT(30)
        <5>4. RangesAt(After1(0, byte)) = <<>>
          BY <2>3, <5>2, FirstOfMany, ZenonT(30)
        <5>5. Agrees(After1(0, byte), byte)
          BY <3>3, <5>3, Following
        <5> QED
          BY <5>4, <5>5, Zenon DEF Agrees
      <4> QED
        BY <1>7, <4>1
    <3> QED
      BY <1>3, <3>1, <3>2, <3>3
  <2> QED
    BY <2>2, <2>3
<1> QED
  BY <1>7, <1>8, <1>9, <1>10

LEMMA FirstRange ==
  ASSUME NEW state \in Inside
  PROVE  RangesAt(state)[1][1] \in {128, 144, 160} /\ Len(RangesAt(state)) \in {1, 2, 3}
<1>1. Trailing[1] = 128
  BY DEF Trailing
<1>2. /\ <<160, 191>>[1] = 160 /\ <<128, 159>>[1] = 128
      /\ <<144, 191>>[1] = 144 /\ <<128, 143>>[1] = 128
  OBVIOUS
<1>3. CASE state = 2
  BY <1>1, <1>3, RangesOfState, Tuples
<1>4. CASE state = 3
  BY <1>1, <1>4, RangesOfState, Tuples
<1>5. CASE state = 4
  BY <1>2, <1>5, RangesOfState, Tuples
<1>6. CASE state = 5
  BY <1>2, <1>6, RangesOfState, Tuples
<1>7. CASE state = 6
  BY <1>2, <1>7, RangesOfState, Tuples
<1>8. CASE state = 7
  BY <1>1, <1>8, RangesOfState, Tuples
<1>9. CASE state = 8
  BY <1>2, <1>9, RangesOfState, Tuples
<1> QED
  BY <1>3, <1>4, <1>5, <1>6, <1>7, <1>8, <1>9 DEF Inside

(* Inside a character. *)
LEMMA RangeIs ==
  ASSUME NEW state \in Inside, NEW text \in Seq(Byte), NEW byte \in Read,
         NEW s, s = Between(state, text)
  PROVE  \/ /\ byte \in Byte /\ After1(state, byte) # 1
            /\ Scan(s, byte) = Between(After1(state, byte), Append(text, byte))
         \/ /\ byte \in Byte => After1(state, byte) = 1
            /\ Scan(s, byte).goal = "parse_error"
<1>1. PICK ranges : ranges = RangesAt(state)
  OBVIOUS
<1>2. s = Reads("range", ranges, <<>>, 0, text)
  <2>1. state # 0
    BY DEF Inside
  <2> QED
    BY <1>1, <2>1, Zenon DEF Between
<1>3. s.goal = "range" /\ s.ranges = ranges
  BY <1>2 DEF Reads
<1>4. Scan(s, byte) = InRange(s, byte)
  BY <1>3, ScanIs
<1>5. CASE ranges[1][1] <= byte /\ byte <= ranges[1][2]
  <2>1. byte \in Byte
    <3>1. ASSUME byte = EndOfFile PROVE FALSE
      <4>1. ranges[1][1] \in {128, 144, 160}
        BY <1>1, FirstRange
      <4> QED
        BY <1>5, <3>1, <4>1 DEF EndOfFile
    <3> QED
      BY <3>1 DEF Read
  <2>2. Agrees(state, byte)
    BY <2>1, Following
  <2>3. /\ After1(state, byte) # 1
        /\ RangesAt(After1(state, byte)) = Tail(ranges)
        /\ After1(state, byte) = 0 <=> Len(ranges) = 1
    BY <1>1, <1>5, <2>2, Zenon DEF Agrees
  <2>4. InRange(s, byte) = [Added(s, <<byte>>) EXCEPT !.ranges = Tail(@),
                              !.goal = IF Len(ranges) > 1 THEN "range" ELSE "char"]
    BY <1>3, <1>5 DEF InRange
  <2>5. text \o <<byte>> = Append(text, byte)
    BY <2>1, ConcatOne
  <2>6. PICK rest : rest = Tail(ranges)
    OBVIOUS
  <2>7. PICK goal : goal = IF Len(ranges) > 1 THEN "range" ELSE "char"
    OBVIOUS
  <2>8. InRange(s, byte) = Reads(goal, rest, <<>>, 0, Append(text, byte))
    <3>1. PICK longer : longer = Append(text, byte)
      OBVIOUS
    <3>2. PICK t : t = Added(s, <<byte>>)
      OBVIOUS
    <3>3. t = Reads("char", ranges, <<>>, 0, longer)
      <4>1. Added(Reads("range", ranges, <<>>, 0, text), <<byte>>)
              = Reads("char", ranges, <<>>, 0, text \o <<byte>>)
        BY AddedIs
      <4> QED
        BY <1>2, <2>5, <3>1, <3>2, <4>1, Zenon
    <3>4. t.ranges = ranges
      BY <3>3 DEF Reads
    <3>5. InRange(s, byte) = [t EXCEPT !.goal = goal, !.ranges = rest]
      BY <2>4, <2>6, <2>7, <3>2, <3>4
    <3> QED
      <4>1. Ranged(Reads("char", ranges, <<>>, 0, longer), goal, rest)
              = Reads(goal, rest, <<>>, 0, longer)
        BY RangesAre
      <4> QED
        BY <3>1, <3>3, <3>5, <4>1, Zenon DEF Ranged
  <2>9. goal = IF After1(state, byte) = 0 THEN "char" ELSE "range"
    <3>1. PICK n \in {1, 2, 3} : n = Len(ranges)
      BY <1>1, FirstRange
    <3>2. Len(ranges) > 1 <=> Len(ranges) # 1
      BY <3>1
    <3> QED
      BY <2>3, <2>7, <3>2
  <2>10. Between(After1(state, byte), Append(text, byte))
           = Reads(goal, rest, <<>>, 0, Append(text, byte))
    BY <2>3, <2>6, <2>9, Zenon DEF Between
  <2> QED
    BY <1>4, <2>1, <2>3, <2>8, <2>10
<1>6. CASE ~(ranges[1][1] <= byte /\ byte <= ranges[1][2])
  <2>1. InRange(s, byte) = Refused(s)
    BY <1>3, <1>6, Zenon DEF InRange
  <2>2. Refused(s).goal = "parse_error"
    BY <1>2 DEF Refused, Reads
  <2>3. byte \in Byte => After1(state, byte) = 1
    BY <1>1, <1>6, Following, Zenon DEF Agrees
  <2> QED
    BY <1>4, <2>1, <2>2, <2>3
<1> QED
  BY <1>5, <1>6

(* Behind a backslash. *)
LEMMA EscapeIs ==
  ASSUME NEW text \in Seq(Byte), NEW byte, NEW s, s = Reads("escape", <<>>, <<>>, 0, text)
  PROVE  \/ byte = 117 /\ Scan(s, byte) = Reads("hex", <<>>, <<>>, 0, text)
         \/ \E e \in Escapes : e[1] = byte /\ Scan(s, byte) = Between(0, Append(text, e[2]))
         \/ (\A e \in Escapes : e[1] # byte) /\ Scan(s, byte).goal = "parse_error"
<1>1. s.goal = "escape"
  BY DEF Reads
<1>2. Scan(s, byte) = Escape(s, byte)
  BY <1>1, ScanIs
<1>3. CASE byte = 117
  <2>1. Escape(s, byte) = [s EXCEPT !.goal = "hex"]
    BY <1>3 DEF Escape
  <2> QED
    BY <1>2, <1>3, <2>1 DEF Reads
<1>4. CASE byte # 117 /\ \E e \in Escapes : e[1] = byte
  <2>1. PICK c : c = CHOOSE e \in Escapes : e[1] = byte
    OBVIOUS
  <2>2. c \in Escapes /\ c[1] = byte
    BY <1>4, <2>1, Zenon
  <2>3. Escape(s, byte) = Added(s, <<c[2]>>)
    BY <1>4, <2>1, Zenon DEF Escape
  <2>4. PICK stands \in Byte : stands = c[2]
    BY <2>2, EscapeTable DEF Byte
  <2>5. text \o <<stands>> = Append(text, stands)
    BY ConcatOne
  <2>6. Added(s, <<stands>>) = Reads("char", <<>>, <<>>, 0, Append(text, stands))
    <3>1. Added(Reads("escape", <<>>, <<>>, 0, text), <<stands>>)
            = Reads("char", <<>>, <<>>, 0, text \o <<stands>>)
      BY AddedIs
    <3> QED
      BY <2>5, <3>1
  <2>7. Between(0, Append(text, stands)) = Reads("char", <<>>, <<>>, 0, Append(text, stands))
    BY RangesOfState, Zenon DEF Between
  <2> QED
    BY <1>2, <2>2, <2>3, <2>4, <2>6, <2>7, Zenon
<1>5. CASE byte # 117 /\ ~ \E e \in Escapes : e[1] = byte
  <2>1. Escape(s, byte) = Refused(s)
    BY <1>5, Zenon DEF Escape
  <2>2. Refused(s).goal = "parse_error"
    BY DEF Refused, Reads
  <2> QED
    BY <1>2, <1>5, <2>1, <2>2
<1> QED
  BY <1>3, <1>4, <1>5

LEMMA DigitsAre ==
  ASSUME NEW g, NEW r, NEW d, NEW h, NEW text, NEW digits
  PROVE  [Reads(g, r, d, h, text) EXCEPT !.digits = digits] = Reads(g, r, digits, h, text)
BY DEF Reads

LEMMA HighIsZero ==
  ASSUME NEW g, NEW r, NEW d, NEW h, NEW text
  PROVE  [Reads(g, r, d, h, text) EXCEPT !.high = 0] = Reads(g, r, d, 0, text)
BY DEF Reads

Halved(s, cp, goal) == [s EXCEPT !.high = cp, !.goal = goal]

LEMMA HighIs ==
  ASSUME NEW g, NEW r, NEW d, NEW h, NEW text, NEW cp, NEW goal,
         NEW s, s = Reads(g, r, d, h, text)
  PROVE  Halved(s, cp, goal) = Reads(goal, r, d, cp, text)
<1>1. PICK t : t = [s EXCEPT !.high = cp, !.goal = goal]
  OBVIOUS
<1>2. s = [goal |-> g, ranges |-> r, digits |-> d, high |-> h, return_type |-> "value_unsigned",
           rest |-> <<>>, token_buffer |-> text]
  BY DEF Reads
<1>3. /\ t.goal = goal /\ t.ranges = r /\ t.digits = d /\ t.high = cp
      /\ t.return_type = "value_unsigned" /\ t.rest = <<>> /\ t.token_buffer = text
  BY <1>1, <1>2
<1>4. t = [goal |-> t.goal, ranges |-> t.ranges, digits |-> t.digits, high |-> t.high,
           return_type |-> t.return_type, rest |-> t.rest, token_buffer |-> t.token_buffer]
  BY <1>1, <1>2
<1>5. t = Reads(goal, r, d, cp, text)
  BY <1>3, <1>4 DEF Reads
<1> QED
  BY <1>1, <1>5, Zenon DEF Halved

(* A code point between its quotes: what its escapes stand for. *)
Reached(text, cp) == Reads("char", <<>>, <<>>, 0, text \o Encoded(cp))

LEMMA CombinedIs ==
  ASSUME NEW high \in HighSurrogates, NEW low \in LowSurrogates
  PROVE  Combined(high, low) \in Characters
<1>1. /\ high \in Nat /\ 55296 <= high /\ high <= 56319
      /\ low \in Nat /\ 56320 <= low /\ low <= 57343
  <2>1. high \in Nat /\ low \in Nat
    BY SMT DEF HighSurrogates, LowSurrogates
  <2> QED
    BY <2>1, SurrogateBounds, SMT
<1>2. PICK cp : cp = high * 1024 + low - 56613888
  OBVIOUS
<1>3. cp \in Nat /\ 65536 <= cp /\ cp <= 1114111
  BY <1>1, <1>2, SMT
<1>4. cp \in Characters
  BY <1>3, SMT DEF Characters, Character
<1> QED
  BY <1>2, <1>4, SMT DEF Combined

(* A code point of four hexadecimal digits. *)
Short(cp) == cp <= 65535

UnicodeLeads(s, cp, high, text) ==
  \/ /\ Unicode(s, cp).goal = "parse_error"
     /\ high # 0 \/ cp \in Surrogates
  \/ /\ high = 0 /\ cp \in HighSurrogates
     /\ Unicode(s, cp) = Reads("second backslash", <<>>, <<>>, cp, text)
  \/ \E c \in Characters : /\ Unicode(s, cp) = Reached(text, c)
                           /\ high # 0 \/ c = cp

LEMMA UnicodeIs ==
  ASSUME NEW text, NEW high \in HighSurrogates \cup {0}, NEW cp \in Nat, Short(cp),
         NEW s, s = Reads("hex", <<>>, <<>>, high, text)
  PROVE  UnicodeLeads(s, cp, high, text)
<1> USE DEF UnicodeLeads
<1>1. s.high = high
  BY DEF Reads
<1>2. Refused(s).goal = "parse_error"
  BY DEF Refused, Reads
<1>3. CASE high # 0
  <2>1. Unicode(s, cp) = Paired(s, cp)
    BY <1>1, <1>3, Zenon DEF Unicode
  <2>2. CASE cp \in LowSurrogates
    <3>1. PICK c \in Characters : c = Combined(high, cp)
      BY <1>3, <2>2, CombinedIs
    <3>2. Paired(s, cp) = Added([s EXCEPT !.high = 0], Encoded(c))
      BY <1>1, <2>2, <3>1, Zenon DEF Paired
    <3>3. [s EXCEPT !.high = 0] = Reads("hex", <<>>, <<>>, 0, text)
      BY HighIsZero
    <3>4. Added(Reads("hex", <<>>, <<>>, 0, text), Encoded(c)) = Reached(text, c)
      BY AddedIs DEF Reached
    <3> QED
      BY <1>3, <2>1, <3>1, <3>2, <3>3, <3>4, Zenon
  <2>3. CASE cp \notin LowSurrogates
    <3>1. Paired(s, cp) = Refused(s)
      BY <2>3, Zenon DEF Paired
    <3> QED
      BY <1>2, <1>3, <2>1, <3>1, Zenon
  <2> QED
    BY <2>2, <2>3
<1>4. CASE high = 0
  <2>1. Unicode(s, cp) = Unpaired(s, cp, LowSurrogates)
    BY <1>1, <1>4, Zenon DEF Unicode
  <2>2. CASE cp \in HighSurrogates
    <3>1. PICK goal : goal = "second backslash"
      OBVIOUS
    <3>2. Unpaired(s, cp, LowSurrogates) = Halved(s, cp, goal)
      <4>1. cp \notin LowSurrogates
        BY <2>2, SurrogateBounds, SMT
      <4> QED
        BY <2>2, <3>1, <4>1, Zenon DEF Unpaired, Halved
    <3>3. Halved(s, cp, goal) = Reads(goal, <<>>, <<>>, cp, text)
      BY HighIs, SMT
    <3> QED
      BY <1>4, <2>1, <2>2, <3>1, <3>2, <3>3, Zenon
  <2>3. CASE cp \in LowSurrogates
    <3>1. Unpaired(s, cp, LowSurrogates) = Refused(s)
      <4>1. cp \notin HighSurrogates
        BY <2>3, SurrogateBounds, SMT
      <4> QED
        BY <2>3, <4>1, Zenon DEF Unpaired
    <3>2. cp \in Surrogates
      BY <2>3, SurrogateBounds, SMT
    <3> QED
      BY <1>2, <2>1, <3>1, <3>2, Zenon
  <2>4. CASE cp \notin HighSurrogates /\ cp \notin LowSurrogates
    <3>1. Unpaired(s, cp, LowSurrogates) = Added(s, Encoded(cp))
      BY <2>4, Zenon DEF Unpaired
    <3>2. Added(Reads("hex", <<>>, <<>>, 0, text), Encoded(cp)) = Reached(text, cp)
      BY AddedIs DEF Reached
    <3>3. cp \in Characters
      BY <2>4, SurrogateBounds, SMT DEF Characters, Character, Short
    <3> QED
      BY <1>4, <2>1, <3>1, <3>2, <3>3, Zenon
  <2> QED
    BY <2>2, <2>3, <2>4
<1> QED
  BY <1>3, <1>4

(* Four hexadecimal digits. *)
Value(x, y, z, v) == 4096 * x + 256 * y + 16 * z + v

LEMMA FourDigits ==
  ASSUME NEW x \in Nat, NEW y \in Nat, NEW z \in Nat, NEW v \in Nat,
         x <= 15, y <= 15, z <= 15, v <= 15
  PROVE  Value(x, y, z, v) \in Nat /\ Short(Value(x, y, z, v))
BY SMT DEF Value, Short

(* A digit of an escape. *)
CodePoint(digits, last) == Value(digits[1], digits[2], digits[3], last)

LEMMA HexIs ==
  ASSUME NEW text, NEW high, NEW digits \in Seq(0 .. 15), Len(digits) < 4, NEW byte \in Read,
         NEW s, s = Reads("hex", <<>>, digits, high, text)
  PROVE  \/ HexValue(byte) = 16 /\ Scan(s, byte).goal = "parse_error"
         \/ /\ HexValue(byte) \in 0 .. 15 /\ Len(digits) < 3
            /\ Scan(s, byte) = Reads("hex", <<>>, Append(digits, HexValue(byte)), high, text)
         \/ /\ HexValue(byte) \in 0 .. 15 /\ Len(digits) = 3
            /\ CodePoint(digits, HexValue(byte)) \in Nat
            /\ Short(CodePoint(digits, HexValue(byte)))
            /\ Scan(s, byte) = Unicode(Reads("hex", <<>>, <<>>, high, text),
                                       CodePoint(digits, HexValue(byte)))
<1>1. PICK value : value = HexValue(byte)
  OBVIOUS
<1>2. value \in 0 .. 16
  BY <1>1 DEF HexValue, Read, Byte, EndOfFile
<1>3. s.goal = "hex" /\ s.digits = digits
  BY DEF Reads
<1>4. Scan(s, byte) = Hex(s, byte)
  BY <1>3, ScanIs
<1>5. PICK longer : longer = Append(digits, value)
  OBVIOUS
<1>6. CASE value = 16
  <2>1. Hex(s, byte) = Refused(s)
    BY <1>1, <1>6, SMT DEF Hex
  <2>2. Refused(s).goal = "parse_error"
    BY DEF Refused, Reads
  <2> QED
    BY <1>1, <1>4, <1>6, <2>1, <2>2
<1>7. CASE value # 16
  <2>1. value \in 0 .. 15
    BY <1>2, <1>7
  <2>2. /\ longer \in Seq(0 .. 15) /\ Len(longer) = Len(digits) + 1
        /\ longer[Len(digits) + 1] = value /\ \A n \in 1 .. Len(digits) : longer[n] = digits[n]
    BY <1>5, <2>1, Appended
  <2>3. PICK n \in Nat : n = Len(digits) /\ n < 4
    OBVIOUS
  <2>4. Hex(s, byte) =
          IF Len(longer) < 4 THEN [s EXCEPT !.digits = longer]
          ELSE Unicode([s EXCEPT !.digits = <<>>],
                       4096 * longer[1] + 256 * longer[2] + 16 * longer[3] + longer[4])
    BY <1>1, <1>3, <1>5, <1>7, SMTT(30) DEF Hex
  <2>5. CASE n < 3
    <3>1. Len(longer) < 4
      BY <2>2, <2>3, <2>5
    <3>2. Hex(s, byte) = [s EXCEPT !.digits = longer]
      BY <2>4, <3>1, Zenon
    <3>3. [s EXCEPT !.digits = longer] = Reads("hex", <<>>, longer, high, text)
      BY DigitsAre
    <3>4. Len(digits) < 3
      BY <2>3, <2>5
    <3> QED
      BY <1>1, <1>4, <1>5, <2>1, <3>2, <3>3, <3>4, Zenon
  <2>6. CASE n = 3
    <3>1. ~(Len(longer) < 4)
      BY <2>2, <2>3, <2>6
    <3>2. /\ longer[1] = digits[1] /\ longer[2] = digits[2] /\ longer[3] = digits[3]
          /\ longer[4] = value
      BY <2>2, <2>3, <2>6
    <3>3. [s EXCEPT !.digits = <<>>] = Reads("hex", <<>>, <<>>, high, text)
      BY DigitsAre
    <3>4. PICK cp : cp = CodePoint(digits, value)
      OBVIOUS
    <3>5. cp = 4096 * longer[1] + 256 * longer[2] + 16 * longer[3] + longer[4]
      BY <3>2, <3>4, SMT DEF CodePoint, Value
    <3>6. cp \in Nat /\ Short(cp)
      <4>1. digits[1] \in 0 .. 15 /\ digits[2] \in 0 .. 15 /\ digits[3] \in 0 .. 15
        <5>1. Len(digits) = 3
          BY <2>3, <2>6
        <5>2. 1 \in 1 .. Len(digits) /\ 2 \in 1 .. Len(digits) /\ 3 \in 1 .. Len(digits)
          BY <5>1
        <5> QED
          BY <5>2, ElementOfSeq
      <4>2. PICK x \in Nat, y \in Nat, z \in Nat :
              x = digits[1] /\ y = digits[2] /\ z = digits[3] /\ x <= 15 /\ y <= 15 /\ z <= 15
        <5>1. \A k \in 0 .. 15 : k \in Nat /\ k <= 15
          OBVIOUS
        <5>2. PICK x, y, z : x = digits[1] /\ y = digits[2] /\ z = digits[3]
          OBVIOUS
        <5> QED
          BY <4>1, <5>1, <5>2, Zenon
      <4>3. value \in Nat /\ value <= 15
        BY <2>1
      <4>4. cp = Value(x, y, z, value)
        BY <3>4, <4>2, Zenon DEF CodePoint
      <4> QED
        BY <4>2, <4>3, <4>4, FourDigits, Zenon
    <3>7. Hex(s, byte) = Unicode(Reads("hex", <<>>, <<>>, high, text), cp)
      BY <2>4, <3>1, <3>3, <3>5, SMT
    <3>8. Len(digits) = 3
      BY <2>3, <2>6
    <3> QED
      BY <1>1, <1>4, <2>1, <3>4, <3>6, <3>7, <3>8, SMT
  <2> QED
    BY <2>3, <2>5, <2>6
<1> QED
  BY <1>6, <1>7

LEMMA SecondScan ==
  ASSUME NEW s, NEW byte
  PROVE  /\ s.goal = "second backslash" => Scan(s, byte) = Scanned(s, byte)
         /\ s.goal = "second u"         => Scan(s, byte) = Scanned(s, byte)
<1>1. PICK a, b, c, d, e, f, g :
        /\ a = FirstByte(s, byte) /\ b = BomByte(s, byte, 187, "third of bom")
        /\ c = BomByte(s, byte, 191, "token") /\ d = Token(s, byte)
        /\ e = scan_literal(s, byte) /\ f = Scanned(s, byte) /\ g = NumberByte(s, byte)
  OBVIOUS
<1>2. Scan(s, byte) =
        CASE s.goal = "bom"             -> a
          [] s.goal = "second of bom"   -> b
          [] s.goal = "third of bom"    -> c
          [] s.goal = "token"           -> d
          [] s.goal = "literal"         -> e
          [] s.goal \in StringGoals     -> f
          [] s.goal \in NumberGoals     -> g
          [] OTHER                      -> s
  BY <1>1, Zenon DEF Scan
<1>3. s.goal = "second backslash" \/ s.goal = "second u" => Scan(s, byte) = f
  BY <1>2 DEF StringGoals, NumberGoals
<1> QED
  BY <1>1, <1>3

(* The second escape of a pair begins. *)
LEMMA SecondIs ==
  ASSUME NEW text, NEW high, NEW byte
  PROVE  /\ \/ Scan(Reads("second backslash", <<>>, <<>>, high, text), byte)
                 = Reads("second u", <<>>, <<>>, high, text)
            \/ Scan(Reads("second backslash", <<>>, <<>>, high, text), byte).goal = "parse_error"
         /\ \/ Scan(Reads("second u", <<>>, <<>>, high, text), byte)
                 = Reads("hex", <<>>, <<>>, high, text)
            \/ Scan(Reads("second u", <<>>, <<>>, high, text), byte).goal = "parse_error"
<1>1. PICK s : s = Reads("second backslash", <<>>, <<>>, high, text)
  OBVIOUS
<1>2. PICK t : t = Reads("second u", <<>>, <<>>, high, text)
  OBVIOUS
<1>3. /\ Scan(s, byte) = Scanned(s, byte) /\ s.goal = "second backslash"
      /\ Refused(s).goal = "parse_error"
  <2>1. s.goal = "second backslash" /\ Refused(s).goal = "parse_error"
    BY <1>1 DEF Reads, Refused
  <2> QED
    BY <2>1, SecondScan
<1>4. /\ Scan(t, byte) = Scanned(t, byte) /\ t.goal = "second u"
      /\ Refused(t).goal = "parse_error"
  <2>1. t.goal = "second u" /\ Refused(t).goal = "parse_error"
    BY <1>2 DEF Reads, Refused
  <2> QED
    BY <2>1, SecondScan
<1>5. Scanned(s, byte) \in {[s EXCEPT !.goal = "second u"], Refused(s)}
  BY <1>3 DEF Scanned
<1>6. Scanned(t, byte) \in {[t EXCEPT !.goal = "hex"], Refused(t)}
  BY <1>4 DEF Scanned
<1>7. [s EXCEPT !.goal = "second u"] = Reads("second u", <<>>, <<>>, high, text)
  <2>1. PICK before, after : before = "second backslash" /\ after = "second u"
    OBVIOUS
  <2>2. s = Reads(before, <<>>, <<>>, high, text)
    BY <1>1, <2>1
  <2>3. [s EXCEPT !.goal = after] = Reads(after, <<>>, <<>>, high, text)
    BY <2>2 DEF Reads
  <2> QED
    BY <2>1, <2>3, Zenon
<1>8. [t EXCEPT !.goal = "hex"] = Reads("hex", <<>>, <<>>, high, text)
  <2>1. PICK before, after : before = "second u" /\ after = "hex"
    OBVIOUS
  <2>2. t = Reads(before, <<>>, <<>>, high, text)
    BY <1>2, <2>1
  <2>3. [t EXCEPT !.goal = after] = Reads(after, <<>>, <<>>, high, text)
    BY <2>2 DEF Reads
  <2> QED
    BY <2>1, <2>3, Zenon
<1>9. \/ Scan(s, byte) = Reads("second u", <<>>, <<>>, high, text)
       \/ Scan(s, byte).goal = "parse_error"
  BY <1>3, <1>5, <1>7
<1>10. \/ Scan(t, byte) = Reads("hex", <<>>, <<>>, high, text)
       \/ Scan(t, byte).goal = "parse_error"
  BY <1>4, <1>6, <1>8
<1> QED
  BY <1>1, <1>2, <1>9, <1>10, Zenon

-----------------------------------------------------------------------------
(* What dump_escaped writes is read back *)

LEMMA ScansByte ==
  ASSUME NEW q \in Seq(Byte), NEW b \in Byte, NEW s, Scans(q) = s
  PROVE  Scans(Append(q, b)) = Scan(s, b) /\ Append(q, b) \in Seq(Byte)
<1>1. Append(q, b) \in Seq(Byte)
  BY Appended
<1> QED
  BY <1>1, ScansAppend

LEMMA ConcatTwo ==
  ASSUME NEW S, NEW q \in Seq(S), NEW a \in S, NEW b \in S
  PROVE  q \o <<a, b>> = Append(Append(q, a), b)
<1>1. <<a>> \in Seq(S) /\ Append(<<a>>, b) = <<a, b>>
  BY AppendOne
<1>2. q \o <<a>> = Append(q, a)
  BY ConcatOne
<1>3. q \o Append(<<a>>, b) = Append(q \o <<a>>, b)
  BY <1>1, ConcatAppend
<1> QED
  BY <1>1, <1>2, <1>3, Zenon

LEMMA AppendedTo ==
  ASSUME NEW S, NEW t \in Seq(S), NEW b \in S, NEW n \in Nat, Len(t) = n,
         NEW u, u = Append(t, b)
  PROVE  u \in Seq(S) /\ Len(u) = n + 1 /\ u[n + 1] = b /\ \A i \in 1 .. n : u[i] = t[i]
BY Appended

SixAppended(q, a, b, c, d, e, f) ==
  q \o <<a, b, c, d, e, f>>
    = Append(Append(Append(Append(Append(Append(q, a), b), c), d), e), f)

LEMMA ConcatSix ==
  ASSUME NEW S, NEW q \in Seq(S), NEW a \in S, NEW b \in S, NEW c \in S, NEW d \in S,
         NEW e \in S, NEW f \in S
  PROVE  SixAppended(q, a, b, c, d, e, f)
<1>1. PICK t : t = <<a, b, c, d, e, f>>
  OBVIOUS
<1>2. /\ t \in Seq(S) /\ Len(t) = 6
      /\ t[1] = a /\ t[2] = b /\ t[3] = c /\ t[4] = d /\ t[5] = e /\ t[6] = f
  BY <1>1, SixBytes
<1>3. PICK u \in Seq(S) : u = Append(Append(<<a, b>>, c), d)
  <2>1. <<a, b>> \in Seq(S)
    BY Sequences
  <2> QED
    BY <2>1, Appended
<1>4. Len(u) = 4 /\ u[1] = a /\ u[2] = b /\ u[3] = c /\ u[4] = d
  <2>1. PICK v : v = <<a, b>>
    OBVIOUS
  <2>2. v \in Seq(S) /\ Len(v) = 2 /\ v[1] = a /\ v[2] = b
    BY <2>1
  <2>3. PICK x : x = Append(v, c)
    OBVIOUS
  <2>4. x \in Seq(S) /\ Len(x) = 3 /\ x[1] = a /\ x[2] = b /\ x[3] = c
    <3>1. x \in Seq(S) /\ Len(x) = 3 /\ x[3] = c /\ \A n \in 1 .. 2 : x[n] = v[n]
      BY <2>2, <2>3, AppendedTo, 2 + 1 = 3
    <3> QED
      BY <2>2, <3>1
  <2>5. u = Append(x, d)
    BY <1>3, <2>1, <2>3, Zenon
  <2> QED
    <3>1. Len(u) = 4 /\ u[4] = d /\ \A n \in 1 .. 3 : u[n] = x[n]
      BY <2>4, <2>5, AppendedTo, 3 + 1 = 4
    <3> QED
      BY <2>4, <3>1
<1>5. PICK y : y = Append(u, e)
  OBVIOUS
<1>6. y \in Seq(S) /\ Len(y) = 5 /\ y[1] = a /\ y[2] = b /\ y[3] = c /\ y[4] = d /\ y[5] = e
  <2>1. y \in Seq(S) /\ Len(y) = 5 /\ y[5] = e /\ \A n \in 1 .. 4 : y[n] = u[n]
    BY <1>4, <1>5, AppendedTo, 4 + 1 = 5, SMTT(30)
  <2> QED
    BY <1>4, <2>1
<1>7. PICK z : z = Append(y, f)
  OBVIOUS
<1>8. /\ z \in Seq(S) /\ Len(z) = 6
      /\ z[1] = a /\ z[2] = b /\ z[3] = c /\ z[4] = d /\ z[5] = e /\ z[6] = f
  <2>1. y \in Seq(S) /\ Len(y) = 5 /\ 5 \in Nat
    BY <1>6
  <2>2. z \in Seq(S) /\ Len(z) = 5 + 1 /\ z[5 + 1] = f /\ \A i \in 1 .. 5 : z[i] = y[i]
    <3>1. z \in Seq(S)
      BY <1>7, <2>1, Appended
    <3>2. Len(z) = Len(y) + 1
      BY <1>7, <2>1, Appended
    <3>3. z[Len(y) + 1] = f
      BY <1>7, <2>1, Appended
    <3>4. \A i \in 1 .. 5 : z[i] = y[i]
      BY <1>7, <2>1, Appended
    <3> QED
      BY <2>1, <3>1, <3>2, <3>3, <3>4
  <2> QED
    BY <1>6, <2>1, <2>2
<1>9. t = z
  <2>1. \A i \in 1 .. Len(t) : t[i] = z[i]
    BY <1>2, <1>8
  <2> QED
    BY <1>2, <1>8, <2>1, SeqEqual
<1>10. q \o <<a, b>> = Append(Append(q, a), b)
  BY ConcatTwo
<1>11. q \o u = Append(Append(q \o <<a, b>>, c), d)
  <2>1. PICK v \in Seq(S) : v = <<a, b>>
    BY Sequences
  <2>2. PICK x \in Seq(S) : x = Append(v, c)
    BY Appended
  <2>3. q \o x = Append(q \o v, c)
    BY <2>2, ConcatAppend
  <2>4. q \o Append(x, d) = Append(q \o x, d)
    BY ConcatAppend
  <2> QED
    BY <1>3, <2>1, <2>2, <2>3, <2>4, Zenon
<1>12. q \o y = Append(q \o u, e)
  BY <1>5, ConcatAppend
<1>13. q \o z = Append(q \o y, f)
  BY <1>6, <1>7, ConcatAppend, SMTT(30)
<1> QED
  BY <1>1, <1>9, <1>10, <1>11, <1>12, <1>13, <1>3, <1>5, <1>6, <1>7, Zenon DEF SixAppended

(* A letter behind a backslash. *)
LEMMA LetterIsRead ==
  ASSUME NEW q \in Seq(Byte), NEW text \in Seq(Byte), Scans(q) = Between(0, text),
         NEW e \in Escapes
  PROVE  Scans(q \o <<Backslash, e[1]>>) = Between(0, Append(text, e[2]))
<1>1. PICK letter \in Byte : letter = e[1]
  BY EscapeTable
<1>2. Backslash \in Byte /\ Backslash \in Read /\ Backslash # Quote
  BY DEF Backslash, Byte, Read, Quote
<1>3. PICK r : r = Append(q, Backslash)
  OBVIOUS
<1>4. Scans(r) = Scan(Between(0, text), Backslash) /\ r \in Seq(Byte)
  BY <1>2, <1>3, ScansByte
<1>5. Scan(Between(0, text), Backslash) = Reads("escape", <<>>, <<>>, 0, text)
  <2>1. After1(0, Backslash) = 0 /\ Backslash \in Byte
    BY FirstOfOne DEF Backslash, Byte
  <2>2. ~(Backslash < 32)
    BY DEF Backslash
  <2>3. After1(0, Backslash) # 1
    BY <2>1
  <2> QED
    BY <1>2, <2>1, <2>2, <2>3, CharIs, Zenon
<1>6. Scans(Append(r, letter)) = Scan(Reads("escape", <<>>, <<>>, 0, text), letter)
  BY <1>4, <1>5, ScansByte
<1>7. Scan(Reads("escape", <<>>, <<>>, 0, text), letter) = Between(0, Append(text, e[2]))
  <2>1. letter # 117 /\ \A f \in Escapes : f[1] = letter => f[2] = e[2]
    BY <1>1, EscapeTable
  <2>2. \E f \in Escapes : f[1] = letter
    BY <1>1
  <2>3. PICK s : s = Reads("escape", <<>>, <<>>, 0, text)
    OBVIOUS
  <2>4. \E f \in Escapes : f[1] = letter /\ Scan(s, letter) = Between(0, Append(text, f[2]))
    BY <2>1, <2>2, <2>3, EscapeIs
  <2> QED
    BY <2>1, <2>3, <2>4, Zenon
<1>8. q \o <<Backslash, letter>> = Append(r, letter)
  BY <1>2, <1>3, ConcatTwo
<1> QED
  BY <1>1, <1>6, <1>7, <1>8, Zenon

LEMMA BelowThree ==
  ASSUME NEW n \in Nat, n < 3
  PROVE  n < 4 /\ n # 3
OBVIOUS

(* The scanner has read the first n digits of an escape. *)
HexRead(q, digits, n, text) ==
  /\ q \in Seq(Byte) /\ digits \in Seq(0 .. 15) /\ Len(digits) = n
  /\ Scans(q) = Reads("hex", <<>>, digits, 0, text)

LEMMA DigitIsRead ==
  ASSUME NEW q, NEW text, NEW digits, NEW n \in Nat, n < 3, HexRead(q, digits, n, text),
         NEW v \in 0 .. 15, NEW m, m = n + 1
  PROVE  HexRead(Append(q, HexDigit(v)), Append(digits, v), m, text)
<1>1. PICK byte \in Byte : byte = HexDigit(v) /\ HexValue(byte) = v
  <2>1. HexDigit(v) \in 48 .. 102 /\ HexValue(HexDigit(v)) = v
    BY HexDigits
  <2>2. HexDigit(v) \in Byte
    BY <2>1 DEF Byte
  <2> QED
    BY <2>1, <2>2, Zenon
<1>2. /\ q \in Seq(Byte) /\ digits \in Seq(0 .. 15) /\ Len(digits) = n
      /\ Scans(q) = Reads("hex", <<>>, digits, 0, text)
  BY DEF HexRead
<1>3. Scans(Append(q, byte)) = Scan(Reads("hex", <<>>, digits, 0, text), byte)
        /\ Append(q, byte) \in Seq(Byte)
  BY <1>2, ScansByte
<1>4. Scan(Reads("hex", <<>>, digits, 0, text), byte)
        = Reads("hex", <<>>, Append(digits, v), 0, text)
  <2>1. byte \in Read /\ Len(digits) < 4 /\ Len(digits) # 3 /\ HexValue(byte) # 16
    <3>1. n < 4 /\ n # 3
      BY BelowThree, Zenon
    <3>2. HexValue(byte) = v /\ v # 16
      BY <1>1
    <3> QED
      BY <1>2, <3>1, <3>2, Zenon DEF Read
  <2> QED
    BY <1>1, <1>2, <2>1, HexIs, Zenon
<1>5. Append(digits, v) \in Seq(0 .. 15) /\ Len(Append(digits, v)) = n + 1
  BY <1>2, Appended
<1> QED
  BY <1>1, <1>3, <1>4, <1>5, Zenon DEF HexRead

LEMMA UnicodeAlone ==
  ASSUME NEW text, NEW cp \in Nat, cp \notin Surrogates
  PROVE  Unicode(Reads("hex", <<>>, <<>>, 0, text), cp) = Reached(text, cp)
<1>1. PICK s : s = Reads("hex", <<>>, <<>>, 0, text)
  OBVIOUS
<1>2. s.high = 0
  BY <1>1 DEF Reads
<1>3. cp \notin HighSurrogates /\ cp \notin LowSurrogates
  BY SurrogateBounds, SMT
<1>4. Unicode(s, cp) = Unpaired(s, cp, LowSurrogates)
  BY <1>2, Zenon DEF Unicode
<1>5. Unpaired(s, cp, LowSurrogates) = Added(s, Encoded(cp))
  BY <1>3, Zenon DEF Unpaired
<1>6. Added(Reads("hex", <<>>, <<>>, 0, text), Encoded(cp)) = Reached(text, cp)
  BY AddedIs DEF Reached
<1> QED
  BY <1>1, <1>4, <1>5, <1>6, Zenon

(* A code point by its number. *)
LEMMA NumberIsRead ==
  ASSUME NEW q \in Seq(Byte), NEW text \in Seq(Byte), Scans(q) = Between(0, text),
         NEW cp \in 0 .. 31
  PROVE  Scans(q \o Numbered(cp)) = Between(0, Append(text, cp))
<1>1. PICK x \in 0 .. 15 : x = cp \div 16
  OBVIOUS
<1>2. PICK y \in 0 .. 15 : y = cp % 16
  OBVIOUS
<1>3. /\ HexDigit(0) = 48 /\ HexDigit(x) \in Byte
      /\ HexDigit(y) \in Byte /\ HexValue(HexDigit(y)) = y
      /\ Backslash \in Byte /\ 117 \in Byte /\ 48 \in Byte /\ Backslash \in Read
  <2>1. HexDigit(0) = 48
    BY DEF HexDigit
  <2>2. ASSUME NEW v \in 0 .. 15
        PROVE  HexDigit(v) \in Byte /\ HexValue(HexDigit(v)) = v
    <3>1. HexDigit(v) \in 48 .. 102 /\ HexValue(HexDigit(v)) = v
      BY HexDigits
    <3> QED
      BY <3>1 DEF Byte
  <2>3. Backslash \in Byte /\ 117 \in Byte /\ 48 \in Byte
    BY DEF Backslash, Byte
  <2> QED
    BY <2>1, <2>2, <2>3 DEF Read
<1>4. PICK r \in Seq(Byte) :
        r = Append(q, Backslash) /\ Scans(r) = Scan(Between(0, text), Backslash)
  BY <1>3, ScansByte
<1>5. Scan(Between(0, text), Backslash) = Reads("escape", <<>>, <<>>, 0, text)
  <2>1. After1(0, Backslash) = 0 /\ Backslash # Quote /\ ~(Backslash < 32)
    BY FirstOfOne DEF Backslash, Quote
  <2>2. After1(0, Backslash) # 1
    BY <2>1
  <2> QED
    BY <1>3, <2>1, <2>2, CharIs, Zenon
<1>6. PICK t \in Seq(Byte) : /\ t = Append(r, 117)
                             /\ Scans(t) = Scan(Reads("escape", <<>>, <<>>, 0, text), 117)
  <2>1. Scans(Append(r, 117)) = Scan(Scans(r), 117) /\ Append(r, 117) \in Seq(Byte)
    BY <1>3, ScansByte
  <2> QED
    BY <1>4, <1>5, <2>1, Zenon
<1>7. Scan(Reads("escape", <<>>, <<>>, 0, text), 117) = Reads("hex", <<>>, <<>>, 0, text)
  <2>1. \A e \in Escapes : e[1] # 117
    BY EscapeTable
  <2>2. \E e \in Escapes : e[1] = 98
    <3>1. <<98, 8>> \in Escapes /\ <<98, 8>>[1] = 98
      BY DEF Escapes
    <3> QED
      BY <3>1, Zenon
  <2>3. PICK s : s = Reads("escape", <<>>, <<>>, 0, text)
    OBVIOUS
  <2>4. Scan(s, 117) = Escape(s, 117)
    <3>1. s.goal = "escape"
      BY <2>3 DEF Reads
    <3> QED
      BY <3>1, ScanIs
  <2>5. Escape(s, 117) = [s EXCEPT !.goal = "hex"]
    BY DEF Escape
  <2>6. [s EXCEPT !.goal = "hex"] = Reads("hex", <<>>, <<>>, 0, text)
    BY <2>3 DEF Reads
  <2> QED
    BY <2>3, <2>4, <2>5, <2>6
<1>8. HexRead(t, <<>>, 0, text)
  <2>1. <<>> \in Seq(0 .. 15) /\ Len(<<>>) = 0
    OBVIOUS
  <2> QED
    BY <1>6, <1>7, <2>1, Zenon DEF HexRead
<1>9. PICK a, d : a = Append(t, 48) /\ d = Append(<<>>, 0) /\ HexRead(a, d, 1, text)
  <2>1. 0 \in 0 .. 15 /\ 0 \in Nat /\ 0 < 3 /\ 1 = 0 + 1
    OBVIOUS
  <2> QED
    BY <1>3, <1>8, <2>1, DigitIsRead, Zenon
<1>10. PICK b, e : b = Append(a, 48) /\ e = Append(d, 0) /\ HexRead(b, e, 2, text)
  <2>1. 0 \in 0 .. 15 /\ 1 \in Nat /\ 1 < 3 /\ 2 = 1 + 1
    OBVIOUS
  <2> QED
    BY <1>3, <1>9, <2>1, DigitIsRead, Zenon
<1>11. PICK c, f : c = Append(b, HexDigit(x)) /\ f = Append(e, x) /\ HexRead(c, f, 3, text)
  <2>1. 2 \in Nat /\ 2 < 3 /\ 3 = 2 + 1
    OBVIOUS
  <2> QED
    BY <1>10, <2>1, DigitIsRead, Zenon
<1>12. f[1] = 0 /\ f[2] = 0 /\ f[3] = x
  <2>1. /\ d \in Seq(0 .. 15) /\ Len(d) = 1 /\ e \in Seq(0 .. 15) /\ Len(e) = 2
        /\ f \in Seq(0 .. 15) /\ Len(f) = 3
    BY <1>9, <1>10, <1>11, Zenon DEF HexRead
  <2>2. d[1] = 0
    BY <1>9
  <2>3. e[1] = 0 /\ e[2] = 0
    BY <1>10, <2>1, <2>2
  <2> QED
    BY <1>11, <2>1, <2>3
<1>13. CodePoint(f, y) = cp
  <2>1. CodePoint(f, y) = Value(0, 0, x, y)
    BY <1>12, Zenon DEF CodePoint
  <2>2. Value(0, 0, x, y) = cp
    BY <1>1, <1>2, SMT DEF Value
  <2> QED
    BY <2>1, <2>2
<1>14. Scans(Append(c, HexDigit(y))) = Scan(Reads("hex", <<>>, f, 0, text), HexDigit(y))
  <2>1. c \in Seq(Byte) /\ Scans(c) = Reads("hex", <<>>, f, 0, text)
    BY <1>11, Zenon DEF HexRead
  <2> QED
    BY <1>3, <2>1, ScansByte, Zenon
<1>15. Scan(Reads("hex", <<>>, f, 0, text), HexDigit(y))
         = Unicode(Reads("hex", <<>>, <<>>, 0, text), cp)
  <2>1. ~(Len(f) < 3) /\ Len(f) < 4 /\ HexValue(HexDigit(y)) # 16
    <3>1. PICK n \in Nat : n = Len(f) /\ n = 3
      BY <1>11 DEF HexRead
    <3>2. ~(n < 3) /\ n < 4 /\ y # 16
      BY <3>1
    <3> QED
      BY <1>3, <3>1, <3>2, Zenon
  <2>2. HexDigit(y) \in Read
    BY <1>3 DEF Read
  <2> QED
    <3>1. f \in Seq(0 .. 15)
      BY <1>11, Zenon DEF HexRead
    <3>2. PICK s : s = Reads("hex", <<>>, f, 0, text)
      OBVIOUS
    <3> QED
      BY <1>3, <1>13, <2>1, <2>2, <3>1, <3>2, HexIs, ZenonT(30)
<1>16. Unicode(Reads("hex", <<>>, <<>>, 0, text), cp) = Reached(text, cp)
  <2>1. cp \in Nat /\ cp \notin Surrogates
    <3>1. cp \in Nat /\ cp <= 31
      OBVIOUS
    <3> QED
      BY <3>1, SurrogateBounds, SMT
  <2> QED
    BY <2>1, UnicodeAlone, Zenon
<1>17. Reached(text, cp) = Between(0, Append(text, cp))
  <2>1. Encoded(cp) = <<cp>>
    BY SMT DEF Encoded, EncodedFrom
  <2>2. text \o <<cp>> = Append(text, cp)
    <3>1. cp \in Byte
      BY DEF Byte
    <3> QED
      BY <3>1, ConcatOne
  <2> QED
    BY <2>1, <2>2, RangesOfState, Zenon DEF Reached, Between
<1>18. q \o Numbered(cp) = Append(c, HexDigit(y))
  <2>1. Numbered(cp) = <<Backslash, 117, 48, 48, HexDigit(x), HexDigit(y)>>
    BY <1>1, <1>2, Zenon DEF Numbered
  <2>2. q \o <<Backslash, 117, 48, 48, HexDigit(x), HexDigit(y)>>
          = Append(Append(Append(Append(Append(Append(q, Backslash), 117), 48), 48), HexDigit(x)),
                   HexDigit(y))
    <3>1. PICK u \in Byte, v \in Byte : u = HexDigit(x) /\ v = HexDigit(y)
      BY <1>3
    <3>2. PICK s \in Byte, l \in Byte, o \in Byte : s = Backslash /\ l = 117 /\ o = 48
      BY <1>3
    <3>3. q \o <<s, l, o, o, u, v>>
            = Append(Append(Append(Append(Append(Append(q, s), l), o), o), u), v)
      <4>1. SixAppended(q, s, l, o, o, u, v)
        BY <3>1, <3>2, ConcatSix, Zenon
      <4> QED
        BY <4>1, Zenon DEF SixAppended
    <3> QED
      BY <3>1, <3>2, <3>3, Zenon
  <2> QED
    BY <1>4, <1>6, <1>9, <1>10, <1>11, <2>1, <2>2, Zenon
<1> QED
  BY <1>14, <1>15, <1>16, <1>17, <1>18, Zenon

LEMMA BelowSpace ==
  ASSUME NEW n \in 0 .. 127, n < 32
  PROVE  n \in 0 .. 31
OBVIOUS

(* What dump_escaped writes for a byte, read behind what it wrote before. *)
LEMMA WrittenIsRead ==
  ASSUME NEW d \in DumpState, NEW byte \in Byte, NEW pending \in Seq(Byte),
         Pending(d.state, d.codepoint, pending), After1(d.state, byte) # 1,
         NEW state, state = After1(d.state, byte), NEW cp, cp = Code(d, byte),
         NEW q \in Seq(Byte), NEW text \in Seq(Byte), Scans(q) = Between(d.state, text)
  PROVE  Scans(q \o WrittenAs(state, cp, byte)) = Between(state, Append(text, byte))
<1>1. Takes(state, cp, Append(pending, byte), byte)
  BY TakesByte
<1>2. d.state \in {0} \cup Inside
  BY DEF DumpState
<1>3. byte \in Read
  BY DEF Read
<1>4. d.state # 0 => byte \in 128 .. 191
  <2>1. SUFFICES ASSUME d.state # 0 PROVE byte \in 128 .. 191
    OBVIOUS
  <2>2. d.state \in Inside
    BY <1>2, <2>1
  <2> QED
    BY <2>2, Following DEF Agrees
<1>5. d.state = 0 /\ byte \in 0 .. 127 => state = 0 /\ cp = byte
  <2>1. SUFFICES ASSUME d.state = 0, byte \in 0 .. 127 PROVE state = 0 /\ cp = byte
    OBVIOUS
  <2>2. After1(0, byte) = 0 /\ FirstBits(byte) = byte
    BY <2>1, FirstOfOne
  <2> QED
    BY <2>1, <2>2 DEF Code
<1>6. CASE ~(state = 0 /\ MustEscape(cp))
  <2>1. WrittenAs(state, cp, byte) = <<byte>>
    BY <1>6, Zenon DEF WrittenAs
  <2>2. q \o <<byte>> = Append(q, byte)
    BY ConcatOne
  <2>3. Scans(Append(q, byte)) = Scan(Between(d.state, text), byte)
    BY ScansByte
  <2>4. CASE d.state = 0
    <3>1. ~MustEscape(byte)
      <4>1. MustEscape(byte) => byte \in 0 .. 127
        BY DEF MustEscape, Byte, Quote, Backslash
      <4> QED
        BY <1>5, <1>6, <2>4, <4>1, Zenon
    <3>2. byte # Quote /\ byte # Backslash /\ ~(byte < 32)
      BY <3>1, Zenon DEF MustEscape
    <3>3. After1(0, byte) # 1 /\ state = After1(0, byte)
      BY <2>4
    <3>4. Scan(Between(0, text), byte) = Between(state, Append(text, byte))
      BY <1>3, <3>2, <3>3, CharIs, Zenon
    <3> QED
      BY <2>1, <2>2, <2>3, <2>4, <3>4, Zenon
  <2>5. CASE d.state # 0
    <3>1. d.state \in Inside
      BY <1>2, <2>5
    <3>2. Scan(Between(d.state, text), byte) = Between(state, Append(text, byte))
      BY <1>3, <3>1, RangeIs, Zenon
    <3> QED
      BY <2>1, <2>2, <2>3, <3>2, Zenon
  <2> QED
    BY <2>4, <2>5
<1>7. CASE state = 0 /\ MustEscape(cp)
  <2>1. WrittenAs(state, cp, byte) = Escaped(cp)
    BY <1>7, Zenon DEF WrittenAs
  <2>2. cp = byte
    BY <1>1, <1>7 DEF Takes
  <2>3. cp \in 0 .. 127
    BY <1>7, <2>2 DEF MustEscape, Byte, Quote, Backslash
  <2>4. d.state = 0
    BY <1>4, <2>2, <2>3
  <2>5. CASE \E e \in Escapes : e[2] = cp /\ Escaped(cp) = <<Backslash, e[1]>>
    <3>1. PICK e \in Escapes : e[2] = cp /\ Escaped(cp) = <<Backslash, e[1]>>
      BY <2>5
    <3>2. Scans(q \o <<Backslash, e[1]>>) = Between(0, Append(text, e[2]))
      BY <2>4, LetterIsRead, Zenon
    <3> QED
      BY <1>7, <2>1, <2>2, <3>1, <3>2, Zenon
  <2>6. CASE cp < 32 /\ Escaped(cp) = Numbered(cp)
    <3>1. cp \in 0 .. 31
      <4>1. cp < 32
        BY <2>6, Zenon
      <4> QED
        BY <2>3, <4>1, BelowSpace, Zenon
    <3>2. Scans(q \o Numbered(cp)) = Between(0, Append(text, cp))
      BY <2>4, <3>1, NumberIsRead, Zenon
    <3> QED
      BY <1>7, <2>1, <2>2, <2>6, <3>2, Zenon
  <2> QED
    BY <1>7, <2>3, <2>5, <2>6, EscapedIs
<1> QED
  BY <1>6, <1>7


-----------------------------------------------------------------------------
(* Every byte keeps what is known of the scanner *)

(* Goals before the token and, when it is no string, behind its first byte. *)
Outside == {"bom", "second of bom", "third of bom", "token"}

Before(goal) == Reads(goal, <<>>, <<>>, 0, <<>>)

OtherTokens ==
  DOMAIN Structural \cup DOMAIN Literals \cup NumberTypes \cup {"end_of_input", "parse_error"}

Elsewhere(s) ==
  \/ s.goal \in OtherTokens
  \/ s.goal \in NumberGoals /\ "goal" \in DOMAIN s
  \/ /\ s.goal = "literal" /\ s.return_type \in DOMAIN Literals
     /\ "goal" \in DOMAIN s /\ "return_type" \in DOMAIN s

LEMMA StartIs == Start = Before("bom")
BY DEF Start, Before, Reads

(* scan_number stays among its labels or gives a number or an error. *)
LEMMA NumberByteIs ==
  ASSUME NEW s, NEW byte, "goal" \in DOMAIN s
  PROVE  /\ NumberByte(s, byte).goal \in NumberGoals \cup NumberTypes \cup {"parse_error"}
         /\ "goal" \in DOMAIN NumberByte(s, byte)
<1>1. PICK to : to = Goto(s.goal, byte)
  OBVIOUS
<1>2. to \in NumberGoals \cup {"done", "parse_error"}
  BY <1>1 DEF Goto, NumberGoals
<1>3. PICK type : type = Converted(s.return_type, s.token_buffer).type
  OBVIOUS
<1>4. type \in NumberTypes
  <2>1. PICK x : x = Magnitude(s.token_buffer)
    OBVIOUS
  <2>2. PICK a, b : a = (x <= UnsignedMax) /\ b = (x <= IntegerMax + 1)
    OBVIOUS
  <2>3. PICK y : y = -x
    OBVIOUS
  <2>4. PICK rt : rt = s.return_type
    OBVIOUS
  <2>5. Converted(s.return_type, s.token_buffer) =
          CASE rt = "value_unsigned" /\ a -> [type |-> rt, value |-> x]
            [] rt = "value_integer" /\ b -> [type |-> rt, value |-> y]
            [] OTHER -> [type |-> "value_float", value |-> 0]
    BY <2>1, <2>2, <2>3, <2>4, Zenon DEF Converted
  <2> QED
    BY <1>3, <2>5 DEF NumberTypes
<1>5. CASE to = "done"
  <2>1. NumberByte(s, byte) = [s EXCEPT !.goal = type]
    BY <1>1, <1>3, <1>5, Zenon DEF NumberByte
  <2> QED
    BY <1>4, <2>1
<1>6. CASE to = "parse_error"
  <2>1. NumberByte(s, byte) = [s EXCEPT !.goal = to]
    BY <1>1, <1>6 DEF NumberByte
  <2> QED
    BY <1>6, <2>1
<1>7. CASE to \in NumberGoals
  <2>1. to # "done" /\ to # "parse_error"
    BY <1>7 DEF NumberGoals
  <2>2. PICK a, b : a = TypeAt(to, s.return_type) /\ b = Append(s.token_buffer, byte)
    OBVIOUS
  <2>3. NumberByte(s, byte) = [s EXCEPT !.goal = to, !.return_type = a, !.token_buffer = b]
    BY <1>1, <2>1, <2>2, Zenon DEF NumberByte
  <2>4. /\ [s EXCEPT !.goal = to, !.return_type = a, !.token_buffer = b].goal = to
        /\ "goal" \in DOMAIN [s EXCEPT !.goal = to, !.return_type = a, !.token_buffer = b]
    OBVIOUS
  <2> QED
    BY <1>7, <2>3, <2>4
<1> QED
  BY <1>2, <1>5, <1>6, <1>7

(* The first byte of a token. *)
LEMMA TokenIs ==
  ASSUME NEW g, NEW byte \in Read, NEW s, s = Before(g)
  PROVE  \/ Token(s, byte) = Before("token")
         \/ Token(s, byte) = Between(0, <<>>)
         \/ Elsewhere(Token(s, byte))
<1>1. PICK white, opens, begins, digit, ends :
        /\ white = (byte \in WhiteSpace) /\ opens = (byte \in Range(Structural))
        /\ begins = (\E t \in DOMAIN Literals : Head(Literals[t]) = byte)
        /\ digit = (byte \in Digit \cup {Minus}) /\ ends = (byte \in {0, EndOfFile})
  OBVIOUS
<1>2. PICK structural : structural = CHOOSE t \in DOMAIN Structural : Structural[t] = byte
  OBVIOUS
<1>3. PICK literal : literal = CHOOSE l \in DOMAIN Literals : Head(Literals[l]) = byte
  OBVIOUS
<1>4. PICK a, b, c, d, e, f, r :
        /\ a = [s EXCEPT !.goal = "token"] /\ b = [s EXCEPT !.goal = structural]
        /\ c = [s EXCEPT !.goal = "literal", !.return_type = literal,
                         !.rest = Tail(Literals[literal])]
        /\ d = [reset(s) EXCEPT !.goal = "char"]
        /\ e = NumberByte([reset(s) EXCEPT !.goal = "init", !.return_type = "value_unsigned"], byte)
        /\ f = [s EXCEPT !.goal = "end_of_input"] /\ r = Refused(s)
  OBVIOUS
<1>5. Token(s, byte) =
        CASE white -> a [] opens -> b [] begins -> c [] byte = Quote -> d [] digit -> e
          [] ends -> f [] OTHER -> r
  BY <1>1, <1>2, <1>3, <1>4, Zenon DEF Token
<1>6. a = Before("token")
  BY <1>4 DEF Before, Reads
<1>7. opens => Elsewhere(b)
  <2>1. SUFFICES ASSUME opens PROVE Elsewhere(b)
    OBVIOUS
  <2>2. byte \in Range(Structural)
    BY <1>1, <2>1, Zenon
  <2>3. \E t \in DOMAIN Structural : Structural[t] = byte
    BY <2>2 DEF Range
  <2>4. structural \in DOMAIN Structural
    BY <1>2, <2>3, Zenon
  <2>5. b.goal = structural
    BY <1>4 DEF Before, Reads
  <2> QED
    BY <2>4, <2>5, Zenon DEF Elsewhere, OtherTokens
<1>8. begins => Elsewhere(c)
  <2>1. SUFFICES ASSUME begins PROVE Elsewhere(c)
    OBVIOUS
  <2>2. literal \in DOMAIN Literals
    BY <1>1, <1>3, <2>1, Zenon
  <2>3. PICK rest : rest = Tail(Literals[literal])
    OBVIOUS
  <2>4. c = [s EXCEPT !.goal = "literal", !.return_type = literal, !.rest = rest]
    BY <1>4, <2>3
  <2>5. /\ c.goal = "literal" /\ c.return_type = literal
        /\ "goal" \in DOMAIN c /\ "return_type" \in DOMAIN c
    BY <2>4 DEF Before, Reads
  <2> QED
    BY <2>2, <2>5, Zenon DEF Elsewhere
<1>9. d = Between(0, <<>>)
  <2>1. reset(s) = Before(g)
    BY DEF reset, Before, Reads
  <2>2. d = Before("char")
    BY <1>4, <2>1 DEF Before, Reads
  <2> QED
    BY <2>2, RangesOfState, Zenon DEF Before, Between
<1>10. Elsewhere(e)
  <2>1. reset(s) = Before(g)
    BY DEF reset, Before, Reads
  <2>2. PICK n : n = [Before(g) EXCEPT !.goal = "init", !.return_type = "value_unsigned"]
    OBVIOUS
  <2>3. "goal" \in DOMAIN n
    BY <2>2 DEF Before, Reads
  <2>4. /\ e.goal \in NumberGoals \cup NumberTypes \cup {"parse_error"}
        /\ "goal" \in DOMAIN e
    BY <1>4, <2>1, <2>2, <2>3, NumberByteIs, Zenon
  <2> QED
    BY <2>4, Zenon DEF Elsewhere, OtherTokens
<1>11. Elsewhere(f)
  <2>1. f.goal = "end_of_input"
    BY <1>4 DEF Before, Reads
  <2> QED
    BY <2>1, Zenon DEF Elsewhere, OtherTokens
<1>12. Elsewhere(r)
  <2>1. r.goal = "parse_error"
    BY <1>4 DEF Before, Reads, Refused
  <2> QED
    BY <2>1, Zenon DEF Elsewhere, OtherTokens
<1> QED
  <2>1. white \in BOOLEAN /\ opens \in BOOLEAN /\ begins \in BOOLEAN /\ digit \in BOOLEAN
        /\ ends \in BOOLEAN
    BY <1>1
  <2>2. PICK q : q = (byte = Quote)
    OBVIOUS
  <2>3. Token(s, byte) =
          CASE white -> a [] opens -> b [] begins -> c [] q -> d [] digit -> e
            [] ends -> f [] OTHER -> r
    BY <1>5, <2>2
  <2>4. \/ Token(s, byte) = a
        \/ opens /\ Token(s, byte) = b
        \/ begins /\ Token(s, byte) = c
        \/ Token(s, byte) \in {d, e, f, r}
    BY <2>1, <2>3
  <2> QED
    BY <1>6, <1>7, <1>8, <1>9, <1>10, <1>11, <1>12, <2>4

LEMMA OutsideScan ==
  ASSUME NEW s, NEW byte
  PROVE  /\ s.goal = "bom"           => Scan(s, byte) = FirstByte(s, byte)
         /\ s.goal = "second of bom" => Scan(s, byte) = BomByte(s, byte, 187, "third of bom")
         /\ s.goal = "third of bom"  => Scan(s, byte) = BomByte(s, byte, 191, "token")
         /\ s.goal = "token"         => Scan(s, byte) = Token(s, byte)
         /\ s.goal = "literal"       => Scan(s, byte) = scan_literal(s, byte)
<1>1. PICK a, b, c, d, e, f, g :
        /\ a = FirstByte(s, byte) /\ b = BomByte(s, byte, 187, "third of bom")
        /\ c = BomByte(s, byte, 191, "token") /\ d = Token(s, byte)
        /\ e = scan_literal(s, byte) /\ f = Scanned(s, byte) /\ g = NumberByte(s, byte)
  OBVIOUS
<1>2. Scan(s, byte) =
        CASE s.goal = "bom"             -> a
          [] s.goal = "second of bom"   -> b
          [] s.goal = "third of bom"    -> c
          [] s.goal = "token"           -> d
          [] s.goal = "literal"         -> e
          [] s.goal \in StringGoals     -> f
          [] s.goal \in NumberGoals     -> g
          [] OTHER                      -> s
  BY <1>1, Zenon DEF Scan
<1>3. /\ s.goal = "bom"           => Scan(s, byte) = a
      /\ s.goal = "second of bom" => Scan(s, byte) = b
      /\ s.goal = "third of bom"  => Scan(s, byte) = c
      /\ s.goal = "token"         => Scan(s, byte) = d
      /\ s.goal = "literal"       => Scan(s, byte) = e
  BY <1>2 DEF StringGoals, NumberGoals
<1> QED
  BY <1>1, <1>3, Zenon

LEMMA NumberScan ==
  ASSUME NEW s, NEW byte, s.goal \in NumberGoals
  PROVE  Scan(s, byte) = NumberByte(s, byte)
<1>1. PICK a, b, c, d, e, f, g :
        /\ a = FirstByte(s, byte) /\ b = BomByte(s, byte, 187, "third of bom")
        /\ c = BomByte(s, byte, 191, "token") /\ d = Token(s, byte)
        /\ e = scan_literal(s, byte) /\ f = Scanned(s, byte) /\ g = NumberByte(s, byte)
  OBVIOUS
<1>2. Scan(s, byte) =
        CASE s.goal = "bom"             -> a
          [] s.goal = "second of bom"   -> b
          [] s.goal = "third of bom"    -> c
          [] s.goal = "token"           -> d
          [] s.goal = "literal"         -> e
          [] s.goal \in StringGoals     -> f
          [] s.goal \in NumberGoals     -> g
          [] OTHER                      -> s
  BY <1>1, Zenon DEF Scan
<1>3. Scan(s, byte) = g
  BY <1>2 DEF StringGoals, NumberGoals
<1> QED
  BY <1>1, <1>3, Zenon

LEMMA StringBegins ==
  ASSUME NEW s, NEW byte, byte = Quote, byte \notin WhiteSpace, byte \notin Range(Structural),
         ~ \E t \in DOMAIN Literals : Head(Literals[t]) = byte,
         byte \notin Digit \cup {Minus}, byte \notin {0, EndOfFile}
  PROVE  Token(s, byte) = [reset(s) EXCEPT !.goal = "char"]
<1>1. PICK white, opens, begins, quote, digit, ends :
        /\ white = (byte \in WhiteSpace) /\ opens = (byte \in Range(Structural))
        /\ begins = (\E t \in DOMAIN Literals : Head(Literals[t]) = byte)
        /\ quote = (byte = Quote)
        /\ digit = (byte \in Digit \cup {Minus}) /\ ends = (byte \in {0, EndOfFile})
  OBVIOUS
<1>2. PICK structural : structural = CHOOSE t \in DOMAIN Structural : Structural[t] = byte
  OBVIOUS
<1>3. PICK literal : literal = CHOOSE l \in DOMAIN Literals : Head(Literals[l]) = byte
  OBVIOUS
<1>4. PICK a, b, c, d, e, f, r :
        /\ a = [s EXCEPT !.goal = "token"] /\ b = [s EXCEPT !.goal = structural]
        /\ c = [s EXCEPT !.goal = "literal", !.return_type = literal,
                         !.rest = Tail(Literals[literal])]
        /\ d = [reset(s) EXCEPT !.goal = "char"]
        /\ e = NumberByte([reset(s) EXCEPT !.goal = "init", !.return_type = "value_unsigned"], byte)
        /\ f = [s EXCEPT !.goal = "end_of_input"] /\ r = Refused(s)
  OBVIOUS
<1>5. Token(s, byte) =
        CASE white -> a [] opens -> b [] begins -> c [] quote -> d [] digit -> e
          [] ends -> f [] OTHER -> r
  BY <1>1, <1>2, <1>3, <1>4, Zenon DEF Token
<1>6. /\ white \in BOOLEAN /\ opens \in BOOLEAN /\ begins \in BOOLEAN /\ quote \in BOOLEAN
      /\ digit \in BOOLEAN /\ ends \in BOOLEAN
  BY <1>1
<1>7. \/ white \/ opens \/ begins \/ ~quote \/ digit \/ ends
      \/ Token(s, byte) = d
  BY <1>5, <1>6
<1>8. ~white
  BY <1>1
<1>9. ~opens
  BY <1>1
<1>10. ~begins
  <2>1. begins = (\E t \in DOMAIN Literals : Head(Literals[t]) = byte)
    BY <1>1
  <2> QED
    BY <2>1
<1>11. quote
  BY <1>1
<1>12. ~digit /\ ~ends
  BY <1>1
<1> QED
  BY <1>4, <1>7, <1>8, <1>9, <1>10, <1>11, <1>12, Zenon

LEMMA QuoteIsRead == Scans(<<Quote>>) = Between(0, <<>>)
<1>1. Scans(Append(<<>>, Quote)) = Scan(Scans(<<>>), Quote)
  <2>1. <<>> \in Seq(Byte) /\ Quote \in Byte
    BY DEF Quote, Byte
  <2> QED
    BY <2>1, ScansAppend
<1>2. Append(<<>>, Quote) = <<Quote>>
  OBVIOUS
<1>3. Scan(Start, Quote) = Token(Start, Quote)
  <2>1. Start.goal = "bom"
    BY DEF Start
  <2>2. Scan(Start, Quote) = FirstByte(Start, Quote)
    BY <2>1, OutsideScan
  <2>3. Quote # 239
    BY DEF Quote
  <2> QED
    BY <2>2, <2>3, Zenon DEF FirstByte
<1>4. Quote \notin WhiteSpace /\ Quote \notin Range(Structural)
  BY DEF Quote, WhiteSpace, Structural, Range
<1>5. ~ \E t \in DOMAIN Literals : Head(Literals[t]) = Quote
  BY DEF Literals, Quote
<1>6. PICK d : d = [reset(Start) EXCEPT !.goal = "char"]
  OBVIOUS
<1>7. Token(Start, Quote) = d
  <2>1. Quote \notin Digit \cup {Minus} /\ Quote \notin {0, EndOfFile}
    BY DEF Quote, Digit, Minus, Ascii, EndOfFile
  <2> QED
    BY <1>4, <1>5, <1>6, <2>1, StringBegins, Zenon
<1>8. d = Before("char")
  <2>1. reset(Start) = Start
    BY DEF reset, Start
  <2>2. PICK before, after : before = "bom" /\ after = "char"
    OBVIOUS
  <2>3. [Before(before) EXCEPT !.goal = after] = Before(after)
    BY DEF Before, Reads
  <2> QED
    BY <1>6, <2>1, <2>2, <2>3, StartIs, Zenon
<1> QED
  BY <1>1, <1>2, <1>3, <1>7, <1>8, ScansEmpty, RangesOfState, Zenon DEF Before, Between


-----------------------------------------------------------------------------
(* What is taken can be written and is read back *)

(* What dump_escaped writes of text, behind a quote. *)
Written(text) == <<Quote>> \o Dump(text).output

(* After text, dump_escaped is in state, and has written in the buffer and  *)
(* on one line what the scanner reads back.                                 *)
Good(text, state) ==
  /\ text \in Seq(Byte) /\ Dump(text).state = state
  /\ \E pending : DumpsTo(Dump(text), text, pending)
  /\ Scans(Written(text)) = Between(state, text)

LEMMA DumpStateIs ==
  ASSUME NEW s \in {0} \cup Inside, NEW c \in Nat, NEW p \in Seq(Characters),
         NEW o \in Seq(Byte), NEW b \in Nat, NEW m \in Nat
  PROVE  [state |-> s, codepoint |-> c, points |-> p, output |-> o, bytes |-> b, most |-> m]
           \in DumpState
BY DEF DumpState

LEMMA GoodEmpty == Good(<<>>, 0)
<1>1. PICK d : d = DumpStart
  OBVIOUS
<1>2. Dump(<<>>) = d
  BY <1>1, DumpEmpty
<1>3. /\ d.state = 0 /\ d.codepoint = 0 /\ d.points = <<>> /\ d.output = <<>> /\ d.bytes = 0
      /\ d.most = 0
      /\ d = [state |-> d.state, codepoint |-> d.codepoint, points |-> d.points,
              output |-> d.output, bytes |-> d.bytes, most |-> d.most]
  BY <1>1 DEF DumpStart
<1>4. d \in DumpState
  <2>1. /\ d.state \in {0} \cup Inside /\ d.codepoint \in Nat /\ d.points \in Seq(Characters)
        /\ d.output \in Seq(Byte) /\ d.bytes \in Nat /\ d.most \in Nat
    BY <1>3
  <2>2. [state |-> d.state, codepoint |-> d.codepoint, points |-> d.points,
         output |-> d.output, bytes |-> d.bytes, most |-> d.most] \in DumpState
    BY <2>1, DumpStateIs, Zenon
  <2> QED
    BY <1>3, <2>2, Zenon
<1>5. DumpsTo(d, <<>>, <<>>)
  <2>1. <<>> \in Seq(Byte) /\ <<>> = <<>> \o <<>>
    OBVIOUS
  <2>2. Spelling(d.points) = <<>>
    BY <1>3, SpellingEmpty
  <2>3. Pending(d.state, d.codepoint, <<>>)
    BY <1>3 DEF Pending
  <2>4. OneLine(d.output)
    BY <1>3 DEF OneLine
  <2>5. Room(d.bytes, <<>>) /\ d.most <= BufferSize
    BY <1>3, BufferAssumption DEF Room
  <2> QED
    BY <1>4, <2>1, <2>2, <2>3, <2>4, <2>5, Zenon DEF DumpsTo
<1>6. Written(<<>>) = <<Quote>>
  <2>1. Quote \in Byte
    BY DEF Quote, Byte
  <2>2. <<Quote>> \in Seq(Byte)
    BY <2>1, Sequences
  <2>3. <<Quote>> \o <<>> = <<Quote>>
    BY <2>2
  <2> QED
    BY <1>2, <1>3, <2>3, Zenon DEF Written
<1> QED
  <2>1. <<>> \in Seq(Byte)
    OBVIOUS
  <2> QED
    BY <1>2, <1>3, <1>5, <1>6, <2>1, QuoteIsRead, Zenon DEF Good

LEMMA GoodAppend ==
  ASSUME NEW text, NEW state, Good(text, state), NEW byte \in Byte,
         After1(state, byte) # 1
  PROVE  Good(Append(text, byte), After1(state, byte))
<1>1. text \in Seq(Byte) /\ Dump(text).state = state /\ Scans(Written(text)) = Between(state, text)
  BY DEF Good
<1>2. PICK pending : DumpsTo(Dump(text), text, pending)
  BY DEF Good
<1>3. PICK d : d = Dump(text)
  OBVIOUS
<1>4. d \in DumpState /\ pending \in Seq(Byte) /\ Pending(d.state, d.codepoint, pending)
  BY <1>2, <1>3, Zenon DEF DumpsTo
<1>5. After1(d.state, byte) # 1
  BY <1>1, <1>3
<1>6. PICK next : next = After1(d.state, byte)
  OBVIOUS
<1>7. PICK cp : cp = Code(d, byte)
  OBVIOUS
<1>8. PICK w : w = WrittenAs(next, cp, byte)
  OBVIOUS
<1>9. PICK e : e = Dumped(d, byte)
  OBVIOUS
<1>10. e.state = next /\ e.output = d.output \o w
  <2>1. PICK end : end = d.bytes + Len(w)
    OBVIOUS
  <2>2. PICK touched : touched = IF Len(w) = 6 THEN end + 1 ELSE end
    OBVIOUS
  <2>3. e = [state |-> next, codepoint |-> cp,
             points |-> IF next = 0 THEN Append(d.points, cp) ELSE d.points,
             output |-> d.output \o w,
             bytes |-> IF next = 0 THEN Flushed(end) ELSE end,
             most |-> IF touched > d.most THEN touched ELSE d.most]
    BY <1>4, <1>5, <1>6, <1>7, <1>8, <1>9, <2>1, <2>2, DumpedIs, Zenon
  <2> QED
    BY <2>3
<1>11. Dump(Append(text, byte)) = e
  BY <1>1, <1>3, <1>9, DumpAppend, Zenon
<1>12. \E rest : DumpsTo(e, Append(text, byte), rest)
  BY <1>1, <1>2, <1>3, <1>5, <1>9, DumpsByte, Zenon
<1>13. Append(text, byte) \in Seq(Byte)
  BY <1>1, Appended
<1>14. PICK q \in Seq(Byte) : q = Written(text)
  <2>1. d.output \in Seq(Byte)
    BY <1>4 DEF DumpState
  <2>2. Quote \in Byte
    BY DEF Quote, Byte
  <2>3. <<Quote>> \in Seq(Byte)
    BY <2>2, Sequences
  <2>4. <<Quote>> \o d.output \in Seq(Byte)
    BY <2>1, <2>3, ConcatProperties
  <2> QED
    BY <1>3, <2>4, Zenon DEF Written
<1>15. Written(Append(text, byte)) = q \o w
  <2>1. d.output \in Seq(Byte)
    BY <1>4 DEF DumpState
  <2>2. Quote \in Byte
    BY DEF Quote, Byte
  <2>3. <<Quote>> \in Seq(Byte)
    BY <2>2, Sequences
  <2>4. w \in Seq(Byte)
    <3>1. Takes(next, cp, Append(pending, byte), byte)
      BY <1>4, <1>5, <1>6, <1>7, TakesByte, Zenon
    <3> QED
      BY <1>8, <3>1, WrittenType, Zenon
  <2>5. (<<Quote>> \o d.output) \o w = <<Quote>> \o (d.output \o w)
    <3>1. PICK x \in Seq(Byte), y \in Seq(Byte), z \in Seq(Byte) :
            x = <<Quote>> /\ y = d.output /\ z = w
      BY <2>1, <2>3, <2>4
    <3>2. (x \o y) \o z = x \o (y \o z)
      BY ConcatAssociative
    <3> QED
      BY <3>1, <3>2, Zenon
  <2> QED
    BY <1>3, <1>10, <1>11, <1>14, <2>5, Zenon DEF Written
<1>16. Scans(q \o w) = Between(next, Append(text, byte))
  <2>1. Scans(q) = Between(d.state, text)
    BY <1>1, <1>3, <1>14
  <2>2. text \in Seq(Byte)
    BY <1>1
  <2>3. Scans(q \o WrittenAs(next, cp, byte)) = Between(next, Append(text, byte))
    BY <1>4, <1>5, <1>6, <1>7, <2>1, <2>2, WrittenIsRead
  <2> QED
    BY <1>8, <2>3, Zenon
<1>17. next = After1(state, byte)
  BY <1>1, <1>3, <1>6
<1> QED
  BY <1>10, <1>11, <1>12, <1>13, <1>15, <1>16, <1>17, Zenon DEF Good

(* The bytes of a code point lead the automaton back to where it accepts. *)
LEMMA FirstBytes ==
  ASSUME NEW byte \in Byte
  PROVE  /\ byte \in 194 .. 223             => After1(0, byte) = 2
         /\ byte = 224                      => After1(0, byte) = 4
         /\ byte \in (225 .. 239) \ {237}   => After1(0, byte) = 3
         /\ byte = 237                      => After1(0, byte) = 5
         /\ byte = 240                      => After1(0, byte) = 6
         /\ byte \in 241 .. 243             => After1(0, byte) = 7
         /\ byte = 244                      => After1(0, byte) = 8
<1>1. PICK type : type = TypeOf(byte)
  OBVIOUS
<1>2. /\ byte \in 194 .. 223             => type = 2
      /\ byte = 224                      => type = 10
      /\ byte \in (225 .. 239) \ {237}   => type = 3
      /\ byte = 237                      => type = 4
      /\ byte = 240                      => type = 11
      /\ byte \in 241 .. 243             => type = 6
      /\ byte = 244                      => type = 5
  BY <1>1, Types
<1>3. After1(0, byte) = DecodeState(0, type)
  BY <1>1 DEF After1
<1> QED
  BY <1>2, <1>3, StatesFirst

LEMMA GoodByte ==
  ASSUME NEW text, NEW state, Good(text, state), NEW byte \in Byte, NEW next,
         After1(state, byte) = next, next # 1
  PROVE  Good(Append(text, byte), next)
BY GoodAppend

LEMMA GoodLast ==
  ASSUME NEW text, Good(text, 2), NEW byte \in 128 .. 191
  PROVE  Good(Append(text, byte), 0)
<1>1. byte \in Byte
  BY DEF Byte
<1>2. After1(2, byte) = 0
  BY <1>1, StateFollows DEF Follows
<1> QED
  BY <1>1, <1>2, GoodByte

LEMMA GoodLastTwo ==
  ASSUME NEW text, Good(text, 3), NEW b \in 128 .. 191, NEW c \in 128 .. 191
  PROVE  Good(Append(Append(text, b), c), 0)
<1>1. b \in Byte
  BY DEF Byte
<1>2. After1(3, b) = 2
  BY <1>1, StateFollows DEF Follows
<1>3. Good(Append(text, b), 2)
  BY <1>1, <1>2, GoodByte
<1> QED
  BY <1>3, GoodLast

LEMMA ConcatThree ==
  ASSUME NEW S, NEW q \in Seq(S), NEW a \in S, NEW b \in S, NEW c \in S
  PROVE  q \o <<a, b, c>> = Append(Append(Append(q, a), b), c)
<1>1. <<a, b>> \in Seq(S) /\ Append(<<a, b>>, c) = <<a, b, c>>
  BY AppendTwo, Sequences
<1>2. q \o Append(<<a, b>>, c) = Append(q \o <<a, b>>, c)
  BY <1>1, ConcatAppend
<1>3. q \o <<a, b>> = Append(Append(q, a), b)
  BY ConcatTwo
<1> QED
  BY <1>1, <1>2, <1>3, Zenon

LEMMA ConcatFour ==
  ASSUME NEW S, NEW q \in Seq(S), NEW a \in S, NEW b \in S, NEW c \in S, NEW d \in S
  PROVE  q \o <<a, b, c, d>> = Append(Append(Append(Append(q, a), b), c), d)
<1>1. <<a, b, c>> \in Seq(S) /\ Append(<<a, b, c>>, d) = <<a, b, c, d>>
  BY AppendThree, Sequences
<1>2. q \o Append(<<a, b, c>>, d) = Append(q \o <<a, b, c>>, d)
  BY <1>1, ConcatAppend
<1>3. q \o <<a, b, c>> = Append(Append(Append(q, a), b), c)
  BY ConcatThree
<1> QED
  BY <1>1, <1>2, <1>3, Zenon


(* Where the bytes of a code point lie. *)
LEMMA AfterIs ==
  ASSUME NEW n \in Nat
  PROVE  After(n) \in 128 .. 191
BY SMT DEF After

LEMMA BytesOfTwo ==
  ASSUME NEW cp \in Nat, 128 <= cp, cp <= 2047
  PROVE  192 + (cp \div 64) \in 194 .. 223
BY SMT

LEMMA BytesOfThree ==
  ASSUME NEW cp \in Nat, Character(cp), 2048 <= cp, cp <= 65535,
         NEW a, a = 224 + (cp \div 4096), NEW b, b = After(cp \div 64)
  PROVE  /\ a \in 224 .. 239
         /\ a = 224 => b \in 160 .. 191
         /\ a = 237 => b \in 128 .. 159
<1>1. PICK c \in Nat : c = cp \div 64
  BY SMT
<1>2. 32 <= c /\ c <= 1023 /\ ~(864 <= c /\ c <= 895)
  BY <1>1, SMT DEF Character
<1>3. cp \div 4096 = c \div 64
  BY <1>1, SMT
<1>4. a = 224 + (c \div 64) /\ b = 128 + (c % 64)
  BY <1>1, <1>3 DEF After
<1>5. a \in 224 .. 239
  BY <1>2, <1>4, SMT
<1>6. a = 224 => b \in 160 .. 191
  BY <1>2, <1>4, SMT
<1>7. a = 237 => b \in 128 .. 159
  BY <1>2, <1>4, SMT
<1> QED
  BY <1>5, <1>6, <1>7

LEMMA BytesOfFour ==
  ASSUME NEW cp \in Nat, Character(cp), 65536 <= cp,
         NEW a, a = 240 + (cp \div 262144), NEW b, b = After(cp \div 4096)
  PROVE  /\ a \in 240 .. 244
         /\ a = 240 => b \in 144 .. 191
         /\ a = 244 => b \in 128 .. 143
<1>1. PICK c \in Nat : c = cp \div 4096
  BY SMT
<1>2. 16 <= c /\ c <= 271
  BY <1>1, SMT DEF Character
<1>3. cp \div 262144 = c \div 64
  BY <1>1, SMT
<1>4. a = 240 + (c \div 64) /\ b = 128 + (c % 64)
  BY <1>1, <1>3 DEF After
<1>5. a \in 240 .. 244
  BY <1>2, <1>4, SMT
<1>6. a = 240 => b \in 144 .. 191
  BY <1>2, <1>4, SMT
<1>7. a = 244 => b \in 128 .. 143
  BY <1>2, <1>4, SMT
<1> QED
  BY <1>5, <1>6, <1>7

LEMMA GoodTwo ==
  ASSUME NEW text, Good(text, 0), NEW a \in 194 .. 223, NEW b \in 128 .. 191
  PROVE  Good(text \o <<a, b>>, 0)
<1>1. a \in Byte /\ b \in Byte
  BY DEF Byte
<1>2. After1(0, a) = 2
  BY <1>1, FirstBytes
<1>3. Good(Append(text, a), 2)
  BY <1>1, <1>2, GoodByte
<1>4. Good(Append(Append(text, a), b), 0)
  BY <1>3, GoodLast
<1>5. text \in Seq(Byte)
  BY DEF Good
<1>6. text \o <<a, b>> = Append(Append(text, a), b)
  BY <1>1, <1>5, ConcatTwo
<1> QED
  BY <1>4, <1>6, Zenon

LEMMA GoodThree ==
  ASSUME NEW text, Good(text, 0), NEW a \in 224 .. 239, NEW b \in 128 .. 191,
         a = 224 => b \in 160 .. 191, a = 237 => b \in 128 .. 159,
         NEW c \in 128 .. 191
  PROVE  Good(text \o <<a, b, c>>, 0)
<1>1. a \in Byte /\ b \in Byte /\ c \in Byte
  BY DEF Byte
<1>2. PICK state : state = After1(0, a)
  OBVIOUS
<1>3. state \in {3, 4, 5} /\ (state = 4 => a = 224) /\ (state = 5 => a = 237)
  <2>1. CASE a = 224
    BY <1>1, <1>2, <2>1, FirstBytes
  <2>2. CASE a = 237
    BY <1>1, <1>2, <2>2, FirstBytes
  <2>3. CASE a # 224 /\ a # 237
    <3>1. a \in (225 .. 239) \ {237}
      BY <2>3
    <3> QED
      BY <1>1, <1>2, <3>1, FirstBytes
  <2> QED
    BY <2>1, <2>2, <2>3
<1>4. After1(state, b) = 2
  <2>1. CASE state = 3
    BY <1>1, <2>1, StateFollows DEF Follows
  <2>2. CASE state = 4
    BY <1>1, <1>3, <2>2, StateFollows DEF Follows
  <2>3. CASE state = 5
    BY <1>1, <1>3, <2>3, StateFollows DEF Follows
  <2> QED
    BY <1>3, <2>1, <2>2, <2>3
<1>5. Good(Append(text, a), state)
  BY <1>1, <1>2, <1>3, GoodByte
<1>6. Good(Append(Append(text, a), b), 2)
  BY <1>1, <1>4, <1>5, GoodByte
<1>7. Good(Append(Append(Append(text, a), b), c), 0)
  BY <1>6, GoodLast
<1>8. text \in Seq(Byte)
  BY DEF Good
<1>9. text \o <<a, b, c>> = Append(Append(Append(text, a), b), c)
  BY <1>1, <1>8, ConcatThree
<1> QED
  BY <1>7, <1>9, Zenon

LEMMA GoodFour ==
  ASSUME NEW text, Good(text, 0), NEW a \in 240 .. 244, NEW b \in 128 .. 191,
         a = 240 => b \in 144 .. 191, a = 244 => b \in 128 .. 143,
         NEW c \in 128 .. 191, NEW d \in 128 .. 191
  PROVE  Good(text \o <<a, b, c, d>>, 0)
<1>1. a \in Byte /\ b \in Byte /\ c \in Byte /\ d \in Byte
  BY DEF Byte
<1>2. PICK state : state = After1(0, a)
  OBVIOUS
<1>3. state \in {6, 7, 8} /\ (state = 6 => a = 240) /\ (state = 8 => a = 244)
  <2>1. CASE a = 240
    BY <1>1, <1>2, <2>1, FirstBytes
  <2>2. CASE a = 244
    BY <1>1, <1>2, <2>2, FirstBytes
  <2>3. CASE a # 240 /\ a # 244
    <3>1. a \in 241 .. 243
      BY <2>3
    <3> QED
      BY <1>1, <1>2, <3>1, FirstBytes
  <2> QED
    BY <2>1, <2>2, <2>3
<1>4. After1(state, b) = 3
  <2>1. CASE state = 6
    BY <1>1, <1>3, <2>1, StateFollows DEF Follows
  <2>2. CASE state = 7
    BY <1>1, <2>2, StateFollows DEF Follows
  <2>3. CASE state = 8
    BY <1>1, <1>3, <2>3, StateFollows DEF Follows
  <2> QED
    BY <1>3, <2>1, <2>2, <2>3
<1>5. Good(Append(text, a), state)
  BY <1>1, <1>2, <1>3, GoodByte
<1>6. Good(Append(Append(text, a), b), 3)
  BY <1>1, <1>4, <1>5, GoodByte
<1>7. Good(Append(Append(Append(Append(text, a), b), c), d), 0)
  BY <1>6, GoodLastTwo
<1>8. text \in Seq(Byte)
  BY DEF Good
<1>9. text \o <<a, b, c, d>> = Append(Append(Append(Append(text, a), b), c), d)
  BY <1>1, <1>8, ConcatFour
<1> QED
  BY <1>7, <1>9, Zenon

(* What get_codepoint adds. *)
LEMMA GoodEncoded ==
  ASSUME NEW text, Good(text, 0), NEW cp \in Characters
  PROVE  Good(text \o Encoded(cp), 0)
<1>1. cp \in Nat /\ Character(cp)
  BY DEF Characters
<1>2. PICK x : x = cp \div 64
  OBVIOUS
<1>3. PICK y : y = cp \div 4096
  OBVIOUS
<1>4. x \in Nat /\ y \in Nat
  BY <1>1, <1>2, <1>3, SMT
<1>5. After(cp) \in 128 .. 191 /\ After(x) \in 128 .. 191 /\ After(y) \in 128 .. 191
  BY <1>1, <1>4, AfterIs
<1>6. CASE cp <= 127
  <2>1. Encoded(cp) = <<cp>>
    BY <1>1, <1>6, SMT DEF Encoded, EncodedFrom
  <2>2. cp \in 0 .. 127 /\ cp \in Byte
    BY <1>1, <1>6, SMT DEF Byte
  <2>3. After1(0, cp) = 0
    BY <2>2, FirstOfOne
  <2>4. Good(Append(text, cp), 0)
    BY <2>2, <2>3, GoodByte
  <2>5. text \in Seq(Byte)
    BY DEF Good
  <2>6. text \o <<cp>> = Append(text, cp)
    BY <2>2, <2>5, ConcatOne
  <2> QED
    BY <2>1, <2>4, <2>6, Zenon
<1>7. CASE 128 <= cp /\ cp <= 2047
  <2>1. PICK a : a = 192 + x
    OBVIOUS
  <2>2. Encoded(cp) = <<a, After(cp)>>
    BY <1>1, <1>2, <1>7, <2>1, EncodedInTwo, SMT
  <2>3. a \in 194 .. 223
    BY <1>1, <1>2, <1>7, <2>1, BytesOfTwo, SMT
  <2>4. Good(text \o <<a, After(cp)>>, 0)
    BY <1>5, <2>3, GoodTwo, Zenon
  <2> QED
    BY <2>2, <2>4, SMT
<1>8. CASE 2048 <= cp /\ cp <= 65535
  <2>1. PICK a : a = 224 + y
    OBVIOUS
  <2>2. PICK b : b = After(x)
    OBVIOUS
  <2>3. Encoded(cp) = <<a, b, After(cp)>>
    BY <1>1, <1>2, <1>3, <1>8, <2>1, <2>2, EncodedInThree, SMT
  <2>4. a \in 224 .. 239 /\ (a = 224 => b \in 160 .. 191) /\ (a = 237 => b \in 128 .. 159)
    BY <1>1, <1>2, <1>3, <1>8, <2>1, <2>2, BytesOfThree, SMT
  <2>5. b \in 128 .. 191
    BY <1>5, <2>2
  <2>6. Good(text \o <<a, b, After(cp)>>, 0)
    BY <1>5, <2>4, <2>5, GoodThree, Zenon
  <2> QED
    BY <2>3, <2>6, SMT
<1>9. CASE 65536 <= cp
  <2>1. PICK a : a = 240 + (cp \div 262144)
    OBVIOUS
  <2>2. PICK b : b = After(y)
    OBVIOUS
  <2>3. Encoded(cp) = <<a, b, After(x), After(cp)>>
    BY <1>1, <1>2, <1>3, <1>9, <2>1, <2>2, EncodedInFour, SMT
  <2>4. a \in 240 .. 244 /\ (a = 240 => b \in 144 .. 191) /\ (a = 244 => b \in 128 .. 143)
    BY <1>1, <1>3, <1>9, <2>1, <2>2, BytesOfFour, SMT
  <2>5. b \in 128 .. 191
    BY <1>5, <2>2
  <2>6. Good(text \o <<a, b, After(x), After(cp)>>, 0)
    BY <1>5, <2>4, <2>5, GoodFour, Zenon
  <2> QED
    BY <2>3, <2>6, SMT
<1>10. cp <= 127 \/ (128 <= cp /\ cp <= 2047) \/ (2048 <= cp /\ cp <= 65535) \/ 65536 <= cp
  BY <1>1, SMT
<1> QED
  BY <1>6, <1>7, <1>8, <1>9, <1>10, SMT


-----------------------------------------------------------------------------
(* The invariant of the scanner *)

InText(s) == \E text, state : Good(text, state) /\ s = Between(state, text)

InEscape(s) == \E text : Good(text, 0) /\ s = Reads("escape", <<>>, <<>>, 0, text)

InHex(s) ==
  \E text, digits, high :
    /\ Good(text, 0)
    /\ digits \in Seq(0 .. 15) /\ Len(digits) < 4
    /\ high \in HighSurrogates \cup {0}
    /\ s = Reads("hex", <<>>, digits, high, text)

InPair(s) ==
  \E text, high, goal :
    /\ Good(text, 0)
    /\ high \in HighSurrogates /\ goal \in {"second backslash", "second u"}
    /\ s = Reads(goal, <<>>, <<>>, high, text)

Ended(s) == \E text : Good(text, 0) /\ s = Reads("value_string", <<>>, <<>>, 0, text)

StringInv(s) ==
  \/ \E goal \in Outside : s = Before(goal)
  \/ InText(s)
  \/ InEscape(s)
  \/ InHex(s)
  \/ InPair(s)
  \/ Ended(s)
  \/ Elsewhere(s)

LEMMA GoodState ==
  ASSUME NEW text, NEW state, Good(text, state)
  PROVE  text \in Seq(Byte) /\ state \in {0} \cup Inside
<1>1. PICK pending : DumpsTo(Dump(text), text, pending)
  BY DEF Good
<1>2. Dump(text) \in DumpState
  BY <1>1, Zenon DEF DumpsTo
<1>3. Dump(text).state \in {0} \cup Inside
  BY <1>2 DEF DumpState
<1> QED
  BY <1>3 DEF Good

LEMMA ErrorKeeps ==
  ASSUME NEW s, s.goal = "parse_error"
  PROVE  StringInv(s)
BY Zenon DEF StringInv, Elsewhere, OtherTokens

LEMMA TextKeeps ==
  ASSUME NEW s, InText(s), NEW byte \in Read
  PROVE  StringInv(Scan(s, byte))
<1>1. PICK text, state : Good(text, state) /\ s = Between(state, text)
  BY DEF InText
<1>2. text \in Seq(Byte) /\ state \in {0} \cup Inside
  BY <1>1, GoodState
<1>3. ASSUME byte \in Byte, After1(state, byte) # 1,
             Scan(s, byte) = Between(After1(state, byte), Append(text, byte))
      PROVE  StringInv(Scan(s, byte))
  <2>1. Good(Append(text, byte), After1(state, byte))
    BY <1>1, <1>3, GoodAppend
  <2> QED
    BY <1>3, <2>1, Zenon DEF StringInv, InText
<1>4. CASE state = 0
  <2>1. s = Between(0, text)
    BY <1>1, <1>4
  <2>2. CASE Scan(s, byte) = Reads("value_string", <<>>, <<>>, 0, text)
    BY <1>1, <1>4, <2>2, Zenon DEF StringInv, Ended
  <2>3. CASE Scan(s, byte) = Reads("escape", <<>>, <<>>, 0, text)
    BY <1>1, <1>4, <2>3, Zenon DEF StringInv, InEscape
  <2>4. CASE /\ byte \in Byte /\ After1(0, byte) # 1
             /\ Scan(s, byte) = Between(After1(0, byte), Append(text, byte))
    BY <1>3, <1>4, <2>4
  <2>5. CASE Scan(s, byte).goal = "parse_error"
    BY <2>5, ErrorKeeps
  <2> QED
    BY <1>2, <2>1, <2>2, <2>3, <2>4, <2>5, CharIs, Zenon
<1>5. CASE state \in Inside
  <2>1. CASE Scan(s, byte).goal = "parse_error"
    BY <2>1, ErrorKeeps
  <2> QED
    BY <1>1, <1>2, <1>3, <1>5, <2>1, RangeIs, Zenon
<1> QED
  BY <1>2, <1>4, <1>5

LEMMA EscapeKeeps ==
  ASSUME NEW s, InEscape(s), NEW byte \in Read
  PROVE  StringInv(Scan(s, byte))
<1>1. PICK text : Good(text, 0) /\ s = Reads("escape", <<>>, <<>>, 0, text)
  BY DEF InEscape
<1>2. text \in Seq(Byte)
  BY <1>1, GoodState
<1>3. CASE Scan(s, byte) = Reads("hex", <<>>, <<>>, 0, text)
  <2>1. <<>> \in Seq(0 .. 15) /\ Len(<<>>) < 4 /\ 0 \in HighSurrogates \cup {0}
    OBVIOUS
  <2> QED
    BY <1>1, <1>3, <2>1, Zenon DEF StringInv, InHex
<1>4. CASE \E e \in Escapes : e[1] = byte /\ Scan(s, byte) = Between(0, Append(text, e[2]))
  <2>1. PICK e \in Escapes : Scan(s, byte) = Between(0, Append(text, e[2]))
    BY <1>4
  <2>2. e[2] \in 0 .. 127
    BY EscapeTable
  <2>3. PICK cp \in 0 .. 127 : cp = e[2]
    BY <2>2
  <2>4. cp \in Byte
    BY DEF Byte
  <2>5. After1(0, cp) = 0
    BY FirstOfOne
  <2>6. Good(Append(text, cp), 0)
    BY <1>1, <2>4, <2>5, GoodByte
  <2> QED
    BY <2>1, <2>3, <2>6, Zenon DEF StringInv, InText
<1>5. CASE Scan(s, byte).goal = "parse_error"
  BY <1>5, ErrorKeeps
<1> QED
  BY <1>1, <1>2, <1>3, <1>4, <1>5, EscapeIs, Zenon

LEMMA HexKeeps ==
  ASSUME NEW s, InHex(s), NEW byte \in Read
  PROVE  StringInv(Scan(s, byte))
<1>1. PICK text, digits, high :
        /\ Good(text, 0)
        /\ digits \in Seq(0 .. 15) /\ Len(digits) < 4
        /\ high \in HighSurrogates \cup {0}
        /\ s = Reads("hex", <<>>, digits, high, text)
  BY DEF InHex
<1>2. PICK value : value = HexValue(byte)
  OBVIOUS
<1>3. CASE Scan(s, byte).goal = "parse_error"
  BY <1>3, ErrorKeeps
<1>4. CASE /\ value \in 0 .. 15 /\ Len(digits) < 3
           /\ Scan(s, byte) = Reads("hex", <<>>, Append(digits, value), high, text)
  <2>1. Append(digits, value) \in Seq(0 .. 15) /\ Len(Append(digits, value)) < 4
    BY <1>1, <1>4
  <2> QED
    BY <1>1, <1>4, <2>1, Zenon DEF StringInv, InHex
<1>5. CASE /\ CodePoint(digits, value) \in Nat
           /\ Short(CodePoint(digits, value))
           /\ Scan(s, byte) = Unicode(Reads("hex", <<>>, <<>>, high, text),
                                      CodePoint(digits, value))
  <2>1. PICK cp \in Nat : cp = CodePoint(digits, value)
    BY <1>5
  <2>2. Short(cp) /\ Scan(s, byte) = Unicode(Reads("hex", <<>>, <<>>, high, text), cp)
    BY <1>5, <2>1, Zenon
  <2>3. \/ Scan(s, byte).goal = "parse_error"
        \/ /\ cp \in HighSurrogates
           /\ Scan(s, byte) = Reads("second backslash", <<>>, <<>>, cp, text)
        \/ \E c \in Characters : Scan(s, byte) = Reached(text, c)
    <3>1. PICK r : r = Reads("hex", <<>>, <<>>, high, text)
      OBVIOUS
    <3>2. \/ Unicode(r, cp).goal = "parse_error"
          \/ /\ cp \in HighSurrogates
             /\ Unicode(r, cp) = Reads("second backslash", <<>>, <<>>, cp, text)
          \/ \E c \in Characters : Unicode(r, cp) = Reached(text, c)
      <4>1. high \in HighSurrogates \cup {0} /\ Short(cp) /\ cp \in Nat
        BY <1>1, <2>2, Zenon
      <4>2. UnicodeLeads(r, cp, high, text)
        BY <3>1, <4>1, UnicodeIs, Zenon
      <4> QED
        BY <4>2, Zenon DEF UnicodeLeads
    <3> QED
      BY <2>2, <3>1, <3>2, Zenon
  <2>4. CASE /\ cp \in HighSurrogates
             /\ Scan(s, byte) = Reads("second backslash", <<>>, <<>>, cp, text)
    BY <1>1, <2>4, Zenon DEF StringInv, InPair
  <2>5. CASE \E c \in Characters : Scan(s, byte) = Reached(text, c)
    <3>1. PICK c \in Characters : Scan(s, byte) = Reached(text, c)
      BY <2>5
    <3>2. Good(text \o Encoded(c), 0)
      BY <1>1, GoodEncoded, Zenon
    <3>3. Reached(text, c) = Between(0, text \o Encoded(c))
      BY RangesOfState, Zenon DEF Reached, Between
    <3> QED
      BY <3>1, <3>2, <3>3, Zenon DEF StringInv, InText
  <2> QED
    BY <2>3, <2>4, <2>5, ErrorKeeps, Zenon
<1> QED
  BY <1>1, <1>2, <1>3, <1>4, <1>5, HexIs, Zenon

LEMMA PairKeeps ==
  ASSUME NEW s, InPair(s), NEW byte \in Read
  PROVE  StringInv(Scan(s, byte))
<1>1. PICK text, high, goal :
        /\ Good(text, 0)
        /\ high \in HighSurrogates /\ goal \in {"second backslash", "second u"}
        /\ s = Reads(goal, <<>>, <<>>, high, text)
  BY DEF InPair
<1>2. CASE Scan(s, byte) = Reads("second u", <<>>, <<>>, high, text)
  BY <1>1, <1>2, Zenon DEF StringInv, InPair
<1>3. CASE Scan(s, byte) = Reads("hex", <<>>, <<>>, high, text)
  <2>1. <<>> \in Seq(0 .. 15) /\ Len(<<>>) < 4
    OBVIOUS
  <2>2. high \in HighSurrogates \cup {0}
    BY <1>1, Zenon
  <2> QED
    BY <1>1, <1>3, <2>1, <2>2, Zenon DEF StringInv, InHex
<1>4. CASE Scan(s, byte).goal = "parse_error"
  BY <1>4, ErrorKeeps
<1>5. goal = "second backslash" \/ goal = "second u"
  BY <1>1
<1> QED
  BY <1>1, <1>2, <1>3, <1>4, <1>5, SecondIs, Zenon


LEMMA OutsideKeeps ==
  ASSUME NEW goal \in Outside, NEW s, s = Before(goal), NEW byte \in Read
  PROVE  StringInv(Scan(s, byte))
<1>1. StringInv(Token(s, byte))
  <2>1. CASE Token(s, byte) = Before("token")
    <3>1. "token" \in Outside
      BY DEF Outside
    <3> QED
      BY <2>1, <3>1, Zenon DEF StringInv
  <2>2. CASE Token(s, byte) = Between(0, <<>>)
    BY <2>2, GoodEmpty, Zenon DEF StringInv, InText
  <2>3. CASE Elsewhere(Token(s, byte))
    BY <2>3, Zenon DEF StringInv
  <2> QED
    BY <2>1, <2>2, <2>3, TokenIs, Zenon
<1>2. s.goal = goal
  BY DEF Before, Reads
<1>3. StringInv(Refused(s))
  <2>1. Refused(s).goal = "parse_error"
    BY DEF Refused, Before, Reads
  <2> QED
    BY <2>1, ErrorKeeps, Zenon
<1>4. \A next \in Outside : StringInv([s EXCEPT !.goal = next])
  <2>1. TAKE next \in Outside
  <2>2. [s EXCEPT !.goal = next] = Before(next)
    BY DEF Before, Reads
  <2> QED
    BY <2>2, Zenon DEF StringInv
<1>5. "second of bom" \in Outside /\ "third of bom" \in Outside /\ "token" \in Outside
  BY DEF Outside
<1>6. CASE goal = "bom"
  <2>1. Scan(s, byte) = FirstByte(s, byte)
    BY <1>2, <1>6, OutsideScan, Zenon
  <2>2. \/ FirstByte(s, byte) = [s EXCEPT !.goal = "second of bom"]
        \/ FirstByte(s, byte) = Token(s, byte)
    BY Zenon DEF FirstByte
  <2> QED
    BY <1>1, <1>4, <1>5, <2>1, <2>2, Zenon
<1>7. CASE goal = "second of bom"
  <2>1. Scan(s, byte) = BomByte(s, byte, 187, "third of bom")
    BY <1>2, <1>7, OutsideScan, Zenon
  <2>2. \/ BomByte(s, byte, 187, "third of bom") = [s EXCEPT !.goal = "third of bom"]
        \/ BomByte(s, byte, 187, "third of bom") = Refused(s)
    BY Zenon DEF BomByte
  <2> QED
    BY <1>3, <1>4, <1>5, <2>1, <2>2, Zenon
<1>8. CASE goal = "third of bom"
  <2>1. Scan(s, byte) = BomByte(s, byte, 191, "token")
    BY <1>2, <1>8, OutsideScan, Zenon
  <2>2. \/ BomByte(s, byte, 191, "token") = [s EXCEPT !.goal = "token"]
        \/ BomByte(s, byte, 191, "token") = Refused(s)
    BY Zenon DEF BomByte
  <2> QED
    BY <1>3, <1>4, <1>5, <2>1, <2>2, Zenon
<1>9. CASE goal = "token"
  <2>1. Scan(s, byte) = Token(s, byte)
    BY <1>2, <1>9, OutsideScan, Zenon
  <2> QED
    BY <1>1, <2>1, Zenon
<1> QED
  BY <1>6, <1>7, <1>8, <1>9 DEF Outside

LEMMA ElsewhereKeeps ==
  ASSUME NEW s, Elsewhere(s), s.goal \notin TokenType, NEW byte
  PROVE  Elsewhere(Scan(s, byte))
<1>1. s.goal \notin OtherTokens
  BY Zenon DEF OtherTokens, TokenType
<1>2. CASE s.goal \in NumberGoals /\ "goal" \in DOMAIN s
  <2>1. Scan(s, byte) = NumberByte(s, byte)
    BY <1>2, NumberScan
  <2>2. /\ NumberByte(s, byte).goal \in NumberGoals \cup NumberTypes \cup {"parse_error"}
        /\ "goal" \in DOMAIN NumberByte(s, byte)
    BY <1>2, NumberByteIs
  <2> QED
    BY <2>1, <2>2, Zenon DEF Elsewhere, OtherTokens
<1>3. CASE /\ s.goal = "literal" /\ s.return_type \in DOMAIN Literals
           /\ "goal" \in DOMAIN s /\ "return_type" \in DOMAIN s
  <2>1. Scan(s, byte) = scan_literal(s, byte)
    BY <1>3, OutsideScan
  <2>2. CASE byte # Head(s.rest)
    <3>1. scan_literal(s, byte) = Refused(s)
      BY <2>2, Zenon DEF scan_literal
    <3>2. Refused(s).goal = "parse_error"
      BY <1>3 DEF Refused
    <3> QED
      BY <2>1, <3>1, <3>2, Zenon DEF Elsewhere, OtherTokens
  <2>3. CASE byte = Head(s.rest)
    <3>1. PICK rest : rest = Tail(s.rest)
      OBVIOUS
    <3>2. PICK last : last = (Len(s.rest) = 1)
      OBVIOUS
    <3>3. PICK goal : goal = IF last THEN s.return_type ELSE s.goal
      OBVIOUS
    <3>4. PICK t : t = [s EXCEPT !.rest = rest, !.goal = goal]
      OBVIOUS
    <3>5. scan_literal(s, byte) = t
      BY <2>3, <3>1, <3>2, <3>3, <3>4, Zenon DEF scan_literal
    <3>6. /\ t.goal = goal /\ t.return_type = s.return_type
          /\ "goal" \in DOMAIN t /\ "return_type" \in DOMAIN t
      BY <1>3, <3>4
    <3>7. goal = s.return_type \/ goal = s.goal
      BY <3>3
    <3> QED
      BY <1>3, <2>1, <3>5, <3>6, <3>7, Zenon DEF Elsewhere, OtherTokens
  <2> QED
    BY <2>2, <2>3
<1> QED
  BY <1>1, <1>2, <1>3, Zenon DEF Elsewhere

(* The strings of the token types are no others. *)
LEMMA EndedGoal ==
  ASSUME NEW s, s.goal = "value_string", StringInv(s)
  PROVE  Ended(s)
<1>1. ASSUME NEW goal \in Outside, s = Before(goal) PROVE FALSE
  <2>1. s.goal = goal
    BY <1>1 DEF Before, Reads
  <2> QED
    BY <2>1 DEF Outside
<1>2. ASSUME InText(s) PROVE FALSE
  <2>1. PICK text, state : s = Between(state, text)
    BY <1>2 DEF InText
  <2>2. s.goal = "char" \/ s.goal = "range"
    BY <2>1 DEF Between, Reads
  <2> QED
    BY <2>2
<1>3. ASSUME InEscape(s) PROVE FALSE
  <2>1. PICK text : s = Reads("escape", <<>>, <<>>, 0, text)
    BY <1>3 DEF InEscape
  <2>2. s.goal = "escape"
    BY <2>1 DEF Reads
  <2> QED
    BY <2>2
<1>4. ASSUME InHex(s) PROVE FALSE
  <2>1. PICK text, digits, high : s = Reads("hex", <<>>, digits, high, text)
    BY <1>4 DEF InHex
  <2>2. s.goal = "hex"
    BY <2>1 DEF Reads
  <2> QED
    BY <2>2
<1>5. ASSUME InPair(s) PROVE FALSE
  <2>1. PICK text, high, goal :
          goal \in {"second backslash", "second u"} /\ s = Reads(goal, <<>>, <<>>, high, text)
    BY <1>5 DEF InPair
  <2>2. s.goal = goal
    BY <2>1 DEF Reads
  <2> QED
    BY <2>1, <2>2
<1>6. ASSUME Elsewhere(s) PROVE FALSE
  BY <1>6 DEF Elsewhere, OtherTokens, NumberGoals, NumberTypes, Structural, Literals
<1> QED
  BY <1>1, <1>2, <1>3, <1>4, <1>5, <1>6, Zenon DEF StringInv

LEMMA ScanKeeps ==
  ASSUME NEW s, StringInv(s), s.goal \notin TokenType, NEW byte \in Read
  PROVE  StringInv(Scan(s, byte))
<1>1. CASE \E goal \in Outside : s = Before(goal)
  BY <1>1, OutsideKeeps, Zenon
<1>2. CASE Ended(s)
  <2>1. PICK text : s = Reads("value_string", <<>>, <<>>, 0, text)
    BY <1>2 DEF Ended
  <2>2. s.goal = "value_string"
    BY <2>1 DEF Reads
  <2> QED
    BY <2>2, Zenon DEF TokenType
<1>3. CASE Elsewhere(s)
  BY <1>3, ElsewhereKeeps, Zenon DEF StringInv
<1> QED
  BY <1>1, <1>2, <1>3, TextKeeps, EscapeKeeps, HexKeeps, PairKeeps, Zenon DEF StringInv


-----------------------------------------------------------------------------
(* What holds of a string that the scanner has accepted *)

LEMMA GoodIsDumpable ==
  ASSUME NEW text, Good(text, 0)
  PROVE  /\ Dump(text).state = 0 /\ OneLine(Dump(text).output) /\ Dump(text).most <= BufferSize
         /\ Dump(text).points \in Seq(Characters) /\ text = Spelling(Dump(text).points)
         /\ Dump(text).output \in Seq(Byte)
<1>1. PICK d : d = Dump(text)
  OBVIOUS
<1>2. d.state = 0
  BY <1>1 DEF Good
<1>3. PICK pending : DumpsTo(d, text, pending)
  BY <1>1 DEF Good
<1>4. /\ d \in DumpState /\ OneLine(d.output) /\ d.most <= BufferSize
      /\ pending \in Seq(Byte) /\ Spelling(d.points) \in Seq(Byte)
      /\ text = Spelling(d.points) \o pending /\ Pending(d.state, d.codepoint, pending)
  BY <1>3, Zenon DEF DumpsTo
<1>5. d.points \in Seq(Characters) /\ d.output \in Seq(Byte)
  BY <1>4 DEF DumpState
<1>6. pending = <<>>
  BY <1>2, <1>4 DEF Pending
<1>7. PICK s \in Seq(Byte) : s = Spelling(d.points)
  BY <1>4
<1>8. s \o <<>> = s
  OBVIOUS
<1>9. text = Spelling(d.points)
  BY <1>4, <1>6, <1>7, <1>8, Zenon
<1> QED
  BY <1>1, <1>2, <1>4, <1>5, <1>9, Zenon

LEMMA GoodIsReadBack ==
  ASSUME NEW text, Good(text, 0)
  PROVE  Scans(<<Quote>> \o Dump(text).output \o <<Quote>>)
           = Reads("value_string", <<>>, <<>>, 0, text)
<1>1. Quote \in Byte
  BY DEF Quote, Byte
<1>2. PICK q \in Seq(Byte) : q = Written(text)
  <2>1. <<Quote>> \in Seq(Byte)
    BY <1>1, Sequences
  <2>2. Dump(text).output \in Seq(Byte)
    BY GoodIsDumpable
  <2>3. <<Quote>> \o Dump(text).output \in Seq(Byte)
    BY <2>1, <2>2, ConcatProperties
  <2> QED
    BY <2>3, Zenon DEF Written
<1>3. q \o <<Quote>> = Append(q, Quote)
  BY <1>1, ConcatOne
<1>4. Scans(Append(q, Quote)) = Scan(Between(0, text), Quote)
  <2>1. Scans(q) = Between(0, text)
    BY <1>2 DEF Good
  <2> QED
    BY <1>1, <2>1, ScansByte, Zenon
<1>5. Scan(Between(0, text), Quote) = Reads("value_string", <<>>, <<>>, 0, text)
  <2>1. text \in Seq(Byte) /\ Quote \in Read
    BY <1>1 DEF Good, Read
  <2>2. After1(0, Quote) = 0 /\ ~(Quote < 32) /\ Quote # Backslash
    BY FirstOfOne DEF Quote, Backslash
  <2>3. After1(0, Quote) # 1
    BY <2>2
  <2>4. Quote \in {Quote, Backslash}
    OBVIOUS
  <2> QED
    BY <1>1, <2>1, <2>2, <2>3, <2>4, CharIs, Zenon
<1> QED
  BY <1>2, <1>3, <1>4, <1>5, Zenon DEF Written

(* What scan() accepts as a string is Good: the bytes are those of UTF-8    *)
(* for decode() as well, at every byte of it.                               *)
LEMMA ParsedIsGood ==
  ASSUME StringInv(lexer), Parsed
  PROVE  Good(Text, 0)
<1>1. PICK text : Good(text, 0) /\ lexer = Reads("value_string", <<>>, <<>>, 0, text)
  BY EndedGoal, Zenon DEF Parsed, Ended
<1>2. lexer.token_buffer = text
  BY <1>1 DEF Reads
<1> QED
  BY <1>1, <1>2, Zenon DEF Text

(* The scanner and dump_escaped agree after every byte that is read: what   *)
(* scan_string has taken, dump_escaped writes, into its buffer and on one   *)
(* line, and scan_string reads back the same, by ranges there and by an     *)
(* automaton here.                                                          *)
THEOREM StringInvariant == Spec => []StringInv(lexer)
<1>1. Init => StringInv(lexer)
  <2>1. SUFFICES ASSUME Init PROVE StringInv(lexer)
    OBVIOUS
  <2>2. lexer = Before("bom") /\ "bom" \in Outside
    BY <2>1, StartIs DEF Init, Outside
  <2> QED
    BY <2>2, Zenon DEF StringInv
<1>2. StringInv(lexer) /\ [Next]_vars => StringInv(lexer)'
  <2>1. SUFFICES ASSUME StringInv(lexer), [Next]_vars PROVE StringInv(lexer')
    BY DEF StringInv, InText, InEscape, InHex, InPair, Ended, Elsewhere
  <2>2. CASE UNCHANGED vars
    <3>1. lexer' = lexer
      BY <2>2 DEF vars
    <3> QED
      BY <2>1, <3>1
  <2>3. ASSUME NEW byte \in Inputs, get(byte)
        PROVE  StringInv(lexer')
    <3>1. byte \in Read
      BY ConstantsAssumption DEF Inputs, Read, Byte
    <3>2. lexer.goal \notin TokenType /\ lexer' = Scan(lexer, byte)
      BY <2>3 DEF get
    <3> QED
      BY <2>1, <3>1, <3>2, ScanKeeps, Zenon
  <2> QED
    BY <2>1, <2>2, <2>3 DEF Next
<1> QED
  BY <1>1, <1>2, PTL DEF Spec

(* JsonDB::save dumps every name that the parser accepted: it never throws  *)
(* for one, never puts a newline into the file or into a message, and what  *)
(* load() or the peer reads is the name, of any length and with any bytes.  *)
THEOREM StringsStoredAsRead == Spec => []StoredAsRead
<1>1. StringInv(lexer) => StoredAsRead
  <2>1. SUFFICES ASSUME StringInv(lexer), Parsed PROVE StoredAsRead
    BY DEF StoredAsRead, ParsedIsDumpable, StaysOneLine, TextIsReadBack
  <2>2. Good(Text, 0)
    BY <2>1, ParsedIsGood
  <2>3. ParsedIsDumpable
    BY <2>2, GoodIsDumpable, Zenon DEF ParsedIsDumpable
  <2>4. StaysOneLine
    <3>1. OneLine(Dump(Text).output)
      BY <2>2, GoodIsDumpable, Zenon
    <3> QED
      BY <3>1, Zenon DEF StaysOneLine, OneLine
  <2>5. TextIsReadBack
    <3>1. PICK again : again = Scans(<<Quote>> \o Dump(Text).output \o <<Quote>>)
      OBVIOUS
    <3>2. again = Reads("value_string", <<>>, <<>>, 0, Text)
      BY <2>2, <3>1, GoodIsReadBack, Zenon
    <3>3. again.goal = "value_string" /\ again.token_buffer = Text
      BY <3>2 DEF Reads
    <3> QED
      BY <3>1, <3>3, Zenon DEF TextIsReadBack
  <2> QED
    BY <2>3, <2>4, <2>5, Zenon DEF StoredAsRead
<1> QED
  BY <1>1, StringInvariant, PTL

(* A name has one spelling once it is read: the bytes of its code points.   *)
(* Whatever escapes a client writes, JsonDB's map finds the same account.   *)
THEOREM NamesSpelledOnce == Spec => []OneSpelling
<1>1. StringInv(lexer) => OneSpelling
  <2>1. SUFFICES ASSUME StringInv(lexer), Parsed PROVE OneSpelling
    BY DEF OneSpelling
  <2>2. Good(Text, 0)
    BY <2>1, ParsedIsGood
  <2>3. PICK points : points = Dump(Text).points
    OBVIOUS
  <2>4. points \in Seq(Characters) /\ Text = Spelling(points)
    BY <2>2, <2>3, GoodIsDumpable, Zenon
  <2>5. ASSUME NEW i \in DOMAIN points
        PROVE  points[i] <= 1114111 /\ points[i] \notin Surrogates
    <3>1. points[i] \in Characters
      BY <2>4
    <3>2. PICK cp \in Nat : cp = points[i] /\ Character(cp)
      BY <3>1 DEF Characters
    <3>3. cp <= 1114111 /\ cp \notin Surrogates
      BY <3>2, SurrogateBounds, SMT DEF Character
    <3> QED
      BY <3>2, <3>3
  <2>6. Text = FlattenSeq([i \in DOMAIN points |-> Encoded(points[i])])
    BY <2>4, Zenon DEF Spelling
  <2> QED
    BY <2>3, <2>5, <2>6, SMT DEF OneSpelling
<1> QED
  BY <1>1, StringInvariant, PTL

(* dump_escaped never writes behind its string_buffer, whose size may be    *)
(* any that holds one escape, for a string of any length.                   *)
THEOREM BufferIsNeverFull == Spec => []BufferSuffices
<1>1. StringInv(lexer) => BufferSuffices
  <2>1. SUFFICES ASSUME StringInv(lexer), Parsed PROVE BufferSuffices
    BY DEF BufferSuffices
  <2>2. Good(Text, 0)
    BY <2>1, ParsedIsGood
  <2> QED
    BY <2>2, GoodIsDumpable, Zenon DEF BufferSuffices
<1> QED
  BY <1>1, StringInvariant, PTL

-----------------------------------------------------------------------------
(* The grammar of numbers, by positions *)

(* Positions a to b of the text are digits, an integer, a fraction or       *)
(* nothing, an exponent or nothing.                                         *)
DigitsAt(text, a, b) == \A k \in a .. b : text[k] \in Digit

IntAt(text, a, b) == a <= b /\ DigitsAt(text, a, b) /\ (text[a] = Ascii(0) => a = b)

FracAt(text, a, b) == a = b + 1 \/ (a < b /\ text[a] = Point /\ DigitsAt(text, a + 1, b))

ExpAt(text, a, b) ==
  \/ a = b + 1
  \/ /\ a < b /\ text[a] \in Exponent
     /\ \/ DigitsAt(text, a + 1, b)
        \/ a + 1 < b /\ text[a + 1] \in {Plus, Minus} /\ DigitsAt(text, a + 2, b)

NumberAt(text, m, i, j) ==
  /\ m \in {0, 1} /\ i \in Nat /\ j \in Nat /\ i <= j /\ j <= Len(text)
  /\ m = 1 => text[1] = Minus
  /\ IntAt(text, m + 1, i)
  /\ FracAt(text, i + 1, j)
  /\ ExpAt(text, j + 1, Len(text))

LEMMA PartIs ==
  ASSUME NEW text \in Seq(Byte), NEW a \in Nat \ {0}, NEW b \in Nat, a <= b + 1, b <= Len(text)
  PROVE  /\ SubSeq(text, a, b) \in Seq(Byte)
         /\ Len(SubSeq(text, a, b)) = b - a + 1
         /\ \A k \in 1 .. b - a + 1 : SubSeq(text, a, b)[k] = text[k + a - 1]
OBVIOUS

LEMMA DigitsIs ==
  ASSUME NEW text \in Seq(Byte), NEW a \in Nat \ {0}, NEW b \in Nat, a <= b + 1, b <= Len(text)
  PROVE  AllDigits(SubSeq(text, a, b)) <=> a <= b /\ DigitsAt(text, a, b)
<1>1. PICK p \in Seq(Byte) : p = SubSeq(text, a, b)
  BY PartIs
<1>2. Len(p) = b - a + 1 /\ \A k \in 1 .. b - a + 1 : p[k] = text[k + a - 1]
  BY <1>1, PartIs, Zenon
<1>3. p # <<>> <=> a <= b
  BY <1>2
<1>4. ASSUME \A k \in DOMAIN p : p[k] \in Digit
      PROVE  DigitsAt(text, a, b)
  <2>1. ASSUME NEW k \in a .. b PROVE text[k] \in Digit
    <3>1. PICK l \in 1 .. b - a + 1 : l = k - a + 1 /\ l + a - 1 = k
      OBVIOUS
    <3>2. l \in DOMAIN p
      BY <1>2
    <3> QED
      BY <1>2, <1>4, <3>1, <3>2
  <2> QED
    BY <2>1 DEF DigitsAt
<1>5. ASSUME DigitsAt(text, a, b)
      PROVE  \A k \in DOMAIN p : p[k] \in Digit
  <2>1. ASSUME NEW k \in DOMAIN p PROVE p[k] \in Digit
    <3>1. k \in 1 .. b - a + 1 /\ k + a - 1 \in a .. b
      BY <1>2
    <3> QED
      BY <1>2, <1>5, <3>1 DEF DigitsAt
  <2> QED
    BY <2>1
<1> QED
  BY <1>1, <1>3, <1>4, <1>5, Zenon DEF AllDigits

LEMMA IntIs ==
  ASSUME NEW text \in Seq(Byte), NEW a \in Nat \ {0}, NEW b \in Nat, a <= b + 1, b <= Len(text)
  PROVE  IsInt(SubSeq(text, a, b)) <=> IntAt(text, a, b)
<1>1. PICK p \in Seq(Byte) : p = SubSeq(text, a, b)
  BY PartIs
<1>2. Len(p) = b - a + 1 /\ (a <= b => p[1] = text[a])
  BY <1>1, PartIs
<1>3. AllDigits(p) <=> a <= b /\ DigitsAt(text, a, b)
  BY <1>1, DigitsIs, Zenon
<1> QED
  BY <1>1, <1>2, <1>3 DEF IsInt, IntAt

LEMMA FracIs ==
  ASSUME NEW text \in Seq(Byte), NEW a \in Nat \ {0}, NEW b \in Nat, a <= b + 1, b <= Len(text)
  PROVE  IsFrac(SubSeq(text, a, b)) <=> FracAt(text, a, b)
<1>1. PICK p \in Seq(Byte) : p = SubSeq(text, a, b)
  BY PartIs
<1>2. Len(p) = b - a + 1 /\ (a <= b => p[1] = text[a])
  BY <1>1, PartIs
<1>3. CASE a = b + 1
  BY <1>1, <1>2, <1>3 DEF IsFrac, FracAt
<1>4. CASE a <= b
  <2>1. p # <<>> /\ Head(p) = text[a]
    BY <1>2, <1>4
  <2>2. PICK c \in Nat \ {0} : c = a + 1 /\ c <= b + 1
    BY <1>4
  <2>3. Tail(p) = SubSeq(text, c, b)
    BY <1>1, <1>4, <2>2, HeadTailOfSubSeq
  <2>4. AllDigits(Tail(p)) <=> c <= b /\ DigitsAt(text, c, b)
    <3>1. AllDigits(SubSeq(text, c, b)) <=> c <= b /\ DigitsAt(text, c, b)
      BY <2>2, DigitsIs, Zenon
    <3> QED
      BY <2>3, <3>1, Zenon
  <2>5. IsFrac(p) <=> text[a] = Point /\ AllDigits(Tail(p))
    BY <2>1, Zenon DEF IsFrac
  <2>6. a # b + 1 /\ (c <= b <=> a < b)
    BY <1>4, <2>2
  <2> QED
    BY <1>1, <2>2, <2>4, <2>5, <2>6, Zenon DEF FracAt
<1> QED
  BY <1>3, <1>4

LEMMA ExpIs ==
  ASSUME NEW text \in Seq(Byte), NEW a \in Nat \ {0}, NEW b \in Nat, a <= b + 1, b <= Len(text)
  PROVE  IsExp(SubSeq(text, a, b)) <=> ExpAt(text, a, b)
<1>1. PICK p \in Seq(Byte) : p = SubSeq(text, a, b)
  BY PartIs
<1>2. Len(p) = b - a + 1 /\ \A k \in 1 .. b - a + 1 : p[k] = text[k + a - 1]
  BY <1>1, PartIs, Zenon
<1>3. CASE a = b + 1
  BY <1>1, <1>2, <1>3 DEF IsExp, ExpAt
<1>4. CASE a <= b
  <2>1. p # <<>> /\ Head(p) = text[a]
    BY <1>2, <1>4
  <2>2. PICK c \in Nat \ {0} : c = a + 1 /\ c <= b + 1
    BY <1>4
  <2>3. Tail(p) = SubSeq(text, c, b)
    BY <1>1, <1>4, <2>2, HeadTailOfSubSeq
  <2>4. AllDigits(Tail(p)) <=> c <= b /\ DigitsAt(text, c, b)
    <3>1. AllDigits(SubSeq(text, c, b)) <=> c <= b /\ DigitsAt(text, c, b)
      BY <2>2, DigitsIs, Zenon
    <3> QED
      BY <2>3, <3>1, Zenon
  <2>5. CASE a = b
    <3>1. Len(p) = 1 /\ ~(c <= b) /\ ~(a < b) /\ a # b + 1
      BY <1>2, <2>2, <2>5
    <3>2. ~(Len(p) > 1)
      BY <3>1
    <3>3. ~IsExp(p)
      BY <2>1, <2>4, <3>1, <3>2, Zenon DEF IsExp
    <3> QED
      BY <1>1, <3>1, <3>3, Zenon DEF ExpAt
  <2>6. CASE a < b
    <3>1. PICK l \in Nat \ {0} : l = Len(p)
      BY <1>2, <2>6
    <3>2. PICK d \in Nat \ {0} : d = a + 2
      OBVIOUS
    <3>3. l > 1 /\ p[2] = text[c] /\ 3 <= l + 1 /\ l <= Len(p)
      BY <1>2, <2>2, <2>6, <3>1
    <3>4. AllDigits(SubSeq(p, 3, l)) <=> 3 <= l /\ DigitsAt(p, 3, l)
      BY <3>3, DigitsIs
    <3>5. DigitsAt(p, 3, l) <=> DigitsAt(text, d, b)
      <4>1. ASSUME DigitsAt(p, 3, l), NEW k \in d .. b PROVE text[k] \in Digit
        <5>1. PICK n \in 3 .. l : n = k - a + 1 /\ n + a - 1 = k /\ n \in 1 .. b - a + 1
          BY <1>2, <3>1, <3>2
        <5> QED
          BY <1>2, <4>1, <5>1 DEF DigitsAt
      <4>2. ASSUME DigitsAt(text, d, b), NEW n \in 3 .. l PROVE p[n] \in Digit
        <5>1. n \in 1 .. b - a + 1 /\ n + a - 1 \in d .. b
          BY <1>2, <3>1, <3>2
        <5> QED
          BY <1>2, <4>2, <5>1 DEF DigitsAt
      <4> QED
        BY <4>1, <4>2 DEF DigitsAt
    <3>6. (3 <= l <=> c < b) /\ a # b + 1 /\ c <= b
      BY <1>2, <2>2, <2>6, <3>1
    <3> HIDE DEF DigitsAt
    <3>7. IsExp(p) <=> /\ text[a] \in Exponent
                       /\ \/ DigitsAt(text, c, b)
                          \/ /\ text[c] \in {Plus, Minus}
                             /\ c < b /\ DigitsAt(text, d, b)
      <4>1. Len(p) > 1
        BY <3>1, <3>3
      <4>2. AllDigits(SubSeq(p, 3, Len(p))) <=> c < b /\ DigitsAt(text, d, b)
        BY <3>1, <3>4, <3>5, <3>6, Zenon
      <4> QED
        BY <2>1, <2>4, <3>3, <3>6, <4>1, <4>2, Zenon DEF IsExp
    <3>8. ExpAt(text, a, b) <=> /\ text[a] \in Exponent
                                /\ \/ DigitsAt(text, c, b)
                                   \/ /\ text[c] \in {Plus, Minus}
                                      /\ c < b /\ DigitsAt(text, d, b)
      BY <2>2, <2>6, <3>2, <3>6, Zenon DEF ExpAt
    <3> QED
      BY <1>1, <3>7, <3>8, Zenon
  <2> QED
    BY <1>4, <2>5, <2>6
<1> QED
  BY <1>3, <1>4

LEMMA NumberIs ==
  ASSUME NEW text \in Seq(Byte)
  PROVE  IsNumber(text) <=> \E m, i, j : NumberAt(text, m, i, j)
<1>1. PICK n \in Nat : n = Len(text)
  OBVIOUS
<1>2. ASSUME NEW m \in {0, 1}, NEW i \in 0 .. n, NEW j \in 0 .. n, m <= i, i <= j
      PROVE  /\ IsInt(SubSeq(text, m + 1, i)) <=> IntAt(text, m + 1, i)
             /\ IsFrac(SubSeq(text, i + 1, j)) <=> FracAt(text, i + 1, j)
             /\ IsExp(SubSeq(text, j + 1, n)) <=> ExpAt(text, j + 1, n)
  <2>1. IsInt(SubSeq(text, m + 1, i)) <=> IntAt(text, m + 1, i)
    BY <1>1, <1>2, IntIs
  <2>2. IsFrac(SubSeq(text, i + 1, j)) <=> FracAt(text, i + 1, j)
    BY <1>1, <1>2, FracIs
  <2>3. IsExp(SubSeq(text, j + 1, n)) <=> ExpAt(text, j + 1, n)
    BY <1>1, <1>2, ExpIs
  <2> QED
    BY <2>1, <2>2, <2>3
<1>3. ASSUME IsNumber(text)
      PROVE  \E m, i, j : NumberAt(text, m, i, j)
  <2>1. PICK m \in {0, 1}, i \in 0 .. n, j \in 0 .. n :
          /\ m <= i /\ i <= j
          /\ m = 1 => text[1] = Minus
          /\ IsInt(SubSeq(text, m + 1, i))
          /\ IsFrac(SubSeq(text, i + 1, j))
          /\ IsExp(SubSeq(text, j + 1, n))
    BY <1>1, <1>3, Zenon DEF IsNumber
  <2>2. /\ IntAt(text, m + 1, i) /\ FracAt(text, i + 1, j) /\ ExpAt(text, j + 1, Len(text))
    BY <1>1, <1>2, <2>1, Zenon
  <2>3. i \in Nat /\ j \in Nat /\ j <= Len(text)
    BY <1>1
  <2> QED
    BY <2>1, <2>2, <2>3, Zenon DEF NumberAt
<1>4. ASSUME NEW m, NEW i, NEW j, NumberAt(text, m, i, j)
      PROVE  IsNumber(text)
  <2>1. /\ m \in {0, 1} /\ i \in Nat /\ j \in Nat /\ i <= j /\ j <= Len(text)
        /\ m = 1 => text[1] = Minus
        /\ IntAt(text, m + 1, i) /\ FracAt(text, i + 1, j) /\ ExpAt(text, j + 1, n)
    BY <1>1, <1>4, Zenon DEF NumberAt
  <2>2. m + 1 <= i
    BY <2>1, Zenon DEF IntAt
  <2>3. i \in 0 .. n /\ j \in 0 .. n /\ m <= i
    BY <1>1, <2>1, <2>2
  <2>4. /\ IsInt(SubSeq(text, m + 1, i)) /\ IsFrac(SubSeq(text, i + 1, j))
        /\ IsExp(SubSeq(text, j + 1, n))
    BY <1>2, <2>1, <2>3, Zenon
  <2> QED
    BY <1>1, <2>1, <2>3, <2>4, Zenon DEF IsNumber
<1> QED
  BY <1>3, <1>4, Zenon

-----------------------------------------------------------------------------
(* The labels of scan_number, along a number *)

(* The label at which scan_number has read k bytes of a number whose minus, *)
(* integer and fraction end at m, i and j.                                  *)
LabelAt(text, m, i, j, k) ==
  IF k = 0 THEN "init"
  ELSE IF k <= m THEN "minus"
  ELSE IF k <= i THEN IF text[m + 1] = Ascii(0) THEN "zero" ELSE "any1"
  ELSE IF k <= j THEN IF k = i + 1 THEN "decimal1" ELSE "decimal2"
  ELSE IF k = j + 1 THEN "exponent"
  ELSE IF k = j + 2 /\ text[k] \in {Plus, Minus} THEN "sign"
  ELSE "any2"

LEMMA GotoTaken ==
  ASSUME NEW byte
  PROVE  /\ Goto("init", Minus) = "minus"
         /\ \A from \in {"init", "minus"} : Goto(from, Ascii(0)) = "zero"
         /\ \A from \in {"init", "minus"} : byte \in Digit /\ byte # Ascii(0) => Goto(from, byte) = "any1"
         /\ byte \in Digit => Goto("any1", byte) = "any1"
         /\ \A from \in {"zero", "any1"} : Goto(from, Point) = "decimal1"
         /\ \A from \in {"decimal1", "decimal2"} : byte \in Digit => Goto(from, byte) = "decimal2"
         /\ \A from \in {"zero", "any1", "decimal2"} : byte \in Exponent => Goto(from, byte) = "exponent"
         /\ byte \in {Plus, Minus} => Goto("exponent", byte) = "sign"
         /\ \A from \in {"exponent", "sign", "any2"} : byte \in Digit => Goto(from, byte) = "any2"
<1>1. Goto("init", Minus) = "minus"
  BY DEF Goto, Digit, Minus, Plus, Ascii, Point, Exponent
<1>2. \A from \in {"init", "minus"} : Goto(from, Ascii(0)) = "zero"
  BY DEF Goto, Digit, Minus, Plus, Ascii, Point, Exponent
<1>3. \A from \in {"init", "minus"} : byte \in Digit /\ byte # Ascii(0) => Goto(from, byte) = "any1"
  BY DEF Goto, Digit, Minus, Plus, Ascii, Point, Exponent
<1>4. byte \in Digit => Goto("any1", byte) = "any1"
  BY DEF Goto, Digit, Minus, Plus, Ascii, Point, Exponent
<1>5. \A from \in {"zero", "any1"} : Goto(from, Point) = "decimal1"
  BY DEF Goto, Digit, Minus, Plus, Ascii, Point, Exponent
<1>6. \A from \in {"decimal1", "decimal2"} : byte \in Digit => Goto(from, byte) = "decimal2"
  BY DEF Goto, Digit, Minus, Plus, Ascii, Point, Exponent
<1>7. \A from \in {"zero", "any1", "decimal2"} : byte \in Exponent => Goto(from, byte) = "exponent"
  BY DEF Goto, Digit, Minus, Plus, Ascii, Point, Exponent
<1>8. byte \in {Plus, Minus} => Goto("exponent", byte) = "sign"
  BY DEF Goto, Digit, Minus, Plus, Ascii, Point, Exponent
<1>9. \A from \in {"exponent", "sign", "any2"} : byte \in Digit => Goto(from, byte) = "any2"
  BY DEF Goto, Digit, Minus, Plus, Ascii, Point, Exponent
<1> QED
  BY <1>1, <1>2, <1>3, <1>4, <1>5, <1>6, <1>7, <1>8, <1>9

(* scan_number takes every byte of a number. *)
LEMMA LabelStep ==
  ASSUME NEW text \in Seq(Byte), NEW m, NEW i, NEW j, NumberAt(text, m, i, j),
         NEW k \in Nat, NEW l \in Nat, l = k + 1, l <= Len(text)
  PROVE  /\ Goto(LabelAt(text, m, i, j, k), text[l]) = LabelAt(text, m, i, j, l)
         /\ LabelAt(text, m, i, j, l) \in NumberGoals
<1>1. /\ m \in {0, 1} /\ i \in Nat /\ j \in Nat /\ i <= j /\ j <= Len(text)
      /\ m = 1 => text[1] = Minus
      /\ IntAt(text, m + 1, i) /\ FracAt(text, i + 1, j) /\ ExpAt(text, j + 1, Len(text))
  BY Zenon DEF NumberAt
<1>2. PICK a : a = LabelAt(text, m, i, j, k)
  OBVIOUS
<1>3. PICK b : b = LabelAt(text, m, i, j, l)
  OBVIOUS
<1>4. PICK n \in Nat : n = Len(text)
  OBVIOUS
<1> SUFFICES Goto(a, text[l]) = b /\ b \in NumberGoals
  BY <1>2, <1>3, Zenon
<1>5. m + 1 <= i /\ DigitsAt(text, m + 1, i) /\ (text[m + 1] = Ascii(0) => m + 1 = i)
  BY <1>1, Zenon DEF IntAt
<1>6. CASE l <= m
  <2>1. m = 1 /\ l = 1 /\ k = 0 /\ text[1] = Minus
    BY <1>1, <1>6
  <2>2. a = "init" /\ b = "minus"
    BY <1>2, <1>3, <2>1 DEF LabelAt
  <2> QED
    BY <2>1, <2>2, GotoTaken DEF NumberGoals
<1>7. CASE l = m + 1
  <2>1. text[l] \in Digit
    BY <1>1, <1>5, <1>7 DEF DigitsAt
  <2>2. a \in {"init", "minus"}
    BY <1>1, <1>2, <1>7 DEF LabelAt
  <2>3. b = IF text[l] = Ascii(0) THEN "zero" ELSE "any1"
    BY <1>1, <1>3, <1>5, <1>7 DEF LabelAt
  <2> QED
    BY <2>1, <2>2, <2>3, GotoTaken DEF NumberGoals
<1>8. CASE m + 1 < l /\ l <= i
  <2>1. text[l] \in Digit /\ text[m + 1] # Ascii(0)
    BY <1>1, <1>5, <1>8 DEF DigitsAt
  <2>2. a = "any1" /\ b = "any1"
    BY <1>1, <1>2, <1>3, <1>5, <1>8, <2>1 DEF LabelAt
  <2> QED
    BY <2>1, <2>2, GotoTaken DEF NumberGoals
<1>9. CASE i < l /\ l <= j
  <2>1. i + 1 < j /\ text[i + 1] = Point /\ DigitsAt(text, i + 2, j)
    <3>1. i + 1 # j + 1 /\ (i + 1) + 1 = i + 2
      BY <1>1, <1>9
    <3> QED
      BY <1>1, <3>1, Zenon DEF FracAt
  <2>2. CASE l = i + 1
    <3>1. a \in {"zero", "any1"} /\ b = "decimal1" /\ text[l] = Point
      BY <1>1, <1>2, <1>3, <1>5, <1>9, <2>1, <2>2 DEF LabelAt
    <3> QED
      BY <3>1, GotoTaken DEF NumberGoals
  <2>3. CASE l # i + 1
    <3>1. text[l] \in Digit
      BY <1>1, <1>9, <2>1, <2>3 DEF DigitsAt
    <3>2. a \in {"decimal1", "decimal2"} /\ b = "decimal2"
      BY <1>1, <1>2, <1>3, <1>5, <1>9, <2>3 DEF LabelAt
    <3> QED
      BY <3>1, <3>2, GotoTaken DEF NumberGoals
  <2> QED
    BY <2>2, <2>3
<1>10. CASE j < l
  <2>1. j + 1 < n /\ text[j + 1] \in Exponent
    BY <1>1, <1>4, <1>10 DEF ExpAt
  <2>2. \/ DigitsAt(text, j + 2, n)
        \/ j + 2 < n /\ text[j + 2] \in {Plus, Minus} /\ DigitsAt(text, j + 3, n)
    <3>1. j + 1 # n + 1 /\ (j + 1) + 1 = j + 2 /\ (j + 1) + 2 = j + 3
      BY <1>1, <2>1
    <3> QED
      BY <1>1, <1>4, <3>1, Zenon DEF ExpAt
  <2>3. CASE l = j + 1
    <3>1. text[l] \in Exponent /\ k = j
      BY <2>1, <2>3, <1>1
    <3>2. b = "exponent"
      BY <1>1, <1>3, <1>5, <2>3 DEF LabelAt
    <3>3. a \in {"zero", "any1", "decimal2"}
      <4>1. i # j => i + 1 < j
        BY <1>1 DEF FracAt
      <4> QED
        BY <1>1, <1>2, <1>5, <3>1, <4>1 DEF LabelAt
    <3> QED
      BY <3>1, <3>2, <3>3, GotoTaken DEF NumberGoals
  <2>4. CASE l = j + 2
    <3>1. a = "exponent"
      BY <1>1, <1>2, <1>5, <2>4 DEF LabelAt
    <3>2. CASE text[l] \in {Plus, Minus}
      <4>1. b = "sign"
        BY <1>1, <1>3, <1>5, <2>4, <3>2 DEF LabelAt
      <4> QED
        BY <3>1, <3>2, <4>1, GotoTaken DEF NumberGoals
    <3>3. CASE text[l] \notin {Plus, Minus}
      <4>1. text[l] \in Digit
        BY <1>1, <1>4, <2>1, <2>2, <2>4, <3>3 DEF DigitsAt
      <4>2. b = "any2"
        BY <1>1, <1>3, <1>5, <2>4, <3>3 DEF LabelAt
      <4> QED
        BY <3>1, <4>1, <4>2, GotoTaken DEF NumberGoals
    <3> QED
      BY <3>2, <3>3
  <2>5. CASE j + 2 < l
    <3>1. text[l] \in Digit
      BY <1>1, <1>4, <2>2, <2>5 DEF DigitsAt
    <3>2. a \in {"sign", "any2"} /\ b = "any2"
      BY <1>1, <1>2, <1>3, <1>5, <2>5 DEF LabelAt
    <3> QED
      BY <3>1, <3>2, GotoTaken DEF NumberGoals
  <2> QED
    BY <1>1, <1>10, <2>3, <2>4, <2>5
<1> QED
  BY <1>1, <1>6, <1>7, <1>8, <1>9, <1>10

LEMMA ZeroIsByte == Ascii(0) \in Byte /\ Ascii(0) \in Digit
BY DEF Ascii, Byte, Digit

LEMMA LabelEnd ==
  ASSUME NEW text \in Seq(Byte), NEW m, NEW i, NEW j, NumberAt(text, m, i, j)
  PROVE  LabelAt(text, m, i, j, Len(text)) \in {"zero", "any1", "decimal2", "any2"}
<1>1. /\ m \in {0, 1} /\ i \in Nat /\ j \in Nat /\ i <= j /\ j <= Len(text)
      /\ IntAt(text, m + 1, i) /\ FracAt(text, i + 1, j) /\ ExpAt(text, j + 1, Len(text))
  BY Zenon DEF NumberAt
<1>2. PICK n \in Nat : n = Len(text)
  OBVIOUS
<1>3. m + 1 <= i
  BY <1>1, Zenon DEF IntAt
<1>4. CASE j = n
  <2>1. i # j => i + 1 < j
    BY <1>1 DEF FracAt
  <2> QED
    BY <1>1, <1>2, <1>3, <1>4, <2>1 DEF LabelAt
<1>5. CASE j < n
  <2>1. j + 1 < n
    BY <1>1, <1>2, <1>5 DEF ExpAt
  <2>2. n = j + 2 => text[n] \notin {Plus, Minus}
    <3>1. n = j + 2 => text[n] \in Digit
      BY <1>1, <1>2, <1>5 DEF ExpAt, DigitsAt
    <3> QED
      BY <3>1 DEF Digit, Plus, Minus, Ascii
  <2> QED
    BY <1>1, <1>2, <1>3, <2>1, <2>2 DEF LabelAt
<1> QED
  BY <1>1, <1>2, <1>4, <1>5

(* scan_number is at this label when it has read the text. *)
Leads(path, text) ==
  /\ path[0] = "init"
  /\ \A k \in 1 .. Len(text) : path[k] = Goto(path[k - 1], text[k])

Reaches(text, label) == \E path : Leads(path, text) /\ path[Len(text)] = label

LEMMA ReachesAppend ==
  ASSUME NEW text \in Seq(Byte), NEW label, Reaches(text, label), NEW byte \in Byte
  PROVE  Reaches(Append(text, byte), Goto(label, byte))
<1>1. PICK path : Leads(path, text) /\ path[Len(text)] = label
  BY DEF Reaches
<1>2. PICK n \in Nat : n = Len(text)
  OBVIOUS
<1>3. PICK m \in Nat : m = n + 1
  OBVIOUS
<1>4. PICK longer : longer = Append(text, byte)
  OBVIOUS
<1>5. Len(longer) = m /\ longer[m] = byte /\ \A k \in 1 .. n : longer[k] = text[k]
  BY <1>2, <1>3, <1>4, Appended
<1>6. PICK end : end = Goto(label, byte)
  OBVIOUS
<1>7. PICK next : next = [k \in 0 .. m |-> IF k = m THEN end ELSE path[k]]
  OBVIOUS
<1>8. next[m] = end /\ \A k \in 0 .. n : next[k] = path[k]
  BY <1>3, <1>7
<1>9. ASSUME NEW k \in 1 .. m PROVE next[k] = Goto(next[k - 1], longer[k])
  <2>1. CASE k = m
    <3>1. next[k - 1] = label
      BY <1>1, <1>2, <1>3, <1>8, <2>1
    <3> QED
      BY <1>5, <1>6, <1>8, <2>1, <3>1, Zenon
  <2>2. CASE k # m
    <3>1. k \in 1 .. n /\ k \in 0 .. n /\ k - 1 \in 0 .. n
      BY <1>3, <2>2
    <3>2. path[k] = Goto(path[k - 1], text[k])
      BY <1>1, <1>2, <3>1 DEF Leads
    <3> QED
      BY <1>5, <1>8, <3>1, <3>2, Zenon
  <2> QED
    BY <2>1, <2>2
<1>10. next[0] = "init"
  BY <1>1, <1>8 DEF Leads
<1> QED
  BY <1>4, <1>5, <1>6, <1>8, <1>9, <1>10, Zenon DEF Reaches, Leads

(* Whatever number the text is the beginning of, the label is that of it. *)
LEMMA OneLabel ==
  ASSUME NEW text \in Seq(Byte), NEW label, Reaches(text, label),
         NEW number \in Seq(Byte), Len(text) <= Len(number),
         \A k \in 1 .. Len(text) : number[k] = text[k],
         NEW m, NEW i, NEW j, NumberAt(number, m, i, j)
  PROVE  label = LabelAt(number, m, i, j, Len(text))
<1>1. PICK path : Leads(path, text) /\ path[Len(text)] = label
  BY DEF Reaches
<1>2. PICK n \in Nat : n = Len(text)
  OBVIOUS
<1> DEFINE T == {k \in Nat : k <= n => path[k] = LabelAt(number, m, i, j, k)}
<1>3. 0 \in T
  <2>1. LabelAt(number, m, i, j, 0) = "init"
    BY Zenon DEF LabelAt
  <2> QED
    BY <1>1, <2>1 DEF Leads
<1>4. ASSUME NEW k \in Nat, k \in T
      PROVE  k + 1 \in T
  <2>1. SUFFICES ASSUME k + 1 <= n PROVE path[k + 1] = LabelAt(number, m, i, j, k + 1)
    OBVIOUS
  <2>2. PICK l \in Nat : l = k + 1
    OBVIOUS
  <2>3. l \in 1 .. n /\ l - 1 = k /\ k <= n /\ l <= Len(number)
    BY <1>2, <2>1, <2>2
  <2>4. path[l] = Goto(path[k], number[l])
    BY <1>1, <1>2, <2>3 DEF Leads
  <2>5. path[k] = LabelAt(number, m, i, j, k)
    BY <1>4, <2>3
  <2>6. Goto(LabelAt(number, m, i, j, k), number[l]) = LabelAt(number, m, i, j, l)
    BY <2>2, <2>3, LabelStep
  <2> QED
    BY <2>2, <2>4, <2>5, <2>6, Zenon
<1>5. Nat \subseteq T
  <2> HIDE DEF T
  <2> QED
    BY <1>3, <1>4, Induction
<1>6. path[n] = LabelAt(number, m, i, j, n)
  BY <1>5
<1> QED
  BY <1>1, <1>2, <1>6, Zenon

(* Where scan_number does not go on, no number does. *)
LEMMA EndsHere ==
  ASSUME NEW text \in Seq(Byte), NEW label, Reaches(text, label), NEW byte \in Byte,
         Goto(label, byte) \notin NumberGoals
  PROVE  ~Begins(Append(text, byte))
<1>1. PICK longer \in Seq(Byte) : longer = Append(text, byte)
  BY Appended
<1>2. PICK n \in Nat : n = Len(text)
  OBVIOUS
<1>3. PICK l \in Nat : l = n + 1
  OBVIOUS
<1>4. Len(longer) = l /\ longer[l] = byte /\ \A k \in 1 .. n : longer[k] = text[k]
  BY <1>1, <1>2, <1>3, Appended
<1>5. ASSUME NEW number \in Seq(Byte), l <= Len(number), IsNumber(number),
             \A k \in 1 .. l : number[k] = longer[k]
      PROVE  FALSE
  <2>1. PICK m, i, j : NumberAt(number, m, i, j)
    BY <1>5, NumberIs
  <2>2. n <= Len(number) /\ \A k \in 1 .. n : number[k] = text[k]
    BY <1>3, <1>4, <1>5
  <2>3. label = LabelAt(number, m, i, j, n)
    BY <1>2, <2>1, <2>2, OneLabel, Zenon
  <2>4. number[l] = byte
    BY <1>3, <1>4, <1>5
  <2>5. Goto(LabelAt(number, m, i, j, n), number[l]) \in NumberGoals
    BY <1>3, <1>5, <2>1, LabelStep
  <2> QED
    BY <2>3, <2>4, <2>5, Zenon
<1>6. ~IsNumber(longer)
  <2>1. l <= Len(longer)
    BY <1>3, <1>4
  <2> QED
    BY <1>5, <2>1
<1>7. ~IsNumber(Append(longer, Ascii(0)))
  <2>1. PICK number \in Seq(Byte) : number = Append(longer, Ascii(0))
    BY Appended, ZeroIsByte
  <2>2. l <= Len(number) /\ \A k \in 1 .. l : number[k] = longer[k]
    BY <1>3, <1>4, <2>1
  <2> QED
    BY <1>5, <2>1, <2>2, Zenon
<1> QED
  BY <1>1, <1>6, <1>7, Zenon DEF Begins

LEMMA GotoFrom ==
  ASSUME NEW from, NEW byte \in Byte, NEW to, to = Goto(from, byte)
  PROVE  /\ to = "minus"    => from = "init" /\ byte = Minus
         /\ to = "zero"     => from \in {"init", "minus"} /\ byte = Ascii(0)
         /\ to = "any1"     => from \in {"init", "minus", "any1"} /\ byte \in Digit
                                 /\ (byte = Ascii(0) => from = "any1")
         /\ to = "decimal1" => from \in {"zero", "any1"} /\ byte = Point
         /\ to = "decimal2" => from \in {"decimal1", "decimal2"} /\ byte \in Digit
         /\ to = "exponent" => from \in {"zero", "any1", "decimal2"} /\ byte \in Exponent
         /\ to = "sign"     => from = "exponent" /\ byte \in {Plus, Minus}
         /\ to = "any2"     => from \in {"exponent", "sign", "any2"} /\ byte \in Digit
         /\ to = "done"     => from \in {"zero", "any1", "decimal2", "any2"}
         /\ to \in NumberGoals \cup {"done", "parse_error"}
BY DEF Goto, NumberGoals

(* At this label, scan_number has read the beginning of a number: its       *)
(* minus, integer and fraction, as far as they were read, end at m, i, j.   *)
SoFar(text, label, m, i, j) ==
  LET n == Len(text)
  IN  /\ m \in {0, 1} /\ i \in Nat /\ j \in Nat /\ i <= j /\ j <= n
      /\ m = 1 => text[1] = Minus
      /\ label = "init" => n = 0 /\ m = 0
      /\ label = "minus" => n = 1 /\ m = 1
      /\ label \notin {"init", "minus"} => IntAt(text, m + 1, i) /\ FracAt(text, i + 1, j)
      /\ label \in {"zero", "any1"} => n = i /\ (label = "zero" <=> text[m + 1] = Ascii(0))
      /\ label = "decimal1" => n = i + 1 /\ j = i /\ text[n] = Point
      /\ label = "decimal2" => n = j /\ i < j
      /\ label = "exponent" => n = j + 1 /\ text[n] \in Exponent
      /\ label = "sign" => n = j + 2 /\ text[j + 1] \in Exponent /\ text[n] \in {Plus, Minus}
      /\ label = "any2" => j + 1 < n /\ ExpAt(text, j + 1, n)

LEMMA PartsKeep ==
  ASSUME NEW text, NEW longer, NEW n \in Nat, \A k \in 1 .. n : longer[k] = text[k],
         NEW a \in Nat \ {0}, NEW b \in Nat, a <= b + 1, b <= n
  PROVE  /\ DigitsAt(text, a, b) => DigitsAt(longer, a, b)
         /\ IntAt(text, a, b) => IntAt(longer, a, b)
         /\ FracAt(text, a, b) => FracAt(longer, a, b)
<1>1. ASSUME NEW c \in Nat \ {0}, DigitsAt(text, c, b)
      PROVE  DigitsAt(longer, c, b)
  <2>1. ASSUME NEW k \in c .. b PROVE longer[k] \in Digit
    <3>1. k \in 1 .. n
      OBVIOUS
    <3> QED
      BY <1>1, <3>1 DEF DigitsAt
  <2> QED
    BY <2>1 DEF DigitsAt
<1>2. a <= b => longer[a] = text[a]
  OBVIOUS
<1>3. a + 1 \in Nat \ {0} /\ (a < b => a <= b)
  OBVIOUS
<1> QED
  BY <1>1, <1>2, <1>3, Zenon DEF IntAt, FracAt

LEMMA DigitsMore ==
  ASSUME NEW longer, NEW a \in Nat, NEW l \in Nat, DigitsAt(longer, a, l - 1), longer[l] \in Digit
  PROVE  DigitsAt(longer, a, l)
<1> SUFFICES ASSUME NEW k \in a .. l PROVE longer[k] \in Digit
  BY DEF DigitsAt
<1>1. k = l \/ k \in a .. l - 1
  OBVIOUS
<1> QED
  BY <1>1 DEF DigitsAt

LEMMA SoFarStep ==
  ASSUME NEW text \in Seq(Byte), NEW label, NEW m, NEW i, NEW j, SoFar(text, label, m, i, j),
         NEW byte \in Byte, NEW to, to = Goto(label, byte), to \in NumberGoals
  PROVE  \E u, v, w : SoFar(Append(text, byte), to, u, v, w)
<1>1. PICK longer \in Seq(Byte) : longer = Append(text, byte)
  BY Appended
<1>2. PICK n \in Nat : n = Len(text)
  OBVIOUS
<1>3. PICK l \in Nat : l = n + 1
  OBVIOUS
<1>4. Len(longer) = l /\ longer[l] = byte /\ \A k \in 1 .. n : longer[k] = text[k]
  BY <1>1, <1>2, <1>3, Appended
<1>5. /\ m \in {0, 1} /\ i \in Nat /\ j \in Nat /\ i <= j /\ j <= n
      /\ m = 1 => text[1] = Minus
      /\ label = "init" => n = 0 /\ m = 0
      /\ label = "minus" => n = 1 /\ m = 1
      /\ label \notin {"init", "minus"} => IntAt(text, m + 1, i) /\ FracAt(text, i + 1, j)
      /\ label \in {"zero", "any1"} => n = i /\ (label = "zero" <=> text[m + 1] = Ascii(0))
      /\ label = "decimal1" => n = i + 1 /\ j = i /\ text[n] = Point
      /\ label = "decimal2" => n = j /\ i < j
      /\ label = "exponent" => n = j + 1 /\ text[n] \in Exponent
      /\ label = "sign" => n = j + 2 /\ text[j + 1] \in Exponent /\ text[n] \in {Plus, Minus}
      /\ label = "any2" => j + 1 < n /\ ExpAt(text, j + 1, n)
  BY <1>2, Zenon DEF SoFar
<1>6. ASSUME label \notin {"init", "minus"}
      PROVE  /\ IntAt(longer, m + 1, i) /\ FracAt(longer, i + 1, j)
             /\ m + 1 <= i /\ longer[m + 1] = text[m + 1] /\ (m = 1 => longer[1] = Minus)
  <2>1. m + 1 <= i
    BY <1>5, <1>6, Zenon DEF IntAt
  <2>2. IntAt(longer, m + 1, i)
    <3>1. m + 1 \in Nat \ {0} /\ m + 1 <= i + 1 /\ i <= n
      BY <1>5, <2>1
    <3> QED
      BY <1>4, <1>5, <1>6, <3>1, PartsKeep, Zenon
  <2>3. FracAt(longer, i + 1, j)
    <3>1. i + 1 \in Nat \ {0} /\ i + 1 <= j + 1
      BY <1>5
    <3> QED
      BY <1>4, <1>5, <1>6, <3>1, PartsKeep, Zenon
  <2>4. longer[m + 1] = text[m + 1] /\ (m = 1 => longer[1] = text[1])
    BY <1>4, <1>5, <2>1
  <2> QED
    BY <1>5, <2>1, <2>2, <2>3, <2>4
<1>7. ASSUME NEW u \in {0, 1}, NEW v \in Nat, NEW w \in Nat, v <= w, w <= l,
             u = 1 => longer[1] = Minus,
             to = "minus" => l = 1 /\ u = 1,
             to # "minus" => IntAt(longer, u + 1, v) /\ FracAt(longer, v + 1, w),
             to \in {"zero", "any1"} => l = v /\ (to = "zero" <=> longer[u + 1] = Ascii(0)),
             to = "decimal1" => l = v + 1 /\ w = v /\ longer[l] = Point,
             to = "decimal2" => l = w /\ v < w,
             to = "exponent" => l = w + 1 /\ longer[l] \in Exponent,
             to = "sign" => l = w + 2 /\ longer[w + 1] \in Exponent /\ longer[l] \in {Plus, Minus},
             to = "any2" => w + 1 < l /\ ExpAt(longer, w + 1, l)
      PROVE  \E x, y, z : SoFar(Append(text, byte), to, x, y, z)
  <2>1. to # "init"
    BY DEF NumberGoals
  <2>2. SoFar(longer, to, u, v, w)
    BY <1>4, <1>7, <2>1, Zenon DEF SoFar
  <2> QED
    BY <1>1, <2>2, Zenon
<1>8. CASE to = "minus"
  <2>1. label = "init" /\ byte = Minus
    BY <1>8, GotoFrom, Zenon
  <2>2. l = 1 /\ longer[1] = Minus
    BY <1>3, <1>4, <1>5, <2>1
  <2>3. /\ 1 \in {0, 1} /\ 0 \in Nat /\ 0 <= 0 /\ 0 <= l
        /\ to \notin {"zero", "any1"} /\ to # "decimal1" /\ to # "decimal2"
        /\ to # "exponent" /\ to # "sign" /\ to # "any2"
    BY <1>8
  <2> QED
    BY <1>7, <1>8, <2>2, <2>3, Zenon
<1>9. CASE to \in {"zero", "any1"} /\ label \in {"init", "minus"}
  <2>1. l = m + 1 /\ longer[l] \in Digit /\ (to = "zero" <=> longer[l] = Ascii(0))
    <3>1. byte \in Digit /\ (to = "zero" <=> byte = Ascii(0))
      BY <1>9, GotoFrom, ZeroIsByte
    <3> QED
      BY <1>3, <1>4, <1>5, <1>9, <3>1
  <2>2. IntAt(longer, m + 1, l) /\ FracAt(longer, l + 1, l)
    BY <1>5, <2>1 DEF IntAt, FracAt, DigitsAt
  <2>3. m = 1 => longer[1] = Minus
    BY <1>4, <1>5, <1>9
  <2> QED
    BY <1>5, <1>7, <1>9, <2>1, <2>2, <2>3
<1>10. CASE to = "any1" /\ label = "any1"
  <2>1. byte \in Digit /\ n = i /\ l = i + 1 /\ longer[m + 1] # Ascii(0)
    BY <1>3, <1>5, <1>6, <1>10, GotoFrom
  <2>2. DigitsAt(longer, m + 1, l)
    <3>1. DigitsAt(longer, m + 1, l - 1)
      <4>1. l - 1 = i
        BY <1>5, <2>1
      <4> QED
        BY <1>6, <1>10, <4>1, Zenon DEF IntAt
    <3>2. m + 1 \in Nat
      BY <1>5
    <3> QED
      BY <1>4, <1>5, <2>1, <3>1, <3>2, DigitsMore, Zenon
  <2>3. IntAt(longer, m + 1, l) /\ FracAt(longer, l + 1, l)
    BY <1>5, <1>6, <1>10, <2>1, <2>2 DEF IntAt, FracAt
  <2> QED
    BY <1>5, <1>6, <1>7, <1>10, <2>1, <2>3
<1>11. CASE to = "decimal1"
  <2>1. label \in {"zero", "any1"} /\ byte = Point
    BY <1>11, GotoFrom, Zenon
  <2>2. FracAt(longer, i + 1, i)
    BY <1>5 DEF FracAt
  <2> QED
    BY <1>3, <1>4, <1>5, <1>6, <1>7, <1>11, <2>1, <2>2
<1>12. CASE to = "decimal2"
  <2>1. label \in {"decimal1", "decimal2"} /\ byte \in Digit
    BY <1>12, GotoFrom, Zenon
  <2>2. i + 1 < l /\ longer[i + 1] = Point /\ DigitsAt(longer, i + 2, l)
    <3>1. CASE label = "decimal1"
      BY <1>3, <1>4, <1>5, <2>1, <3>1 DEF DigitsAt
    <3>2. CASE label = "decimal2"
      <4>1. i + 1 # j + 1 /\ (i + 1) + 1 = i + 2 /\ l - 1 = j
        BY <1>3, <1>5, <3>2
      <4>2. i + 1 < j /\ longer[i + 1] = Point /\ DigitsAt(longer, i + 2, l - 1)
        BY <1>6, <3>2, <4>1, Zenon DEF FracAt
      <4>3. DigitsAt(longer, i + 2, l)
        BY <1>4, <1>5, <2>1, <4>2, DigitsMore
      <4>4. i + 1 < l
        BY <1>3, <1>5, <3>2, <4>2
      <4> QED
        BY <4>2, <4>3, <4>4
    <3> QED
      BY <2>1, <3>1, <3>2
  <2>3. FracAt(longer, i + 1, l)
    <3>1. (i + 1) + 1 = i + 2
      BY <1>5
    <3> QED
      BY <2>2, <3>1, Zenon DEF FracAt
  <2> QED
    BY <1>5, <1>6, <1>7, <1>12, <2>1, <2>2, <2>3
<1>13. CASE to = "exponent"
  <2>1. label \in {"zero", "any1", "decimal2"} /\ byte \in Exponent
    BY <1>13, GotoFrom, Zenon
  <2>2. CASE label \in {"zero", "any1"}
    <3>1. FracAt(longer, i + 1, i)
      BY <1>5 DEF FracAt
    <3> QED
      BY <1>3, <1>4, <1>5, <1>6, <1>7, <1>13, <2>1, <2>2, <3>1
  <2>3. CASE label = "decimal2"
    BY <1>3, <1>4, <1>5, <1>6, <1>7, <1>13, <2>1, <2>3
  <2> QED
    BY <2>1, <2>2, <2>3
<1>14. CASE to = "sign"
  <2>1. label = "exponent" /\ byte \in {Plus, Minus}
    BY <1>14, GotoFrom, Zenon
  <2>2. l = j + 2 /\ longer[j + 1] \in Exponent
    BY <1>3, <1>4, <1>5, <2>1
  <2> QED
    BY <1>4, <1>5, <1>6, <1>7, <1>14, <2>1, <2>2
<1>15. CASE to = "any2"
  <2>1. label \in {"exponent", "sign", "any2"} /\ byte \in Digit
    BY <1>15, SMTT(30) DEF Goto
  <2>2. j + 1 < l /\ longer[j + 1] \in Exponent
    BY <1>3, <1>4, <1>5, <2>1 DEF ExpAt
  <2>3. \/ DigitsAt(longer, j + 2, l)
        \/ j + 2 < l /\ longer[j + 2] \in {Plus, Minus} /\ DigitsAt(longer, j + 3, l)
    <3>1. CASE label = "exponent"
      BY <1>3, <1>4, <1>5, <2>1, <3>1 DEF DigitsAt
    <3>2. CASE label = "sign"
      BY <1>3, <1>4, <1>5, <2>1, <3>2 DEF DigitsAt
    <3>3. CASE label = "any2"
      <4>1. j + 1 < n /\ j + 1 # n + 1 /\ l - 1 = n /\ j + 2 \in Nat \ {0} /\ j + 3 \in Nat \ {0}
            /\ (j + 1) + 1 = j + 2 /\ (j + 1) + 2 = j + 3 /\ j + 2 <= n + 1
        BY <1>3, <1>5, <3>3
      <4>2. \/ DigitsAt(text, j + 2, n)
            \/ j + 2 < n /\ text[j + 2] \in {Plus, Minus} /\ DigitsAt(text, j + 3, n)
        BY <1>5, <3>3, <4>1, Zenon DEF ExpAt
      <4>5. ASSUME NEW c \in Nat \ {0}, c <= n + 1, DigitsAt(text, c, n)
            PROVE  DigitsAt(longer, c, l - 1)
        <5>1. n <= n
          OBVIOUS
        <5>2. DigitsAt(longer, c, n)
          BY <1>4, <4>5, <5>1, PartsKeep, Zenon
        <5> QED
          BY <4>1, <5>2
      <4>3. CASE DigitsAt(text, j + 2, n)
        <5>1. DigitsAt(longer, j + 2, l - 1)
          BY <4>1, <4>3, <4>5
        <5> QED
          BY <1>4, <1>5, <2>1, <5>1, DigitsMore
      <4>4. CASE j + 2 < n /\ text[j + 2] \in {Plus, Minus} /\ DigitsAt(text, j + 3, n)
        <5>1. DigitsAt(longer, j + 3, l - 1)
          <6>1. j + 3 <= n + 1
            BY <1>5, <4>4
          <6> QED
            BY <4>1, <4>4, <4>5, <6>1
        <5>2. DigitsAt(longer, j + 3, l)
          BY <1>4, <1>5, <2>1, <5>1, DigitsMore
        <5>3. longer[j + 2] = text[j + 2] /\ j + 2 < l
          BY <1>3, <1>4, <1>5, <4>4
        <5> QED
          BY <4>4, <5>2, <5>3
      <4> QED
        BY <4>2, <4>3, <4>4
    <3> QED
      BY <2>1, <3>1, <3>2, <3>3
  <2>4. ExpAt(longer, j + 1, l)
    <3>1. (j + 1) + 1 = j + 2 /\ (j + 1) + 2 = j + 3
      BY <1>5
    <3> QED
      BY <2>2, <2>3, <3>1, Zenon DEF ExpAt
  <2> QED
    BY <1>3, <1>5, <1>6, <1>7, <1>15, <2>1, <2>2, <2>4
<1>16. to = "any1" => label \in {"init", "minus", "any1"}
  BY GotoFrom
<1>17. to = "zero" => label \in {"init", "minus"}
  BY GotoFrom
<1> QED
  BY <1>8, <1>9, <1>10, <1>11, <1>12, <1>13, <1>14, <1>15, <1>16, <1>17 DEF NumberGoals

(* Where a number may end, it is one; and it is one with a digit more,      *)
(* wherever scan_number has got to.                                         *)
LEMMA EndedIsNumber ==
  ASSUME NEW text \in Seq(Byte), NEW label, NEW m, NEW i, NEW j, SoFar(text, label, m, i, j),
         label \in {"zero", "any1", "decimal2", "any2"}
  PROVE  IsNumber(text)
<1>1. PICK n \in Nat : n = Len(text)
  OBVIOUS
<1>2. /\ m \in {0, 1} /\ i \in Nat /\ j \in Nat /\ i <= j /\ j <= n
      /\ m = 1 => text[1] = Minus
      /\ IntAt(text, m + 1, i) /\ FracAt(text, i + 1, j)
      /\ label \in {"zero", "any1"} => n = i
      /\ label = "decimal2" => n = j
      /\ label = "any2" => ExpAt(text, j + 1, n)
  BY <1>1 DEF SoFar
<1>3. ExpAt(text, j + 1, n)
  <2>1. n = j => ExpAt(text, j + 1, n)
    BY DEF ExpAt
  <2>2. n = i => n = j
    BY <1>2
  <2> QED
    BY <1>2, <2>1, <2>2
<1>4. NumberAt(text, m, i, j)
  BY <1>1, <1>2, <1>3, Zenon DEF NumberAt
<1> QED
  BY <1>4, NumberIs, Zenon

LEMMA SoFarBegins ==
  ASSUME NEW text \in Seq(Byte), NEW label \in NumberGoals,
         NEW m, NEW i, NEW j, SoFar(text, label, m, i, j)
  PROVE  Begins(text)
<1>1. CASE label \in {"zero", "any1", "decimal2", "any2"}
  BY <1>1, EndedIsNumber, Zenon DEF Begins
<1>2. CASE label \in {"minus", "decimal1", "exponent", "sign"}
  <2>1. PICK to : to = Goto(label, Ascii(0))
    OBVIOUS
  <2>2. to \in {"zero", "decimal2", "any2"}
    BY <1>2, <2>1, GotoTaken, ZeroIsByte
  <2>3. to \in NumberGoals
    BY <2>2 DEF NumberGoals
  <2>4. PICK u, v, w : SoFar(Append(text, Ascii(0)), to, u, v, w)
    BY <2>1, <2>3, ZeroIsByte, SoFarStep, Zenon
  <2>5. Append(text, Ascii(0)) \in Seq(Byte)
    BY ZeroIsByte, Appended
  <2>6. IsNumber(Append(text, Ascii(0)))
    BY <2>2, <2>4, <2>5, EndedIsNumber
  <2> QED
    BY <2>6 DEF Begins
<1> QED
  BY <1>1, <1>2 DEF NumberGoals

-----------------------------------------------------------------------------
(* Recursion that makes a number smaller *)

(* f[x] is what start has for a small x, and else what step makes of f at a *)
(* smaller number.                                                          *)
Recurs(f, base, start, shorter, step, n) ==
  \A x \in 0 .. n : f[x] = IF x < base THEN start[x] ELSE step[<<x, f[shorter[x]]>>]

Recursive(f, base, start, shorter, step) ==
  f = [x \in Nat |-> IF x < base THEN start[x] ELSE step[<<x, f[shorter[x]]>>]]

LEMMA RecursesOnce ==
  ASSUME NEW base \in Nat, NEW start, NEW shorter \in [Nat -> Nat], NEW step,
         \A x \in Nat : x >= base => shorter[x] < x,
         NEW f, NEW m \in Nat, Recurs(f, base, start, shorter, step, m),
         NEW g, NEW n \in Nat, Recurs(g, base, start, shorter, step, n),
         NEW y \in Nat, y <= m, y <= n
  PROVE  f[y] = g[y]
<1> DEFINE T == {x \in Nat : x <= m /\ x <= n /\ f[x] # g[x]}
<1>1. SUFFICES ASSUME T # {} PROVE FALSE
  OBVIOUS
<1>2. PICK x \in T : \A z \in T : x <= z
  <2> HIDE DEF T
  <2>1. T \subseteq Nat
    BY DEF T
  <2> QED
    BY <1>1, <2>1, Least
<1>3. x \in 0 .. m /\ x \in 0 .. n
  OBVIOUS
<1>4. /\ f[x] = IF x < base THEN start[x] ELSE step[<<x, f[shorter[x]]>>]
      /\ g[x] = IF x < base THEN start[x] ELSE step[<<x, g[shorter[x]]>>]
  BY <1>3, Zenon DEF Recurs
<1>5. ~(x < base)
  BY <1>4
<1>6. shorter[x] \in Nat /\ shorter[x] < x
  BY <1>3, <1>5
<1>7. shorter[x] \notin T /\ shorter[x] <= m /\ shorter[x] <= n
  BY <1>2, <1>3, <1>6
<1>8. f[shorter[x]] = g[shorter[x]]
  BY <1>6, <1>7
<1> QED
  BY <1>4, <1>5, <1>8, Zenon

LEMMA RecursesSoFar ==
  ASSUME NEW base \in Nat, NEW start, NEW shorter \in [Nat -> Nat], NEW step,
         \A x \in Nat : x >= base => shorter[x] < x, NEW n \in Nat
  PROVE  \E f : Recurs(f, base, start, shorter, step, n)
<1> DEFINE Result(f, x) == IF x < base THEN start[x] ELSE step[<<x, f[shorter[x]]>>]
           T == {m \in Nat : \E f : Recurs(f, base, start, shorter, step, m)}
<1>1. ASSUME NEW f, NEW g, NEW x \in Nat, \A y \in Nat : y < x => f[y] = g[y]
      PROVE  Result(f, x) = Result(g, x)
  <2>1. x >= base => shorter[x] \in Nat /\ shorter[x] < x
    OBVIOUS
  <2>2. ~(x < base) => f[shorter[x]] = g[shorter[x]]
    BY <1>1, <2>1
  <2> QED
    BY <2>2, Zenon
<1> HIDE DEF Result
<1>2. 0 \in T
  <2>1. PICK f : f = [x \in 0 .. 0 |-> Result(<<>>, x)]
    OBVIOUS
  <2>2. ASSUME NEW x \in 0 .. 0 PROVE f[x] = Result(f, x)
    <3>1. Result(<<>>, x) = Result(f, x)
      BY <1>1
    <3> QED
      BY <2>1, <3>1
  <2>3. Recurs(f, base, start, shorter, step, 0)
    BY <2>2 DEF Recurs, Result
  <2> QED
    BY <2>3
<1>3. ASSUME NEW k \in Nat, k \in T
      PROVE  k + 1 \in T
  <2>1. PICK f : Recurs(f, base, start, shorter, step, k)
    BY <1>3
  <2>2. PICK m \in Nat : m = k + 1
    OBVIOUS
  <2>3. PICK g : g = [x \in 0 .. m |-> IF x = m THEN Result(f, m) ELSE f[x]]
    OBVIOUS
  <2>4. ASSUME NEW x \in 0 .. m PROVE g[x] = Result(g, x)
    <3>1. Result(f, x) = Result(g, x)
      <4>1. x \in Nat
        OBVIOUS
      <4>2. \A y \in Nat : y < x => f[y] = g[y]
        BY <2>3
      <4> QED
        BY <1>1, <4>1, <4>2
    <3>2. g[x] = Result(f, x)
      <4>1. CASE x = m
        BY <2>3, <4>1
      <4>2. CASE x # m
        <5>1. x \in 0 .. k
          BY <2>2, <4>2
        <5>2. f[x] = Result(f, x)
          BY <2>1, <5>1 DEF Recurs, Result
        <5> QED
          BY <2>3, <4>2, <5>2
      <4> QED
        BY <4>1, <4>2
    <3> QED
      BY <3>1, <3>2, Zenon
  <2>5. Recurs(g, base, start, shorter, step, m)
    BY <2>4 DEF Recurs, Result
  <2> QED
    BY <2>2, <2>5
<1>4. Nat \subseteq T
  <2> HIDE DEF T
  <2> QED
    BY <1>2, <1>3, Induction
<1> QED
  BY <1>4

LEMMA Recursion ==
  ASSUME NEW base \in Nat, NEW start, NEW shorter \in [Nat -> Nat], NEW step,
         \A x \in Nat : x >= base => shorter[x] < x
  PROVE  \E f : Recursive(f, base, start, shorter, step)
<1> DEFINE Up(n) == CHOOSE f : Recurs(f, base, start, shorter, step, n)
<1>1. ASSUME NEW n \in Nat PROVE Recurs(Up(n), base, start, shorter, step, n)
  BY RecursesSoFar, Zenon
<1> HIDE DEF Up
<1>2. PICK f : f = [x \in Nat |-> Up(x)[x]]
  OBVIOUS
<1>3. ASSUME NEW x \in Nat
      PROVE  f[x] = IF x < base THEN start[x] ELSE step[<<x, f[shorter[x]]>>]
  <2>1. x \in 0 .. x
    OBVIOUS
  <2>2. f[x] = IF x < base THEN start[x] ELSE step[<<x, Up(x)[shorter[x]]>>]
    BY <1>1, <1>2, <2>1, Zenon DEF Recurs
  <2>3. ~(x < base) => f[shorter[x]] = Up(x)[shorter[x]]
    <3>1. SUFFICES ASSUME ~(x < base) PROVE f[shorter[x]] = Up(x)[shorter[x]]
      OBVIOUS
    <3>2. PICK y \in Nat : y = shorter[x] /\ y <= x /\ y <= y
      BY <3>1
    <3>3. Up(y)[y] = Up(x)[y]
      <4>1. PICK g : g = Up(y)
        OBVIOUS
      <4>2. PICK h : h = Up(x)
        OBVIOUS
      <4>3. Recurs(g, base, start, shorter, step, y) /\ Recurs(h, base, start, shorter, step, x)
        BY <1>1, <4>1, <4>2, Zenon
      <4>4. g[y] = h[y]
        BY <3>2, <4>3, RecursesOnce
      <4> QED
        BY <4>1, <4>2, <4>4, Zenon
    <3> QED
      BY <1>2, <3>2, <3>3
  <2> QED
    BY <2>2, <2>3, Zenon
<1> QED
  <2>1. f = [x \in Nat |-> f[x]]
    BY <1>2
  <2> QED
    BY <1>3, <2>1 DEF Recursive

LEMMA RecursesIn ==
  ASSUME NEW base \in Nat, NEW start, NEW shorter \in [Nat -> Nat], NEW step,
         \A x \in Nat : x >= base => shorter[x] < x,
         NEW S, \A x \in Nat : x < base => start[x] \in S,
         \A x \in Nat : \A v \in S : step[<<x, v>>] \in S
  PROVE  \E f \in [Nat -> S] : Recursive(f, base, start, shorter, step)
<1>1. PICK f : Recursive(f, base, start, shorter, step)
  BY Recursion
<1>2. ASSUME NEW x \in Nat
      PROVE  f[x] = IF x < base THEN start[x] ELSE step[<<x, f[shorter[x]]>>]
  BY <1>1, Zenon DEF Recursive
<1> DEFINE T == {x \in Nat : f[x] \notin S}
<1>3. T = {}
  <2>1. SUFFICES ASSUME T # {} PROVE FALSE
    OBVIOUS
  <2>2. PICK x \in T : \A z \in T : x <= z
    <3> HIDE DEF T
    <3>1. T \subseteq Nat
      BY DEF T
    <3> QED
      BY <2>1, <3>1, Least
  <2>3. x \in Nat /\ f[x] \notin S
    OBVIOUS
  <2>4. CASE x < base
    BY <1>2, <2>3, <2>4, Zenon
  <2>5. CASE ~(x < base)
    <3>1. shorter[x] \in Nat /\ ~(x <= shorter[x])
      BY <2>3, <2>5
    <3>2. f[shorter[x]] \in S
      BY <2>2, <3>1
    <3>3. f[x] = step[<<x, f[shorter[x]]>>]
      BY <1>2, <2>3, <2>5, Zenon
    <3> QED
      BY <2>3, <3>2, <3>3, Zenon
  <2> QED
    BY <2>4, <2>5
<1>4. f \in [Nat -> S]
  <2>1. \A x \in Nat : f[x] \in S
    BY <1>3
  <2>2. f = [x \in Nat |-> f[x]]
    BY <1>1, <1>2, Zenon DEF Recursive
  <2> QED
    BY <2>1, <2>2, Zenon
<1> QED
  BY <1>1, <1>4, Zenon

-----------------------------------------------------------------------------
(* dump_integer *)

LEMMA CountIs ==
  ASSUME NEW x \in Nat
  PROVE  count_digits[x] = IF x < 10000
                           THEN IF x < 10 THEN 1 ELSE IF x < 100 THEN 2
                                ELSE IF x < 1000 THEN 3 ELSE 4
                           ELSE 4 + count_digits[x \div 10000]
<1>0. PICK base \in Nat : base = 10000
  OBVIOUS
<1> DEFINE start == [z \in Nat |-> IF z < 10 THEN 1 ELSE IF z < 100 THEN 2
                                   ELSE IF z < 1000 THEN 3 ELSE 4]
           shorter == [z \in Nat |-> z \div base]
           step == [p \in Nat \X Nat |-> 4 + p[2]]
<1>1. shorter \in [Nat -> Nat] /\ \A z \in Nat : z >= base => shorter[z] < z
  BY <1>0
<1>2. \A z \in Nat : z < base => start[z] \in Nat
  OBVIOUS
<1>3. \A z \in Nat : \A v \in Nat : step[<<z, v>>] = 4 + v /\ step[<<z, v>>] \in Nat
  OBVIOUS
<1>4. \E f \in [Nat -> Nat] : Recursive(f, base, start, shorter, step)
  <2> HIDE DEF start, shorter, step
  <2> QED
    BY <1>1, <1>2, <1>3, RecursesIn
<1>5. PICK f \in [Nat -> Nat] : Recursive(f, base, start, shorter, step)
  BY <1>4, Zenon
<1> DEFINE Result(g, z) == IF z < 10000
                          THEN IF z < 10 THEN 1 ELSE IF z < 100 THEN 2
                               ELSE IF z < 1000 THEN 3 ELSE 4
                          ELSE 4 + g[z \div 10000]
           P(g) == g = [z \in Nat |-> Result(g, z)]
<1>6. ASSUME NEW z \in Nat
      PROVE  (IF z < base THEN start[z] ELSE step[<<z, f[shorter[z]]>>]) = Result(f, z)
  <2>1. CASE z < base
    BY <1>0, <2>1
  <2>2. CASE ~(z < base)
    <3>1. z \div base \in Nat /\ f[z \div base] \in Nat /\ shorter[z] = z \div base
      BY <1>0
    <3>2. step[<<z, f[shorter[z]]>>] = 4 + f[z \div base]
      <4> HIDE DEF shorter, step
      <4> QED
        BY <1>3, <3>1
    <3>3. Result(f, z) = 4 + f[z \div base]
      BY <1>0, <2>2
    <3> HIDE DEF Result, start, shorter, step
    <3> QED
      BY <2>2, <3>2, <3>3, Zenon
  <2> QED
    BY <2>1, <2>2
<1>7. P(f)
  <2> HIDE DEF start, shorter, step, Result
  <2> QED
    BY <1>5, <1>6, Zenon DEF Recursive
<1>8. count_digits = CHOOSE g : P(g)
  BY DEF count_digits
<1>9. P(count_digits)
  <2> HIDE DEF P
  <2> QED
    BY <1>7, <1>8, Zenon
<1>10. count_digits[x] = Result(count_digits, x)
  <2> HIDE DEF Result
  <2> QED
    BY <1>9, Zenon
<1> QED
  BY <1>10

LEMMA PairsIs ==
  ASSUME NEW x \in Nat
  PROVE  Pairs[x] = IF x >= 100 THEN Pairs[x \div 100] \o Pair(x % 100)
                    ELSE IF x >= 10 THEN Pair(x) ELSE <<Ascii(x)>>
<1> DEFINE S == Seq(Nat)
           start == [z \in Nat |-> IF z >= 10 THEN Pair(z) ELSE <<Ascii(z)>>]
           shorter == [z \in Nat |-> z \div 100]
           step == [p \in Nat \X S |-> p[2] \o Pair(p[1] % 100)]
<1>1. shorter \in [Nat -> Nat] /\ \A z \in Nat : z >= 100 => shorter[z] < z
  OBVIOUS
<1>2. \A z \in Nat : Pair(z) \in S /\ <<Ascii(z)>> \in S
  BY DEF Pair, Ascii
<1>3. \A z \in Nat : z < 100 => start[z] \in S
  BY <1>2
<1>4. \A z \in Nat : \A v \in S : step[<<z, v>>] = v \o Pair(z % 100) /\ step[<<z, v>>] \in S
  <2>1. ASSUME NEW z \in Nat, NEW v \in S
        PROVE  v \o Pair(z % 100) \in S
    <3>1. z % 100 \in Nat
      OBVIOUS
    <3> QED
      BY <1>2, <3>1
  <2>2. ASSUME NEW z \in Nat, NEW v \in S
        PROVE  step[<<z, v>>] = v \o Pair(z % 100)
    <3>1. <<z, v>> \in Nat \X S /\ <<z, v>>[1] = z /\ <<z, v>>[2] = v
      OBVIOUS
    <3> QED
      BY <3>1, Zenon
  <2> HIDE DEF S, step
  <2> QED
    BY <2>1, <2>2, Zenon
<1>5. \E f \in [Nat -> S] : Recursive(f, 100, start, shorter, step)
  <2> HIDE DEF S, start, shorter, step
  <2> QED
    BY <1>1, <1>3, <1>4, RecursesIn
<1>6. PICK f \in [Nat -> S] : Recursive(f, 100, start, shorter, step)
  BY <1>5, Zenon
<1>7. ASSUME NEW z \in Nat
      PROVE  (IF z < 100 THEN start[z] ELSE step[<<z, f[shorter[z]]>>])
               = IF z >= 100 THEN f[z \div 100] \o Pair(z % 100)
                 ELSE IF z >= 10 THEN Pair(z) ELSE <<Ascii(z)>>
  <2>1. z \div 100 \in Nat /\ shorter[z] = z \div 100
    OBVIOUS
  <2>2. step[<<z, f[shorter[z]]>>] = f[z \div 100] \o Pair(z % 100)
    <3> HIDE DEF S, shorter, step
    <3> QED
      BY <1>4, <2>1
  <2>3. start[z] = IF z >= 10 THEN Pair(z) ELSE <<Ascii(z)>>
    OBVIOUS
  <2>4. z < 100 <=> ~(z >= 100)
    OBVIOUS
  <2> HIDE DEF S, start, shorter, step
  <2> QED
    BY <2>2, <2>3, <2>4, Zenon
<1>8. f = [z \in Nat |-> IF z >= 100 THEN f[z \div 100] \o Pair(z % 100)
                         ELSE IF z >= 10 THEN Pair(z) ELSE <<Ascii(z)>>]
  <2> HIDE DEF S, start, shorter, step
  <2> QED
    BY <1>6, <1>7, ZenonT(30) DEF Recursive
<1>9. Pairs = [z \in Nat |-> IF z >= 100 THEN Pairs[z \div 100] \o Pair(z % 100)
                             ELSE IF z >= 10 THEN Pair(z) ELSE <<Ascii(z)>>]
  BY <1>8, Zenon DEF Pairs
<1> QED
  BY <1>9, Zenon

-----------------------------------------------------------------------------
(* Magnitude, one byte more *)

Valued(value, byte) ==
  IF byte = Minus THEN value ELSE 10 * value + (byte - Ascii(0))

(* The equation of the recursive function in Magnitude, up to the m-th byte. *)
Valuing(text, m, f) ==
  f = [n \in 0 .. m |-> IF n = 0 THEN 0 ELSE Valued(f[n - 1], text[n])]

LEMMA MagnitudeExists ==
  ASSUME NEW text, NEW l \in Nat
  PROVE  \E f : Valuing(text, l, f)
<1> DEFINE T == {m \in Nat : \E f : Valuing(text, m, f)}
<1>1. 0 \in T
  <2>1. PICK f : f = [n \in 0 .. 0 |-> 0]
    OBVIOUS
  <2>2. Valuing(text, 0, f)
    BY <2>1 DEF Valuing
  <2> QED
    BY <2>2
<1>2. ASSUME NEW k \in Nat, k \in T
      PROVE  k + 1 \in T
  <2>1. PICK f : Valuing(text, k, f)
    BY <1>2
  <2>2. PICK m \in Nat : m = k + 1
    OBVIOUS
  <2>3. PICK g : g = [n \in 0 .. m |-> IF n = m THEN Valued(f[k], text[m]) ELSE f[n]]
    OBVIOUS
  <2>4. ASSUME NEW n \in 0 .. m
        PROVE  g[n] = IF n = 0 THEN 0 ELSE Valued(g[n - 1], text[n])
    <3>1. CASE n = m
      <4>1. g[m] = Valued(f[k], text[m]) /\ g[k] = f[k] /\ m - 1 = k /\ m # 0
        BY <2>2, <2>3
      <4> QED
        BY <3>1, <4>1, Zenon
    <3>2. CASE n # m
      <4>1. n \in 0 .. k /\ (n # 0 => n - 1 \in 0 .. m /\ n - 1 # m)
        BY <2>2, <3>2
      <4>2. g[n] = f[n] /\ (n # 0 => g[n - 1] = f[n - 1])
        BY <2>3, <3>2, <4>1
      <4>3. f[n] = IF n = 0 THEN 0 ELSE Valued(f[n - 1], text[n])
        BY <2>1, <4>1 DEF Valuing
      <4> QED
        BY <4>2, <4>3
    <3> QED
      BY <3>1, <3>2
  <2>5. Valuing(text, m, g)
    <3>1. g = [n \in 0 .. m |-> g[n]]
      BY <2>3
    <3> QED
      BY <2>4, <3>1 DEF Valuing
  <2> QED
    BY <2>2, <2>5
<1> QED
  BY <1>1, <1>2, Induction

LEMMA MagnitudeIs ==
  ASSUME NEW text, NEW l \in Nat, Len(text) = l
  PROVE  \E f : Valuing(text, l, f) /\ Magnitude(text) = f[l]
<1>1. \E f : Valuing(text, l, f)
  BY MagnitudeExists
<1>2. PICK g : g = CHOOSE f : Valuing(text, l, f)
  OBVIOUS
<1>3. Valuing(text, l, g)
  BY <1>1, <1>2, Zenon
<1>4. Magnitude(text) = g[l]
  BY <1>2 DEF Magnitude, Valuing, Valued
<1> QED
  BY <1>3, <1>4

(* strtoull takes the digits one after the other. *)
LEMMA MagnitudeEmpty == Magnitude(<<>>) = 0
<1>1. PICK f : Valuing(<<>>, 0, f) /\ Magnitude(<<>>) = f[0]
  <2>1. Len(<<>>) = 0
    OBVIOUS
  <2> QED
    BY <2>1, MagnitudeIs
<1> QED
  BY <1>1 DEF Valuing

LEMMA MagnitudeAppend ==
  ASSUME NEW text \in Seq(Byte), NEW byte \in Byte
  PROVE  Magnitude(Append(text, byte)) = Valued(Magnitude(text), byte)
<1>1. PICK l \in Nat : l = Len(text)
  OBVIOUS
<1>2. PICK m \in Nat : m = l + 1
  OBVIOUS
<1>3. PICK longer : longer = Append(text, byte)
  OBVIOUS
<1>4. Len(longer) = m /\ longer[m] = byte /\ \A n \in 1 .. l : longer[n] = text[n]
  BY <1>1, <1>2, <1>3, Appended
<1>5. PICK f : Valuing(text, l, f) /\ Magnitude(text) = f[l]
  BY <1>1, MagnitudeIs
<1>6. PICK g : Valuing(longer, m, g) /\ Magnitude(longer) = g[m]
  BY <1>4, MagnitudeIs
<1> DEFINE T == {n \in Nat : n <= l => f[n] = g[n]}
<1>7. 0 \in T
  BY <1>5, <1>6 DEF Valuing
<1>8. ASSUME NEW k \in Nat, k \in T
      PROVE  k + 1 \in T
  <2>1. SUFFICES ASSUME k + 1 <= l PROVE f[k + 1] = g[k + 1]
    OBVIOUS
  <2>2. PICK n \in 1 .. l : n = k + 1
    BY <2>1
  <2>3. n \in 0 .. l /\ n \in 0 .. m /\ n # 0 /\ n - 1 = k
    BY <1>2, <2>2
  <2>4. f[n] = Valued(f[k], text[n])
    BY <1>5, <2>3 DEF Valuing
  <2>5. g[n] = Valued(g[k], longer[n])
    BY <1>6, <2>3 DEF Valuing
  <2>6. f[k] = g[k] /\ longer[n] = text[n]
    BY <1>4, <1>8, <2>1
  <2> QED
    BY <2>2, <2>4, <2>5, <2>6
<1>9. Nat \subseteq T
  <2> HIDE DEF T
  <2> QED
    BY <1>7, <1>8, Induction
<1>10. f[l] = g[l]
  BY <1>9
<1>11. g[m] = Valued(g[l], longer[m])
  <2>1. m \in 0 .. m /\ m # 0 /\ m - 1 = l
    BY <1>2
  <2> QED
    BY <1>6, <2>1 DEF Valuing
<1> QED
  BY <1>3, <1>4, <1>5, <1>6, <1>10, <1>11

-----------------------------------------------------------------------------
(* One digit more of what dump_integer writes *)

LEMMA ShortPairs ==
  ASSUME NEW x \in Nat, x < 100
  PROVE  /\ x >= 10 => Pairs[x] = Pair(x)
         /\ x < 10 => Pairs[x] = <<Ascii(x)>>
<1>1. ~(x >= 100) /\ (x < 10 => ~(x >= 10))
  OBVIOUS
<1> QED
  BY <1>1, PairsIs, Zenon

LEMMA AsciiIsByte == \A x \in 0 .. 9 : Ascii(x) \in Byte
BY DEF Ascii, Byte

LEMMA PairIs ==
  /\ \A x \in 0 .. 9 : <<Ascii(x)>> \in Seq(Byte)
  /\ \A x \in 0 .. 99 : Pair(x) \in Seq(Byte)
<1>1. \A x \in 0 .. 9 : Ascii(x) \in Byte
  BY AsciiIsByte
<1>2. ASSUME NEW x \in 0 .. 99 PROVE Pair(x) \in Seq(Byte)
  <2>1. x \div 10 \in 0 .. 9 /\ x % 10 \in 0 .. 9
    OBVIOUS
  <2>2. PICK a \in Byte, b \in Byte : a = Ascii(x \div 10) /\ b = Ascii(x % 10)
    BY <1>1, <2>1
  <2>3. Pair(x) = <<a, b>>
    BY <2>2, Zenon DEF Pair
  <2> QED
    BY <2>3
<1> QED
  BY <1>1, <1>2

LEMMA PairsType ==
  ASSUME NEW x \in Nat
  PROVE  Pairs[x] \in Seq(Byte)
<1> DEFINE T == {z \in Nat : Pairs[z] \notin Seq(Byte)}
<1>1. SUFFICES ASSUME T # {} PROVE FALSE
  OBVIOUS
<1>2. PICK z \in T : \A y \in T : z <= y
  <2> HIDE DEF T
  <2>1. T \subseteq Nat
    BY DEF T
  <2> QED
    BY <1>1, <2>1, Least
<1>3. z \in Nat /\ Pairs[z] \notin Seq(Byte)
  OBVIOUS
<1>4. CASE z < 100
  <2>1. z \in 0 .. 99 /\ (z < 10 => z \in 0 .. 9) /\ (z < 10 \/ z >= 10)
    BY <1>3, <1>4
  <2>2. (z >= 10 => Pairs[z] = Pair(z)) /\ (z < 10 => Pairs[z] = <<Ascii(z)>>)
    BY <1>3, <1>4, ShortPairs
  <2> QED
    BY <1>3, <2>1, <2>2, PairIs, Zenon
<1>5. CASE z >= 100
  <2>1. z \div 100 \in Nat /\ ~(z <= z \div 100) /\ z % 100 \in 0 .. 99
    BY <1>3, <1>5
  <2>2. PICK p \in Seq(Byte) : p = Pairs[z \div 100]
    BY <1>2, <2>1
  <2>3. PICK q \in Seq(Byte) : q = Pair(z % 100)
    BY <2>1, PairIs
  <2>4. Pairs[z] = p \o q
    BY <1>3, <1>5, <2>2, <2>3, PairsIs
  <2>5. p \o q \in Seq(Byte)
    OBVIOUS
  <2> QED
    BY <1>3, <2>4, <2>5
<1> QED
  BY <1>3, <1>4, <1>5

LEMMA PairsMore ==
  ASSUME NEW x \in Nat \ {0}, NEW v \in 0 .. 9
  PROVE  Pairs[10 * x + v] = Append(Pairs[x], Ascii(v))
<1> DEFINE More(z, w) == Pairs[10 * z + w] = Append(Pairs[z], Ascii(w))
           T == {z \in Nat : z # 0 /\ \E w \in 0 .. 9 : ~More(z, w)}
<1>1. SUFFICES ASSUME T # {} PROVE FALSE
  OBVIOUS
<1>2. PICK z \in T : \A y \in T : z <= y
  <2> HIDE DEF T
  <2>1. T \subseteq Nat
    BY DEF T
  <2> QED
    BY <1>1, <2>1, Least
<1>3. z \in Nat /\ z # 0
  OBVIOUS
<1>4. PICK w \in 0 .. 9 : ~More(z, w)
  OBVIOUS
<1>5. PICK n \in Nat : n = 10 * z + w
  BY <1>3
<1>6. CASE z < 10
  <2>1. n < 100 /\ n >= 10 /\ n \div 10 = z /\ n % 10 = w
    BY <1>3, <1>5, <1>6
  <2>2. Pairs[n] = Pair(n)
    BY <2>1, ShortPairs
  <2>3. Pair(n) = <<Ascii(z), Ascii(w)>>
    BY <2>1, Zenon DEF Pair
  <2>4. Pairs[z] = <<Ascii(z)>>
    <3>1. z < 100
      BY <1>3, <1>6
    <3> QED
      BY <1>3, <1>6, <3>1, ShortPairs
  <2>5. Append(<<Ascii(z)>>, Ascii(w)) = <<Ascii(z), Ascii(w)>>
    <3>1. Ascii(z) \in Byte /\ Ascii(w) \in Byte
      BY <1>3, <1>6, AsciiIsByte
    <3> QED
      BY <3>1, AppendOne
  <2> QED
    BY <1>4, <1>5, <2>2, <2>3, <2>4, <2>5, Zenon
<1>7. CASE z >= 10
  <2>1. PICK y \in Nat, u \in 0 .. 9 : y = z \div 10 /\ u = z % 10
    BY <1>3
  <2>2. y # 0 /\ ~(z <= y) /\ z = 10 * y + u
    BY <1>3, <1>7, <2>1
  <2>3. n >= 100 /\ n \div 100 = y /\ n % 100 = 10 * u + w
    BY <1>3, <1>5, <1>7, <2>1, <2>2
  <2>4. More(y, u)
    BY <1>2, <2>2
  <2>5. PICK p \in Seq(Byte) : p = Pairs[y]
    BY PairsType
  <2>6. PICK a \in Byte, b \in Byte : a = Ascii(u) /\ b = Ascii(w)
    <3>1. Ascii(u) \in Byte /\ Ascii(w) \in Byte
      BY AsciiIsByte
    <3> QED
      BY <3>1, Zenon
  <2>7. Pairs[z] = Append(p, a)
    BY <2>2, <2>4, <2>5, <2>6
  <2>8. Pairs[n] = p \o <<a, b>>
    <3>1. (10 * u + w) \div 10 = u /\ (10 * u + w) % 10 = w
      OBVIOUS
    <3>2. Pair(10 * u + w) = <<a, b>>
      BY <2>6, <3>1, Zenon DEF Pair
    <3>3. Pairs[n] = Pairs[n \div 100] \o Pair(n % 100)
      BY <2>3, PairsIs
    <3> QED
      BY <2>3, <2>5, <3>2, <3>3, Zenon
  <2>9. p \o <<a, b>> = Append(Append(p, a), b)
    BY ConcatTwo
  <2> QED
    BY <1>4, <1>5, <2>6, <2>7, <2>8, <2>9, Zenon
<1> QED
  BY <1>3, <1>6, <1>7

LEMMA CountType ==
  ASSUME NEW x \in Nat
  PROVE  count_digits[x] \in Nat
<1> DEFINE T == {z \in Nat : count_digits[z] \notin Nat}
<1>1. SUFFICES ASSUME T # {} PROVE FALSE
  OBVIOUS
<1>2. PICK z \in T : \A y \in T : z <= y
  <2> HIDE DEF T
  <2>1. T \subseteq Nat
    BY DEF T
  <2> QED
    BY <1>1, <2>1, Least
<1>3. z \in Nat /\ count_digits[z] \notin Nat
  OBVIOUS
<1>4. z >= 10000
  BY <1>3, CountIs
<1>5. z \div 10000 \in Nat /\ ~(z <= z \div 10000)
  BY <1>3, <1>4
<1>6. count_digits[z \div 10000] \in Nat
  BY <1>2, <1>5
<1>7. count_digits[z] = 4 + count_digits[z \div 10000]
  BY <1>3, <1>4, CountIs
<1> QED
  BY <1>3, <1>6, <1>7

LEMMA CountMore ==
  ASSUME NEW x \in Nat \ {0}, NEW v \in 0 .. 9
  PROVE  count_digits[10 * x + v] = count_digits[x] + 1
<1> DEFINE More(z, w) == count_digits[10 * z + w] = count_digits[z] + 1
           T == {z \in Nat : z # 0 /\ \E w \in 0 .. 9 : ~More(z, w)}
<1>1. SUFFICES ASSUME T # {} PROVE FALSE
  OBVIOUS
<1>2. PICK z \in T : \A y \in T : z <= y
  <2> HIDE DEF T
  <2>1. T \subseteq Nat
    BY DEF T
  <2> QED
    BY <1>1, <2>1, Least
<1>3. z \in Nat /\ z # 0
  OBVIOUS
<1>4. PICK w \in 0 .. 9 : ~More(z, w)
  OBVIOUS
<1>5. PICK n \in Nat : n = 10 * z + w
  BY <1>3
<1>6. PICK c \in Nat, d \in Nat : c = count_digits[z] /\ d = count_digits[n]
  BY <1>3, CountType
<1>7. d # c + 1
  BY <1>4, <1>5, <1>6
<1>8. CASE z < 1000
  BY <1>3, <1>5, <1>6, <1>7, <1>8, CountIs
<1>9. CASE z >= 1000 /\ z < 10000
  <2>1. n >= 10000 /\ n \div 10000 \in 1 .. 9
    BY <1>5, <1>9
  <2>2. d = 4 + count_digits[n \div 10000]
    BY <1>6, <2>1, CountIs
  <2>3. count_digits[n \div 10000] = 1
    BY <2>1, CountIs
  <2>4. c = 4
    BY <1>3, <1>6, <1>9, CountIs
  <2> QED
    BY <1>7, <2>2, <2>3, <2>4
<1>10. CASE z >= 10000
  <2>1. PICK y \in Nat, k \in Nat, u \in 0 .. 9 :
          y = z \div 10000 /\ k = z \div 1000 /\ u = (z \div 1000) % 10
    BY <1>3
  <2>2. y # 0 /\ ~(z <= y) /\ k = 10 * y + u
    BY <1>3, <1>10, <2>1
  <2>3. n >= 10000 /\ n \div 10000 = k
    BY <1>3, <1>5, <1>10, <2>1
  <2>4. More(y, u)
    BY <1>2, <2>2
  <2>5. d = 4 + count_digits[k]
    BY <1>6, <2>3, CountIs
  <2>6. c = 4 + count_digits[y]
    BY <1>3, <1>6, <1>10, <2>1, CountIs
  <2>7. count_digits[y] \in Nat
    BY CountType
  <2> QED
    BY <1>7, <2>2, <2>4, <2>5, <2>6, <2>7
<1> QED
  BY <1>3, <1>8, <1>9, <1>10

-----------------------------------------------------------------------------
(* What dump_integer writes of a number that was read *)

(* The digits of the number are those that dump_integer writes, and as many *)
(* as count_digits counts.                                                  *)
Counted(type, text) ==
  LET x == Magnitude(text)
  IN  /\ x \in Nat
      /\ count_digits[x] = Len(Pairs[x])
      /\ \/ type = "value_unsigned" /\ text = Pairs[x]
         \/ type = "value_integer" /\ x # 0 /\ text = <<Minus>> \o Pairs[x]

Spelled(type, text) ==
  Counted(type, text) \/ (type = "value_integer" /\ text = <<Minus, Ascii(0)>>)

LEMMA FilledIs ==
  ASSUME NEW d \in Seq(Byte), NEW n \in Nat, n = Len(d)
  PROVE  /\ Filled(<<>>, n, d) = d
         /\ Filled(<<Minus>>, n + 1, d) = <<Minus>> \o d
<1>1. Filled(<<>>, n, d) = d
  <2>1. PICK e : e = Filled(<<>>, n, d)
    OBVIOUS
  <2>2. e = [i \in 1 .. n |-> d[i]]
    BY <2>1 DEF Filled
  <2>3. d = [i \in 1 .. n |-> d[i]]
    OBVIOUS
  <2> QED
    BY <2>1, <2>2, <2>3, Zenon
<1>2. Filled(<<Minus>>, n + 1, d) = <<Minus>> \o d
  <2>1. PICK m \in Nat : m = n + 1
    OBVIOUS
  <2>2. PICK e : e = Filled(<<Minus>>, m, d)
    OBVIOUS
  <2>3. Minus \in Byte
    BY DEF Minus, Byte
  <2>4. PICK s : s = <<Minus>>
    OBVIOUS
  <2>5. s \in Seq(Byte) /\ Len(s) = 1 /\ s[1] = Minus
    BY <2>3, <2>4
  <2>6. e = [i \in 1 .. m |-> IF i > 1 THEN d[i - 1] ELSE Minus]
    BY <2>1, <2>2, <2>4, <2>5 DEF Filled
  <2>7. PICK t : t = s \o d
    OBVIOUS
  <2>8. t \in Seq(Byte) /\ Len(t) = m /\ t[1] = Minus /\ \A i \in 2 .. m : t[i] = d[i - 1]
    <3>1. /\ t \in Seq(Byte) /\ Len(t) = Len(s) + Len(d)
          /\ \A i \in 1 .. Len(s) + Len(d) :
               t[i] = IF i <= Len(s) THEN s[i] ELSE d[i - Len(s)]
      BY <2>5, <2>7, ConcatProperties
    <3>2. t[1] = Minus
      BY <2>5, <3>1
    <3>3. ASSUME NEW i \in 2 .. m PROVE t[i] = d[i - 1]
      BY <2>1, <2>5, <3>1
    <3> QED
      BY <2>1, <2>5, <3>1, <3>2, <3>3
  <2>9. t = [i \in 1 .. m |-> t[i]]
    BY <2>8
  <2>10. \A i \in 1 .. m : t[i] = IF i > 1 THEN d[i - 1] ELSE Minus
    BY <2>1, <2>8
  <2>11. t = e
    BY <2>6, <2>9, <2>10
  <2> QED
    BY <2>1, <2>2, <2>4, <2>7, <2>11, Zenon
<1> QED
  BY <1>1, <1>2

LEMMA DumpedAsRead ==
  ASSUME NEW text, NEW type, Spelled(type, text), Converted(type, text).type = type
  PROVE  \/ dump_integer(Converted(type, text).value) = text
         \/ text = <<Minus, Ascii(0)>>
<1>1. SUFFICES ASSUME Counted(type, text)
               PROVE  dump_integer(Converted(type, text).value) = text
  BY DEF Spelled
<1>2. PICK x \in Nat : x = Magnitude(text)
  BY <1>1 DEF Counted
<1>3. PICK d \in Seq(Byte) : d = Pairs[x]
  BY PairsType
<1>4. PICK n \in Nat : n = Len(d) /\ n = count_digits[x]
  BY <1>1, <1>2, <1>3 DEF Counted
<1>5. \/ type = "value_unsigned" /\ text = d
      \/ type = "value_integer" /\ x # 0 /\ text = <<Minus>> \o d
  BY <1>1, <1>2, <1>3 DEF Counted
<1>6. PICK c : c = Converted(type, text)
  OBVIOUS
<1>7. PICK small, fits : small = (x <= UnsignedMax) /\ fits = (x <= IntegerMax + 1)
  OBVIOUS
<1>8. PICK y \in Int : y = -x
  OBVIOUS
<1>9. c = CASE type = "value_unsigned" /\ small -> [type |-> type, value |-> x]
            [] type = "value_integer" /\ fits -> [type |-> type, value |-> y]
            [] OTHER -> [type |-> "value_float", value |-> 0]
  BY <1>2, <1>6, <1>7, <1>8, Zenon DEF Converted
<1>10. CASE type = "value_unsigned" /\ text = d
  <2>1. c.value = x
    BY <1>6, <1>9, <1>10
  <2>2. dump_integer(x) = Filled(<<>>, n, d)
    <3>1. ~(x < 0) /\ Len(<<>>) + n = n
      OBVIOUS
    <3> QED
      BY <1>3, <1>4, <3>1, Zenon DEF dump_integer
  <2> QED
    BY <1>4, <1>6, <1>10, <2>1, <2>2, FilledIs, Zenon
<1>11. CASE type = "value_integer" /\ x # 0 /\ text = <<Minus>> \o d
  <2>1. c.value = y
    BY <1>6, <1>9, <1>11
  <2>2. dump_integer(y) = Filled(<<Minus>>, n + 1, d)
    <3>1. y < 0 /\ -(y + 1) + 1 = x /\ Len(<<Minus>>) + n = n + 1
      BY <1>8, <1>11
    <3> QED
      BY <1>3, <1>4, <3>1, Zenon DEF dump_integer
  <2> QED
    BY <1>4, <1>6, <1>11, <2>1, <2>2, FilledIs, Zenon
<1> QED
  BY <1>5, <1>10, <1>11

(* What scan_number knows at a label: the text so far begins a number, and  *)
(* what it will be dumped as.                                               *)
Counts(label, type, text) ==
  /\ text \in Seq(Byte) /\ type \in NumberTypes
  /\ Reaches(text, label)
  /\ \E m, i, j : SoFar(text, label, m, i, j)
  /\ label = "init" => type = "value_unsigned" /\ text = <<>>
  /\ label = "minus" => type = "value_integer" /\ text = <<Minus>>
  /\ label \in {"zero", "any1"} => type # "value_float" /\ Spelled(type, text)
  /\ label = "any1" => Counted(type, text) /\ Magnitude(text) # 0
  /\ label \in {"decimal1", "decimal2", "exponent", "sign", "any2"} => type = "value_float"

LEMMA CountsInit == Counts("init", "value_unsigned", <<>>)
<1>1. Reaches(<<>>, "init")
  <2>1. PICK path : path = [k \in 0 .. 0 |-> "init"]
    OBVIOUS
  <2>2. Leads(path, <<>>) /\ path[Len(<<>>)] = "init"
    BY <2>1 DEF Leads
  <2> QED
    BY <2>2, Zenon DEF Reaches
<1>2. SoFar(<<>>, "init", 0, 0, 0)
  BY DEF SoFar
<1> QED
  BY <1>1, <1>2 DEF Counts, NumberTypes

LEMMA TypeStep ==
  ASSUME NEW to, NEW type
  PROVE  /\ to = "minus" => TypeAt(to, type) = "value_integer"
         /\ to \in {"decimal1", "exponent"} => TypeAt(to, type) = "value_float"
         /\ to \in {"zero", "any1", "decimal2", "sign", "any2"} => TypeAt(to, type) = type
BY DEF TypeAt

LEMMA DigitIs ==
  ASSUME NEW byte \in Digit
  PROVE  /\ byte - Ascii(0) \in 0 .. 9 /\ byte = Ascii(byte - Ascii(0)) /\ byte \in Byte
         /\ byte # Minus
         /\ \A text \in Seq(Byte) :
              Magnitude(Append(text, byte)) = 10 * Magnitude(text) + (byte - Ascii(0))
<1>1. byte - Ascii(0) \in 0 .. 9 /\ byte = Ascii(byte - Ascii(0)) /\ byte \in Byte /\ byte # Minus
  BY DEF Digit, Ascii, Byte, Minus
<1>2. ASSUME NEW text \in Seq(Byte)
      PROVE  Magnitude(Append(text, byte)) = 10 * Magnitude(text) + (byte - Ascii(0))
  BY <1>1, MagnitudeAppend, Zenon DEF Valued
<1> QED
  BY <1>1, <1>2

LEMMA Spellings ==
  ASSUME NEW byte \in Digit
  PROVE  /\ Append(<<>>, byte) = <<byte>> /\ Append(<<Minus>>, byte) = <<Minus>> \o <<byte>>
         /\ Append(<<Minus>>, byte) = <<Minus, byte>>
         /\ \A d \in Seq(Byte) : Append(<<Minus>> \o d, byte) = <<Minus>> \o Append(d, byte)
<1>1. byte \in Byte /\ Minus \in Byte
  BY DigitIs DEF Minus, Byte
<1>2. <<Minus>> \in Seq(Byte)
  BY <1>1, Sequences
<1>3. Append(<<>>, byte) = <<byte>>
  BY <1>1
<1>4. Append(<<Minus>>, byte) = <<Minus>> \o <<byte>>
  BY <1>1, <1>2, ConcatOne
<1>5. Append(<<Minus>>, byte) = <<Minus, byte>>
  BY <1>1, AppendOne
<1>6. ASSUME NEW d \in Seq(Byte) PROVE Append(<<Minus>> \o d, byte) = <<Minus>> \o Append(d, byte)
  BY <1>1, <1>2, ConcatAppend
<1> QED
  BY <1>3, <1>4, <1>5, <1>6

(* One digit alone, or behind its minus. *)
LEMMA FirstDigit ==
  ASSUME NEW byte \in Digit
  PROVE  /\ Counted("value_unsigned", Append(<<>>, byte))
         /\ byte # Ascii(0) => /\ Magnitude(Append(<<>>, byte)) # 0
                               /\ Counted("value_integer", Append(<<Minus>>, byte))
                               /\ Magnitude(Append(<<Minus>>, byte)) # 0
<1>1. PICK v \in 0 .. 9 : v = byte - Ascii(0)
  BY DigitIs
<1>2. byte = Ascii(v) /\ Minus \in Byte
  BY <1>1, DigitIs DEF Minus, Byte
<1>3. Magnitude(Append(<<>>, byte)) = v
  <2>1. <<>> \in Seq(Byte)
    OBVIOUS
  <2>2. Magnitude(Append(<<>>, byte)) = 10 * 0 + v
    BY <1>1, <2>1, DigitIs, MagnitudeEmpty, Zenon
  <2> QED
    BY <2>2
<1>4. Magnitude(Append(<<Minus>>, byte)) = v
  <2>1. <<>> \in Seq(Byte) /\ Append(<<>>, Minus) = <<Minus>> /\ <<Minus>> \in Seq(Byte)
    BY <1>2
  <2>2. Magnitude(<<Minus>>) = 0
    <3>1. Magnitude(Append(<<>>, Minus)) = Valued(Magnitude(<<>>), Minus)
      BY <1>2, <2>1, MagnitudeAppend
    <3> QED
      BY <2>1, <3>1, MagnitudeEmpty, Zenon DEF Valued
  <2>3. Magnitude(Append(<<Minus>>, byte)) = 10 * 0 + v
    BY <1>1, <2>1, <2>2, DigitIs, Zenon
  <2> QED
    BY <2>3
<1>5. Pairs[v] = <<byte>> /\ count_digits[v] = Len(<<byte>>)
  <2>1. v \in Nat /\ v < 100 /\ v < 10
    OBVIOUS
  <2>2. Pairs[v] = <<byte>>
    BY <1>2, <2>1, ShortPairs, Zenon
  <2>3. count_digits[v] = 1
    BY <2>1, CountIs
  <2> QED
    BY <2>2, <2>3
<1>6. v \in Nat /\ (byte # Ascii(0) => v # 0)
  BY <1>2
<1>7. Append(<<>>, byte) = <<byte>> /\ Append(<<Minus>>, byte) = <<Minus>> \o <<byte>>
  BY Spellings
<1> QED
  BY <1>3, <1>4, <1>5, <1>6, <1>7, Zenon DEF Counted

LEMMA NextDigit ==
  ASSUME NEW text \in Seq(Byte), NEW type, Counted(type, text), Magnitude(text) # 0,
         NEW byte \in Digit
  PROVE  Counted(type, Append(text, byte)) /\ Magnitude(Append(text, byte)) # 0
<1>1. PICK v \in 0 .. 9 : v = byte - Ascii(0)
  BY DigitIs
<1>2. PICK x \in Nat \ {0} : x = Magnitude(text)
  BY DEF Counted
<1>3. PICK d \in Seq(Byte) : d = Pairs[x]
  BY PairsType
<1>4. count_digits[x] = Len(d)
  BY <1>2, <1>3, Zenon DEF Counted
<1>5. \/ type = "value_unsigned" /\ text = d
      \/ type = "value_integer" /\ text = <<Minus>> \o d
  BY <1>2, <1>3, Zenon DEF Counted
<1>6. PICK y \in Nat \ {0} : y = 10 * x + v
  OBVIOUS
<1>7. Magnitude(Append(text, byte)) = y
  BY <1>1, <1>2, <1>6, DigitIs, Zenon
<1>8. PICK e : e = Append(d, byte)
  OBVIOUS
<1>9. Pairs[y] = e
  BY <1>1, <1>3, <1>6, <1>8, DigitIs, PairsMore
<1>10. count_digits[y] = Len(e)
  <2>1. byte \in Byte
    BY DigitIs
  <2>2. Len(e) = Len(d) + 1
    BY <1>8, <2>1
  <2> QED
    BY <1>4, <1>6, <2>2, CountMore
<1>11. \/ type = "value_unsigned" /\ Append(text, byte) = e
       \/ type = "value_integer" /\ Append(text, byte) = <<Minus>> \o e
  BY <1>5, <1>8, Spellings, Zenon
<1>12. y \in Nat /\ y # 0
  OBVIOUS
<1> QED
  BY <1>7, <1>9, <1>10, <1>11, <1>12, Zenon DEF Counted

LEMMA CountsStep ==
  ASSUME NEW label, NEW type, NEW text, Counts(label, type, text),
         NEW byte \in Byte, NEW to, to = Goto(label, byte), to \in NumberGoals
  PROVE  Counts(to, TypeAt(to, type), Append(text, byte))
<1>1. PICK longer : longer = Append(text, byte)
  OBVIOUS
<1>2. PICK next : next = TypeAt(to, type)
  OBVIOUS
<1>3. /\ text \in Seq(Byte) /\ type \in NumberTypes
      /\ Reaches(text, label) /\ \E m, i, j : SoFar(text, label, m, i, j)
  BY DEF Counts
<1>4. /\ label = "init" => type = "value_unsigned" /\ text = <<>>
      /\ label = "minus" => type = "value_integer" /\ text = <<Minus>>
      /\ label \in {"zero", "any1"} => type # "value_float"
      /\ label = "any1" => Counted(type, text) /\ Magnitude(text) # 0
      /\ label \in {"decimal1", "decimal2", "exponent", "sign", "any2"} => type = "value_float"
  BY DEF Counts
<1>5. longer \in Seq(Byte) /\ Reaches(longer, to)
  BY <1>1, <1>3, ReachesAppend
<1>6. \E m, i, j : SoFar(longer, to, m, i, j)
  BY <1>1, <1>3, SoFarStep
<1>7. next \in NumberTypes
  BY <1>2, <1>3, TypeStep DEF NumberTypes, NumberGoals
<1>8. to = "minus" => next = "value_integer" /\ longer = <<Minus>>
  <2>1. SUFFICES ASSUME to = "minus" PROVE next = "value_integer" /\ longer = <<Minus>>
    OBVIOUS
  <2>2. label = "init" /\ byte = Minus
    BY <2>1, GotoFrom, Zenon
  <2>3. Append(<<>>, Minus) = <<Minus>>
    BY <2>2
  <2> QED
    BY <1>1, <1>2, <1>4, <2>1, <2>2, <2>3, TypeStep
<1>9. to = "zero" => next # "value_float" /\ Spelled(next, longer)
  <2>1. SUFFICES ASSUME to = "zero" PROVE next # "value_float" /\ Spelled(next, longer)
    OBVIOUS
  <2>2. label \in {"init", "minus"} /\ byte = Ascii(0) /\ byte \in Digit /\ next = type
    <3>1. label \in {"init", "minus"} /\ byte = Ascii(0)
      BY <2>1, GotoFrom
    <3>2. next = type
      BY <1>2, <2>1, TypeStep
    <3> QED
      BY <3>1, <3>2, ZeroIsByte
  <2>3. CASE label = "init"
    BY <1>1, <1>4, <2>2, <2>3, FirstDigit DEF Spelled
  <2>4. CASE label = "minus"
    BY <1>1, <1>4, <2>2, <2>4, Spellings DEF Spelled
  <2> QED
    BY <2>2, <2>3, <2>4
<1>10. to = "any1" => next # "value_float" /\ Counted(next, longer) /\ Magnitude(longer) # 0
  <2>1. SUFFICES ASSUME to = "any1"
                 PROVE  next # "value_float" /\ Counted(next, longer) /\ Magnitude(longer) # 0
    OBVIOUS
  <2>2. /\ label \in {"init", "minus", "any1"} /\ byte \in Digit
        /\ byte = Ascii(0) => label = "any1"
        /\ next = type
    <3>1. label \in {"init", "minus", "any1"} /\ byte \in Digit /\ (byte = Ascii(0) => label = "any1")
      BY <2>1, GotoFrom
    <3>2. next = type
      BY <1>2, <2>1, TypeStep
    <3> QED
      BY <3>1, <3>2
  <2>3. CASE label = "init"
    BY <1>1, <1>4, <2>2, <2>3, FirstDigit
  <2>4. CASE label = "minus"
    BY <1>1, <1>4, <2>2, <2>4, FirstDigit
  <2>5. CASE label = "any1"
    BY <1>1, <1>3, <1>4, <2>2, <2>5, NextDigit
  <2> QED
    BY <2>2, <2>3, <2>4, <2>5
<1>11. to \in {"decimal1", "decimal2", "exponent", "sign", "any2"} => next = "value_float"
  <2>1. to \in {"decimal1", "exponent"} => next = "value_float"
    BY <1>2, TypeStep
  <2>2. to \in {"decimal2", "sign", "any2"} =>
          next = type /\ label \in {"decimal1", "decimal2", "exponent", "sign", "any2"}
    BY <1>2, TypeStep, GotoFrom
  <2> QED
    BY <1>4, <2>1, <2>2
<1>12. to # "init"
  BY DEF NumberGoals
<1> QED
  BY <1>1, <1>2, <1>5, <1>6, <1>7, <1>8, <1>9, <1>10, <1>11, <1>12, Zenon DEF Counts, Spelled

-----------------------------------------------------------------------------
(* The scanner in a number *)

Goals ==
  {"bom", "second of bom", "third of bom", "token", "literal"}
    \cup StringGoals \cup NumberGoals \cup TokenType

(* A scanner, field by field. *)
Scanner(goal, ranges, digits, high, type, rest, text) ==
  [goal |-> goal, ranges |-> ranges, digits |-> digits, high |-> high,
   return_type |-> type, rest |-> rest, token_buffer |-> text]

LEMMA ScannerOf ==
  ASSUME NEW t \in Lexer
  PROVE  /\ t = Scanner(t.goal, t.ranges, t.digits, t.high, t.return_type, t.rest, t.token_buffer)
         /\ t.goal \in Goals /\ t.ranges \in Seq({128, 144, 160} \X {143, 159, 191})
         /\ t.digits \in Seq(0 .. 15) /\ t.high \in HighSurrogates \cup {0}
         /\ t.return_type \in DOMAIN Literals \cup NumberTypes
         /\ t.rest \in Seq(Byte) /\ t.token_buffer \in Seq(Byte)
<1> DEFINE R == Seq({128, 144, 160} \X {143, 159, 191})
           D == Seq(0 .. 15)
           H == HighSurrogates \cup {0}
           Y == DOMAIN Literals \cup NumberTypes
           B == Seq(Byte)
<1>1. t \in [goal : Goals, ranges : R, digits : D, high : H, return_type : Y, rest : B,
              token_buffer : B]
  BY DEF Lexer, Goals, Byte
<1> HIDE DEF R, D, H, Y, B
<1>2. /\ t = [goal |-> t.goal, ranges |-> t.ranges, digits |-> t.digits, high |-> t.high,
              return_type |-> t.return_type, rest |-> t.rest, token_buffer |-> t.token_buffer]
      /\ t.goal \in Goals /\ t.ranges \in R /\ t.digits \in D /\ t.high \in H
      /\ t.return_type \in Y /\ t.rest \in B /\ t.token_buffer \in B
  BY <1>1
<1> QED
  BY <1>2, Zenon DEF Scanner, R, D, H, Y, B

LEMMA ScannerType ==
  ASSUME NEW goal \in Goals, NEW ranges \in Seq({128, 144, 160} \X {143, 159, 191}),
         NEW digits \in Seq(0 .. 15), NEW high \in HighSurrogates \cup {0},
         NEW type \in DOMAIN Literals \cup NumberTypes,
         NEW rest \in Seq(Byte), NEW text \in Seq(Byte)
  PROVE  Scanner(goal, ranges, digits, high, type, rest, text) \in Lexer
<1> DEFINE R == Seq({128, 144, 160} \X {143, 159, 191})
           D == Seq(0 .. 15)
           H == HighSurrogates \cup {0}
           Y == DOMAIN Literals \cup NumberTypes
           B == Seq(Byte)
<1>1. Lexer = [goal : Goals, ranges : R, digits : D, high : H, return_type : Y, rest : B,
               token_buffer : B]
  BY DEF Lexer, Goals, Byte
<1>2. ranges \in R /\ digits \in D /\ high \in H /\ type \in Y /\ rest \in B /\ text \in B
  OBVIOUS
<1> HIDE DEF R, D, H, Y, B
<1> QED
  BY <1>1, <1>2 DEF Scanner

LEMMA ScannerFields ==
  ASSUME NEW goal, NEW ranges, NEW digits, NEW high, NEW type, NEW rest, NEW text, NEW s,
         s = Scanner(goal, ranges, digits, high, type, rest, text)
  PROVE  /\ s.goal = goal /\ s.ranges = ranges /\ s.digits = digits /\ s.high = high
         /\ s.return_type = type /\ s.rest = rest /\ s.token_buffer = text
BY DEF Scanner

(* What is assigned together. *)
AtGoal(s, goal) == [s EXCEPT !.goal = goal]
WithText(s, goal, type, text) ==
  [s EXCEPT !.goal = goal, !.return_type = type, !.token_buffer = text]
WithRest(s, goal, type, rest) ==
  [s EXCEPT !.goal = goal, !.return_type = type, !.rest = rest]

LEMMA ScannerGoal ==
  ASSUME NEW goal, NEW ranges, NEW digits, NEW high, NEW type, NEW rest, NEW text, NEW s,
         s = Scanner(goal, ranges, digits, high, type, rest, text), NEW g
  PROVE  AtGoal(s, g) = Scanner(g, ranges, digits, high, type, rest, text)
<1>1. s = [goal |-> goal, ranges |-> ranges, digits |-> digits, high |-> high,
           return_type |-> type, rest |-> rest, token_buffer |-> text]
  BY DEF Scanner
<1>2. PICK u : u = [s EXCEPT !.goal = g]
  OBVIOUS
<1>3. /\ u.goal = g /\ u.ranges = ranges /\ u.digits = digits /\ u.high = high
      /\ u.return_type = type /\ u.rest = rest /\ u.token_buffer = text
  BY <1>1, <1>2
<1>4. u = [goal |-> u.goal, ranges |-> u.ranges, digits |-> u.digits, high |-> u.high,
           return_type |-> u.return_type, rest |-> u.rest, token_buffer |-> u.token_buffer]
  BY <1>1, <1>2
<1>5. u = Scanner(g, ranges, digits, high, type, rest, text)
  BY <1>3, <1>4 DEF Scanner
<1> QED
  BY <1>2, <1>5, Zenon DEF AtGoal

LEMMA ScannerText ==
  ASSUME NEW goal, NEW ranges, NEW digits, NEW high, NEW type, NEW rest, NEW text, NEW s,
         s = Scanner(goal, ranges, digits, high, type, rest, text), NEW g, NEW y, NEW x
  PROVE  WithText(s, g, y, x) = Scanner(g, ranges, digits, high, y, rest, x)
<1>1. s = [goal |-> goal, ranges |-> ranges, digits |-> digits, high |-> high,
           return_type |-> type, rest |-> rest, token_buffer |-> text]
  BY DEF Scanner
<1>2. PICK u : u = [s EXCEPT !.goal = g, !.return_type = y, !.token_buffer = x]
  OBVIOUS
<1>3. /\ u.goal = g /\ u.ranges = ranges /\ u.digits = digits /\ u.high = high
      /\ u.return_type = y /\ u.rest = rest /\ u.token_buffer = x
  BY <1>1, <1>2
<1>4. u = [goal |-> u.goal, ranges |-> u.ranges, digits |-> u.digits, high |-> u.high,
           return_type |-> u.return_type, rest |-> u.rest, token_buffer |-> u.token_buffer]
  BY <1>1, <1>2
<1>5. u = Scanner(g, ranges, digits, high, y, rest, x)
  BY <1>3, <1>4 DEF Scanner
<1> QED
  BY <1>2, <1>5, Zenon DEF WithText

LEMMA ScannerRest ==
  ASSUME NEW goal, NEW ranges, NEW digits, NEW high, NEW type, NEW rest, NEW text, NEW s,
         s = Scanner(goal, ranges, digits, high, type, rest, text), NEW g, NEW y, NEW r
  PROVE  WithRest(s, g, y, r) = Scanner(g, ranges, digits, high, y, r, text)
<1>1. s = [goal |-> goal, ranges |-> ranges, digits |-> digits, high |-> high,
           return_type |-> type, rest |-> rest, token_buffer |-> text]
  BY DEF Scanner
<1>2. PICK u : u = [s EXCEPT !.goal = g, !.return_type = y, !.rest = r]
  OBVIOUS
<1>3. /\ u.goal = g /\ u.ranges = ranges /\ u.digits = digits /\ u.high = high
      /\ u.return_type = y /\ u.rest = r /\ u.token_buffer = text
  BY <1>1, <1>2
<1>4. u = [goal |-> u.goal, ranges |-> u.ranges, digits |-> u.digits, high |-> u.high,
           return_type |-> u.return_type, rest |-> u.rest, token_buffer |-> u.token_buffer]
  BY <1>1, <1>2
<1>5. u = Scanner(g, ranges, digits, high, y, r, text)
  BY <1>3, <1>4 DEF Scanner
<1> QED
  BY <1>2, <1>5, Zenon DEF WithRest

LEMMA GoalKeeps ==
  ASSUME NEW t \in Lexer, NEW g, NEW goal \in Goals, NEW s, s = AtGoal(t, g),
         NEW u, u = AtGoal(s, goal)
  PROVE  /\ u \in Lexer /\ u.goal = goal /\ u.return_type = t.return_type
         /\ u.token_buffer = t.token_buffer /\ u.rest = t.rest
         /\ s.goal = g /\ s.return_type = t.return_type /\ s.token_buffer = t.token_buffer
<1>1. PICK f, ra, d, h, y, r, x :
        /\ f = t.goal /\ ra = t.ranges /\ d = t.digits /\ h = t.high
        /\ y = t.return_type /\ r = t.rest /\ x = t.token_buffer
  OBVIOUS
<1>2. /\ t = Scanner(f, ra, d, h, y, r, x)
      /\ ra \in Seq({128, 144, 160} \X {143, 159, 191})
      /\ d \in Seq(0 .. 15) /\ h \in HighSurrogates \cup {0}
      /\ y \in DOMAIN Literals \cup NumberTypes /\ r \in Seq(Byte) /\ x \in Seq(Byte)
  BY <1>1, ScannerOf
<1>3. s = Scanner(g, ra, d, h, y, r, x)
  BY <1>2, ScannerGoal
<1>4. u = Scanner(goal, ra, d, h, y, r, x)
  BY <1>3, ScannerGoal
<1>5. u \in Lexer
  BY <1>2, <1>4, ScannerType
<1>6. s.goal = g /\ s.return_type = y /\ s.token_buffer = x
  BY <1>3, ScannerFields
<1>7. u.goal = goal /\ u.return_type = y /\ u.token_buffer = x /\ u.rest = r
  BY <1>4, ScannerFields
<1> QED
  BY <1>1, <1>5, <1>6, <1>7

LEMMA NumberKeeps ==
  ASSUME NEW t \in Lexer, NEW g, NEW goal \in Goals, NEW s, s = AtGoal(t, g),
         NEW type \in NumberTypes, NEW text \in Seq(Byte), NEW u, u = WithText(s, goal, type, text)
  PROVE  u \in Lexer /\ u.goal = goal /\ u.return_type = type /\ u.token_buffer = text
<1>1. PICK f, ra, d, h, y, r, x :
        /\ f = t.goal /\ ra = t.ranges /\ d = t.digits /\ h = t.high
        /\ y = t.return_type /\ r = t.rest /\ x = t.token_buffer
  OBVIOUS
<1>2. /\ t = Scanner(f, ra, d, h, y, r, x)
      /\ ra \in Seq({128, 144, 160} \X {143, 159, 191})
      /\ d \in Seq(0 .. 15) /\ h \in HighSurrogates \cup {0} /\ r \in Seq(Byte)
  BY <1>1, ScannerOf
<1>3. s = Scanner(g, ra, d, h, y, r, x)
  BY <1>2, ScannerGoal
<1>4. u = Scanner(goal, ra, d, h, type, r, text)
  BY <1>3, ScannerText
<1>5. type \in DOMAIN Literals \cup NumberTypes
  OBVIOUS
<1>6. u \in Lexer
  BY <1>2, <1>4, <1>5, ScannerType
<1>7. u.goal = goal /\ u.return_type = type /\ u.token_buffer = text
  BY <1>4, ScannerFields
<1> QED
  BY <1>6, <1>7

LEMMA ConvertedType ==
  ASSUME NEW type \in NumberTypes, NEW text
  PROVE  /\ Converted(type, text).type \in NumberTypes
         /\ Converted(type, text).type # "value_float" => Converted(type, text).type = type
<1>1. PICK x : x = Magnitude(text)
  OBVIOUS
<1>2. PICK a, b, y : a = (x <= UnsignedMax) /\ b = (x <= IntegerMax + 1) /\ y = -x
  OBVIOUS
<1>3. Converted(type, text) =
        CASE type = "value_unsigned" /\ a -> [type |-> type, value |-> x]
          [] type = "value_integer" /\ b -> [type |-> type, value |-> y]
          [] OTHER -> [type |-> "value_float", value |-> 0]
  BY <1>1, <1>2, Zenon DEF Converted
<1> QED
  BY <1>3 DEF NumberTypes

(* The numbers of the scanner, and the rest of a literal. *)
NumberInv(s) ==
  /\ s.goal \in NumberGoals => Counts(s.goal, s.return_type, s.token_buffer)
  /\ s.goal \in {"value_unsigned", "value_integer"} =>
       /\ Spelled(s.return_type, s.token_buffer)
       /\ Converted(s.return_type, s.token_buffer).type = s.return_type
  /\ s.goal = "literal" => s.return_type \in DOMAIN Literals /\ s.rest # <<>>

LEMMA GotoAny ==
  ASSUME NEW from, NEW byte, NEW to, to = Goto(from, byte)
  PROVE  /\ to = "done" => from \in {"zero", "any1", "decimal2", "any2"}
         /\ to \in NumberGoals => byte \in {Minus, Point, Plus} \cup Digit \cup Exponent
         /\ to \in NumberGoals \cup {"done", "parse_error"}
<1>1. to \in NumberGoals \cup {"done", "parse_error"}
  BY DEF Goto, NumberGoals
<1>2. to = "done" => from \in {"zero", "any1", "decimal2", "any2"}
  BY DEF Goto, NumberGoals
<1>3. to \in NumberGoals => byte \in {Minus, Point, Plus} \cup Digit \cup Exponent
  BY ZeroIsByte DEF Goto, NumberGoals
<1> QED
  BY <1>1, <1>2, <1>3

LEMMA NumberByteKeeps ==
  ASSUME NEW t \in Lexer, NEW label \in NumberGoals \cup {"init"},
         NEW s, s = AtGoal(t, label), Counts(label, t.return_type, t.token_buffer),
         NEW byte \in Read
  PROVE  NumberByte(s, byte) \in Lexer /\ NumberInv(NumberByte(s, byte))
<1>1. PICK to : to = Goto(label, byte)
  OBVIOUS
<1>2. PICK type, text : type = t.return_type /\ text = t.token_buffer
  OBVIOUS
<1>3. s.goal = label /\ s.return_type = type /\ s.token_buffer = text
  <2>1. "parse_error" \in Goals
    BY DEF Goals, TokenType
  <2>2. PICK u : u = AtGoal(s, "parse_error")
    OBVIOUS
  <2> QED
    BY <1>2, <2>1, <2>2, GoalKeeps
<1>4. PICK c : c = Converted(type, text).type
  OBVIOUS
<1>5. Counts(label, type, text) /\ type \in NumberTypes /\ text \in Seq(Byte)
  BY <1>2 DEF Counts
<1>6. c \in NumberTypes /\ (c # "value_float" => c = type)
  BY <1>4, <1>5, ConvertedType
<1>7. CASE to = "done"
  <2>1. NumberByte(s, byte) = AtGoal(s, c)
    BY <1>1, <1>3, <1>4, <1>7, Zenon DEF NumberByte, AtGoal
  <2>2. PICK u : u = AtGoal(s, c)
    OBVIOUS
  <2>3. c \in Goals /\ c \notin NumberGoals /\ c # "literal"
    BY <1>6 DEF Goals, TokenType, NumberGoals, NumberTypes
  <2>4. u \in Lexer /\ u.goal = c /\ u.return_type = type /\ u.token_buffer = text
    BY <1>2, <2>2, <2>3, GoalKeeps
  <2>5. label \in {"zero", "any1", "decimal2", "any2"}
    BY <1>1, <1>7, GotoAny
  <2>6. c \in {"value_unsigned", "value_integer"} => c = type /\ Spelled(type, text)
    BY <1>5, <1>6, <2>5 DEF Counts
  <2>7. NumberInv(u)
    BY <1>4, <2>3, <2>4, <2>6, Zenon DEF NumberInv
  <2> QED
    BY <2>1, <2>2, <2>4, <2>7, Zenon
<1>8. CASE to = "parse_error"
  <2>1. NumberByte(s, byte) = AtGoal(s, to)
    BY <1>1, <1>3, <1>8 DEF NumberByte, AtGoal
  <2>2. PICK u : u = AtGoal(s, to)
    OBVIOUS
  <2>3. to \in Goals
    BY <1>8 DEF Goals, TokenType
  <2>4. u \in Lexer /\ u.goal = to
    BY <2>2, <2>3, GoalKeeps
  <2>5. NumberInv(u)
    BY <1>8, <2>4 DEF NumberInv, NumberGoals
  <2> QED
    BY <2>1, <2>2, <2>4, <2>5, Zenon
<1>9. CASE to \in NumberGoals
  <2>1. to # "done" /\ to # "parse_error"
    BY <1>9 DEF NumberGoals
  <2>2. byte \in Byte
    <3>1. byte \in {Minus, Point, Plus} \cup Digit \cup Exponent
      BY <1>1, <1>9, GotoAny
    <3> QED
      BY <3>1 DEF Minus, Point, Plus, Digit, Exponent, Ascii, Byte
  <2>3. PICK next, longer : next = TypeAt(to, type) /\ longer = Append(text, byte)
    OBVIOUS
  <2>4. NumberByte(s, byte) = WithText(s, to, next, longer)
    BY <1>1, <1>3, <2>1, <2>3, Zenon DEF NumberByte, WithText
  <2>5. Counts(to, next, longer)
    BY <1>1, <1>5, <1>9, <2>2, <2>3, CountsStep
  <2>6. next \in NumberTypes /\ longer \in Seq(Byte)
    BY <2>5, Zenon DEF Counts
  <2>7. PICK u : u = WithText(s, to, next, longer)
    OBVIOUS
  <2>8. to \in Goals
    BY <1>9, Zenon DEF Goals
  <2>9. u \in Lexer /\ u.goal = to /\ u.return_type = next /\ u.token_buffer = longer
    BY <2>6, <2>7, <2>8, NumberKeeps
  <2>10. to \notin {"value_unsigned", "value_integer"} /\ to # "literal"
    BY <1>9 DEF NumberGoals
  <2>11. NumberInv(u)
    BY <2>5, <2>9, <2>10, Zenon DEF NumberInv
  <2> QED
    BY <2>4, <2>7, <2>9, <2>11, Zenon
<1>10. to \in NumberGoals \cup {"done", "parse_error"}
  BY <1>1, GotoAny
<1> QED
  BY <1>7, <1>8, <1>9, <1>10

-----------------------------------------------------------------------------
(* The scanner before a token and in a literal *)

LEMMA GoalPlain ==
  ASSUME NEW t \in Lexer, NEW goal \in Goals, NEW u, u = AtGoal(t, goal)
  PROVE  /\ u \in Lexer /\ u.goal = goal /\ u.return_type = t.return_type
         /\ u.token_buffer = t.token_buffer /\ u.rest = t.rest
<1>1. PICK f, ra, d, h, y, r, x :
        /\ f = t.goal /\ ra = t.ranges /\ d = t.digits /\ h = t.high
        /\ y = t.return_type /\ r = t.rest /\ x = t.token_buffer
  OBVIOUS
<1>2. /\ t = Scanner(f, ra, d, h, y, r, x)
      /\ ra \in Seq({128, 144, 160} \X {143, 159, 191})
      /\ d \in Seq(0 .. 15) /\ h \in HighSurrogates \cup {0}
      /\ y \in DOMAIN Literals \cup NumberTypes /\ r \in Seq(Byte) /\ x \in Seq(Byte)
  BY <1>1, ScannerOf
<1>3. u = Scanner(goal, ra, d, h, y, r, x)
  BY <1>2, ScannerGoal
<1>4. u \in Lexer
  BY <1>2, <1>3, ScannerType
<1>5. u.goal = goal /\ u.return_type = y /\ u.token_buffer = x /\ u.rest = r
  BY <1>3, ScannerFields
<1> QED
  BY <1>1, <1>4, <1>5

(* Goals at which NumberInv says nothing. *)
Bare == Goals \ (NumberGoals \cup {"value_unsigned", "value_integer", "literal"})

LEMMA BareIs ==
  ASSUME NEW s, s.goal \in Bare
  PROVE  NumberInv(s)
BY DEF NumberInv, Bare

LEMMA BareKeeps ==
  ASSUME NEW t \in Lexer, NEW goal \in Bare
  PROVE  AtGoal(t, goal) \in Lexer /\ NumberInv(AtGoal(t, goal))
<1>1. goal \in Goals
  BY DEF Bare
<1>2. PICK u : u = AtGoal(t, goal)
  OBVIOUS
<1>3. u \in Lexer /\ u.goal = goal
  BY <1>1, <1>2, GoalPlain
<1> QED
  BY <1>2, <1>3, BareIs

LEMMA BareGoals ==
  /\ Outside \subseteq Bare /\ DOMAIN Structural \subseteq Bare
  /\ {"end_of_input", "parse_error", "char", "value_string"} \cup StringGoals \subseteq Bare
  /\ DOMAIN Literals \subseteq Bare
<1>1. Outside \subseteq Bare
  BY DEF Outside, Bare, Goals, NumberGoals
<1>2. DOMAIN Structural \subseteq Bare
  BY DEF Bare, Goals, NumberGoals, TokenType, Structural
<1>3. {"end_of_input", "parse_error", "char", "value_string"} \cup StringGoals \subseteq Bare
  BY DEF Bare, Goals, NumberGoals, TokenType, StringGoals
<1>4. DOMAIN Literals \subseteq Bare
  BY DEF Bare, Goals, NumberGoals, TokenType, Literals
<1> QED
  BY <1>1, <1>2, <1>3, <1>4

LEMMA BeforeIs ==
  ASSUME NEW goal \in Outside \cup {"char"}
  PROVE  Before(goal) \in Lexer /\ NumberInv(Before(goal)) /\ Before(goal).goal = goal
         /\ Before(goal).return_type = "value_unsigned" /\ Before(goal).token_buffer = <<>>
<1>1. PICK u : u = Before(goal)
  OBVIOUS
<1>2. u = Scanner(goal, <<>>, <<>>, 0, "value_unsigned", <<>>, <<>>)
  BY <1>1 DEF Before, Reads, Scanner
<1>3. goal \in Goals /\ goal \in Bare
  BY BareGoals DEF Bare
<1>4. /\ <<>> \in Seq({128, 144, 160} \X {143, 159, 191})
      /\ <<>> \in Seq(0 .. 15) /\ 0 \in HighSurrogates \cup {0}
      /\ "value_unsigned" \in DOMAIN Literals \cup NumberTypes /\ <<>> \in Seq(Byte)
  BY DEF NumberTypes
<1>5. u \in Lexer
  BY <1>2, <1>3, <1>4, ScannerType
<1>6. u.goal = goal /\ u.return_type = "value_unsigned" /\ u.token_buffer = <<>>
  BY <1>2, ScannerFields
<1> QED
  BY <1>1, <1>3, <1>5, <1>6, BareIs

LEMMA LiteralTails ==
  ASSUME NEW l \in DOMAIN Literals
  PROVE  Tail(Literals[l]) \in Seq(Byte) /\ Tail(Literals[l]) # <<>>
<1>1. l = "literal_true" \/ l = "literal_false" \/ l = "literal_null"
  BY DEF Literals
<1>2. PICK a, b, c : a = <<116, 114, 117, 101>> /\ b = <<102, 97, 108, 115, 101>>
                     /\ c = <<110, 117, 108, 108>>
  OBVIOUS
<1>3. PICK word : word = Literals[l]
  OBVIOUS
<1>4. word = a \/ word = b \/ word = c
  BY <1>1, <1>2, <1>3 DEF Literals
<1>5. /\ a \in Seq(Byte) /\ b \in Seq(Byte) /\ c \in Seq(Byte)
      /\ Len(a) > 1 /\ Len(b) > 1 /\ Len(c) > 1
  BY <1>2 DEF Byte
<1>6. word \in Seq(Byte) /\ Len(word) > 1
  BY <1>4, <1>5
<1>7. Tail(word) \in Seq(Byte) /\ Len(Tail(word)) = Len(word) - 1
  BY <1>6
<1>8. Tail(word) # <<>>
  <2>1. PICK t : t = Tail(word)
    OBVIOUS
  <2>2. Len(t) > 0
    BY <1>6, <1>7, <2>1
  <2>3. t # <<>>
    BY <2>2
  <2> QED
    BY <2>1, <2>3
<1> QED
  BY <1>3, <1>7, <1>8

LEMMA TokenKeeps ==
  ASSUME NEW g \in Outside, NEW byte \in Read, NEW s, s = Before(g)
  PROVE  Token(s, byte) \in Lexer /\ NumberInv(Token(s, byte))
<1>1. PICK white, opens, begins, digit, ends :
        /\ white = (byte \in WhiteSpace) /\ opens = (byte \in Range(Structural))
        /\ begins = (\E t \in DOMAIN Literals : Head(Literals[t]) = byte)
        /\ digit = (byte \in Digit \cup {Minus}) /\ ends = (byte \in {0, EndOfFile})
  OBVIOUS
<1>2. PICK structural : structural = CHOOSE t \in DOMAIN Structural : Structural[t] = byte
  OBVIOUS
<1>3. PICK literal : literal = CHOOSE l \in DOMAIN Literals : Head(Literals[l]) = byte
  OBVIOUS
<1>4. PICK a, b, c, d, e, f, r :
        /\ a = AtGoal(s, "token") /\ b = AtGoal(s, structural)
        /\ c = WithRest(s, "literal", literal, Tail(Literals[literal]))
        /\ d = [reset(s) EXCEPT !.goal = "char"]
        /\ e = NumberByte([reset(s) EXCEPT !.goal = "init", !.return_type = "value_unsigned"], byte)
        /\ f = AtGoal(s, "end_of_input") /\ r = AtGoal(s, "parse_error")
  OBVIOUS
<1>5. Token(s, byte) =
        CASE white -> a [] opens -> b [] begins -> c [] byte = Quote -> d [] digit -> e
          [] ends -> f [] OTHER -> r
  BY <1>1, <1>2, <1>3, <1>4, Zenon DEF Token, AtGoal, WithRest, Refused
<1>6. s \in Lexer /\ s.return_type = "value_unsigned" /\ s.token_buffer = <<>>
  BY BeforeIs
<1>7. {"token", "end_of_input", "parse_error"} \subseteq Bare
  BY BareGoals DEF Outside
<1>8. a \in Lexer /\ NumberInv(a) /\ f \in Lexer /\ NumberInv(f) /\ r \in Lexer /\ NumberInv(r)
  BY <1>4, <1>6, <1>7, BareKeeps
<1>9. opens => b \in Lexer /\ NumberInv(b)
  <2>1. SUFFICES ASSUME opens PROVE b \in Lexer /\ NumberInv(b)
    OBVIOUS
  <2>2. byte \in Range(Structural)
    BY <1>1, <2>1, Zenon
  <2>3. \E t \in DOMAIN Structural : Structural[t] = byte
    BY <2>2 DEF Range
  <2>4. structural \in DOMAIN Structural
    BY <1>2, <2>3, Zenon
  <2>5. structural \in Bare
    BY <2>4, BareGoals
  <2> QED
    BY <1>4, <1>6, <2>5, BareKeeps
<1>10. begins => c \in Lexer /\ NumberInv(c)
  <2>1. SUFFICES ASSUME begins PROVE c \in Lexer /\ NumberInv(c)
    OBVIOUS
  <2>2. literal \in DOMAIN Literals
    BY <1>1, <1>3, <2>1, Zenon
  <2>3. PICK rest : rest = Tail(Literals[literal])
    OBVIOUS
  <2>4. rest \in Seq(Byte) /\ rest # <<>>
    BY <2>2, <2>3, LiteralTails
  <2>5. s = Scanner(g, <<>>, <<>>, 0, "value_unsigned", <<>>, <<>>)
    BY DEF Before, Reads, Scanner
  <2>6. c = Scanner("literal", <<>>, <<>>, 0, literal, rest, <<>>)
    BY <1>4, <2>3, <2>5, ScannerRest
  <2>7. c \in Lexer
    <3>1. /\ <<>> \in Seq({128, 144, 160} \X {143, 159, 191})
          /\ <<>> \in Seq(0 .. 15) /\ 0 \in HighSurrogates \cup {0} /\ <<>> \in Seq(Byte)
          /\ literal \in DOMAIN Literals \cup NumberTypes
      BY <2>2
    <3>2. "literal" \in Goals
      BY DEF Goals
    <3> QED
      BY <2>4, <2>6, <3>1, <3>2, ScannerType
  <2>8. c.goal = "literal" /\ c.return_type = literal /\ c.rest = rest
    BY <2>6, ScannerFields
  <2>9. c.goal \notin NumberGoals /\ c.goal \notin {"value_unsigned", "value_integer"}
    BY <2>8 DEF NumberGoals
  <2> QED
    BY <2>2, <2>4, <2>7, <2>8, <2>9, Zenon DEF NumberInv
<1>11. d \in Lexer /\ NumberInv(d)
  <2>1. reset(s) = Before(g)
    BY DEF reset, Before, Reads
  <2>2. d = Before("char")
    BY <1>4, <2>1 DEF Before, Reads
  <2> QED
    BY <2>2, BeforeIs
<1>12. e \in Lexer /\ NumberInv(e)
  <2>1. reset(s) = s
    BY DEF reset, Before, Reads
  <2>2. PICK n : n = AtGoal(s, "init")
    OBVIOUS
  <2>3. [s EXCEPT !.goal = "init", !.return_type = "value_unsigned"] = n
    <3>1. PICK m : m = [s EXCEPT !.goal = "init", !.return_type = "value_unsigned"]
      OBVIOUS
    <3>2. s = Scanner(g, <<>>, <<>>, 0, "value_unsigned", <<>>, <<>>)
      BY DEF Before, Reads, Scanner
    <3>3. n = Scanner("init", <<>>, <<>>, 0, "value_unsigned", <<>>, <<>>)
      BY <2>2, <3>2, ScannerGoal
    <3>4. /\ m.goal = "init" /\ m.ranges = <<>> /\ m.digits = <<>> /\ m.high = 0
          /\ m.return_type = "value_unsigned" /\ m.rest = <<>> /\ m.token_buffer = <<>>
      BY <3>1, <3>2 DEF Scanner
    <3>5. m = [goal |-> m.goal, ranges |-> m.ranges, digits |-> m.digits, high |-> m.high,
               return_type |-> m.return_type, rest |-> m.rest, token_buffer |-> m.token_buffer]
      BY <3>1, <3>2 DEF Scanner
    <3>6. m = n
      BY <3>3, <3>4, <3>5, Zenon DEF Scanner
    <3> QED
      BY <3>1, <3>6, Zenon
  <2>4. Counts("init", s.return_type, s.token_buffer)
    BY <1>6, CountsInit
  <2>5. NumberByte(n, byte) \in Lexer /\ NumberInv(NumberByte(n, byte))
    BY <1>6, <2>2, <2>4, NumberByteKeeps
  <2> QED
    BY <1>4, <2>1, <2>3, <2>5, Zenon
<1> QED
  <2>1. white \in BOOLEAN /\ opens \in BOOLEAN /\ begins \in BOOLEAN /\ digit \in BOOLEAN
        /\ ends \in BOOLEAN
    BY <1>1
  <2>2. PICK q : q = (byte = Quote)
    OBVIOUS
  <2>3. Token(s, byte) =
          CASE white -> a [] opens -> b [] begins -> c [] q -> d [] digit -> e
            [] ends -> f [] OTHER -> r
    BY <1>5, <2>2
  <2>4. \/ Token(s, byte) = a
        \/ opens /\ Token(s, byte) = b
        \/ begins /\ Token(s, byte) = c
        \/ Token(s, byte) \in {d, e, f, r}
    BY <2>1, <2>3
  <2> QED
    BY <1>8, <1>9, <1>10, <1>11, <1>12, <2>4

(* Another byte of a literal. *)
LEMMA LiteralKeeps ==
  ASSUME NEW s \in Lexer, NumberInv(s), s.goal = "literal", NEW byte
  PROVE  scan_literal(s, byte) \in Lexer /\ NumberInv(scan_literal(s, byte))
<1>1. PICK ra, d, h, y, r, x :
        /\ ra = s.ranges /\ d = s.digits /\ h = s.high
        /\ y = s.return_type /\ r = s.rest /\ x = s.token_buffer
  OBVIOUS
<1>2. PICK g : g = s.goal
  OBVIOUS
<1>3. /\ s = Scanner(g, ra, d, h, y, r, x)
      /\ ra \in Seq({128, 144, 160} \X {143, 159, 191})
      /\ d \in Seq(0 .. 15) /\ h \in HighSurrogates \cup {0}
      /\ y \in DOMAIN Literals \cup NumberTypes /\ r \in Seq(Byte) /\ x \in Seq(Byte)
  BY <1>1, <1>2, ScannerOf
<1>4. y \in DOMAIN Literals /\ r # <<>>
  BY <1>1 DEF NumberInv
<1>5. CASE byte # Head(s.rest)
  <2>1. scan_literal(s, byte) = AtGoal(s, "parse_error")
    BY <1>5, Zenon DEF scan_literal, Refused, AtGoal
  <2>2. "parse_error" \in Bare
    BY BareGoals
  <2> QED
    BY <2>1, <2>2, BareKeeps
<1>6. CASE byte = Head(s.rest)
  <2>1. PICK last, rest : last = (Len(r) = 1) /\ rest = Tail(r)
    OBVIOUS
  <2>2. PICK goal : goal = IF last THEN y ELSE g
    OBVIOUS
  <2>3. PICK u : u = [s EXCEPT !.rest = rest, !.goal = goal]
    OBVIOUS
  <2>4. scan_literal(s, byte) = u
    BY <1>1, <1>2, <1>6, <2>1, <2>2, <2>3, Zenon DEF scan_literal
  <2>5. u = Scanner(goal, ra, d, h, y, rest, x)
    <3>1. s = [goal |-> g, ranges |-> ra, digits |-> d, high |-> h, return_type |-> y,
               rest |-> r, token_buffer |-> x]
      BY <1>3, Zenon DEF Scanner
    <3>2. /\ u.goal = goal /\ u.ranges = ra /\ u.digits = d /\ u.high = h
          /\ u.return_type = y /\ u.rest = rest /\ u.token_buffer = x
      BY <2>3, <3>1
    <3>3. u = [goal |-> u.goal, ranges |-> u.ranges, digits |-> u.digits, high |-> u.high,
               return_type |-> u.return_type, rest |-> u.rest, token_buffer |-> u.token_buffer]
      BY <2>3, <3>1
    <3> QED
      BY <3>2, <3>3, Zenon DEF Scanner
  <2>6. rest \in Seq(Byte) /\ (~last => rest # <<>>)
    <3>1. PICK n : n = Len(r)
      OBVIOUS
    <3>2. rest \in Seq(Byte) /\ Len(rest) = n - 1 /\ n \in Nat /\ n # 0
      BY <1>3, <1>4, <2>1, <3>1
    <3>3. last \/ n # 1
      BY <2>1, <3>1
    <3>4. last \/ Len(rest) > 0
      BY <3>2, <3>3
    <3>5. Len(rest) > 0 => rest # <<>>
      OBVIOUS
    <3> QED
      BY <3>2, <3>4, <3>5
  <2>7. goal \in Goals
    BY <1>2, <1>4, <2>2, BareGoals DEF Goals, Bare
  <2>8. u \in Lexer
    BY <1>3, <2>5, <2>6, <2>7, ScannerType
  <2>9. u.goal = goal /\ u.return_type = y /\ u.rest = rest
    BY <2>5, ScannerFields
  <2>10. CASE last
    <3>1. goal \in Bare
      BY <1>4, <2>2, <2>10, BareGoals
    <3> QED
      BY <2>4, <2>8, <2>9, <3>1, BareIs
  <2>11. CASE ~last
    <3>1. goal = "literal"
      BY <1>2, <2>2, <2>11
    <3>2. goal \notin NumberGoals /\ goal \notin {"value_unsigned", "value_integer"}
      BY <3>1 DEF NumberGoals
    <3> QED
      BY <1>4, <2>4, <2>6, <2>8, <2>9, <2>11, <3>1, <3>2, Zenon DEF NumberInv
  <2> QED
    BY <2>10, <2>11
<1> QED
  BY <1>5, <1>6

-----------------------------------------------------------------------------
(* The scanner in a string, its types *)

(* What scan_string does not refuse, it reads on or ends. *)
StringResult(u) == u.goal \in StringGoals \cup {"value_string"}

LEMMA ResultOf ==
  ASSUME NEW s \in Lexer, NEW bytes
  PROVE  /\ \A goal \in StringGoals \cup {"value_string"} : StringResult([s EXCEPT !.goal = goal])
         /\ StringResult(Added(s, bytes))
         /\ \A goal \in StringGoals : \A ranges :
              StringResult([Added(s, bytes) EXCEPT !.goal = goal, !.ranges = ranges])
         /\ \A goal \in StringGoals : \A ranges :
              StringResult([Added(s, bytes) EXCEPT !.ranges = ranges, !.goal = goal])
         /\ \A goal \in StringGoals : \A high :
              StringResult([s EXCEPT !.high = high, !.goal = goal])
         /\ \A digits : s.goal = "hex" => StringResult([s EXCEPT !.digits = digits])
<1>1. DOMAIN s = {"goal", "ranges", "digits", "high", "return_type", "rest", "token_buffer"}
  BY DEF Lexer
<1>2. \A goal \in StringGoals \cup {"value_string"} : StringResult([s EXCEPT !.goal = goal])
  BY <1>1 DEF StringResult
<1>3. PICK u, text : text = s.token_buffer \o bytes
                     /\ u = [s EXCEPT !.goal = "char", !.token_buffer = text]
  OBVIOUS
<1>4. Added(s, bytes) = u
  BY <1>3, Zenon DEF Added
<1>5. u.goal = "char" /\ "goal" \in DOMAIN u
  BY <1>1, <1>3
<1>6. StringResult(u)
  BY <1>5 DEF StringResult, StringGoals
<1>7. ASSUME NEW goal \in StringGoals, NEW ranges
      PROVE  /\ StringResult([u EXCEPT !.goal = goal, !.ranges = ranges])
             /\ StringResult([u EXCEPT !.ranges = ranges, !.goal = goal])
  BY <1>5 DEF StringResult
<1>8. \A goal \in StringGoals : \A high : StringResult([s EXCEPT !.high = high, !.goal = goal])
  BY <1>1 DEF StringResult
<1>9. \A digits : s.goal = "hex" => StringResult([s EXCEPT !.digits = digits])
  BY <1>1 DEF StringResult, StringGoals
<1> QED
  BY <1>2, <1>4, <1>6, <1>7, <1>8, <1>9, Zenon

LEMMA FieldKeeps ==
  ASSUME NEW t \in Lexer
  PROVE  [t EXCEPT !.digits = <<>>] \in Lexer /\ [t EXCEPT !.high = 0] \in Lexer
<1> DEFINE R == Seq({128, 144, 160} \X {143, 159, 191})
           D == Seq(0 .. 15)
           H == HighSurrogates \cup {0}
           Y == DOMAIN Literals \cup NumberTypes
           B == Seq(Byte)
<1>1. Lexer = [goal : Goals, ranges : R, digits : D, high : H, return_type : Y, rest : B,
               token_buffer : B]
  BY DEF Lexer, Goals, Byte
<1>2. <<>> \in D /\ 0 \in H
  OBVIOUS
<1> HIDE DEF R, D, H, Y, B
<1> QED
  BY <1>1, <1>2

(* A code point of an escape is added, or awaits its other half, or not. *)
LEMMA UnicodeResult ==
  ASSUME NEW s \in Lexer, NEW cp
  PROVE  Unicode(s, cp) = Refused(s) \/ StringResult(Unicode(s, cp))
<1>1. PICK bytes, both : bytes = Encoded(cp) /\ both = Encoded(Combined(s.high, cp))
  OBVIOUS
<1>2. PICK alone, a, b, c :
        /\ alone = [s EXCEPT !.high = 0] /\ a = Added(alone, both)
        /\ b = [s EXCEPT !.high = cp, !.goal = "second backslash"] /\ c = Added(s, bytes)
  OBVIOUS
<1>3. alone \in Lexer
  BY <1>2, FieldKeeps
<1>4. StringResult(a) /\ StringResult(c)
  BY <1>2, <1>3, ResultOf, Zenon
<1>5. StringResult(b)
  <2>1. "second backslash" \in StringGoals
    BY DEF StringGoals
  <2> QED
    BY <1>2, <2>1, ResultOf, Zenon
<1>6. PICK leads, trails : leads = (cp \in HighSurrogates) /\ trails = (cp \in LowSurrogates)
  OBVIOUS
<1>7. Unpaired(s, cp, LowSurrogates) = CASE leads -> b [] trails -> Refused(s) [] OTHER -> c
  BY <1>1, <1>2, <1>6, Zenon DEF Unpaired
<1>8. Paired(s, cp) = IF trails THEN a ELSE Refused(s)
  BY <1>1, <1>2, <1>6, Zenon DEF Paired
<1>9. Unpaired(s, cp, LowSurrogates) \in {b, Refused(s), c}
  <2>1. leads \in BOOLEAN /\ trails \in BOOLEAN
    BY <1>6
  <2> QED
    BY <1>7, <2>1
<1>10. Paired(s, cp) \in {a, Refused(s)}
  BY <1>8
<1> QED
  BY <1>4, <1>5, <1>9, <1>10, Zenon DEF Unicode

LEMMA StringScan ==
  ASSUME NEW s \in Lexer, s.goal \in StringGoals, NEW byte
  PROVE  \/ Scan(s, byte) = Refused(s)
         \/ Scan(s, byte) = Refused([s EXCEPT !.digits = <<>>])
         \/ StringResult(Scan(s, byte))
<1>1. PICK t : t = [s EXCEPT !.digits = <<>>]
  OBVIOUS
<1>2. t \in Lexer
  BY <1>1, FieldKeeps
<1>3. CASE s.goal = "char"
  <2>1. PICK bytes, ranges : bytes = <<byte>> /\ ranges = Ranges(byte)
    OBVIOUS
  <2>2. PICK a, b, c, d :
          /\ a = [s EXCEPT !.goal = "value_string"] /\ b = [s EXCEPT !.goal = "escape"]
          /\ c = Added(s, bytes)
          /\ d = [Added(s, bytes) EXCEPT !.goal = "range", !.ranges = ranges]
    OBVIOUS
  <2>3. PICK quote, backslash, plain, first :
          /\ quote = (byte = Quote) /\ backslash = (byte = Backslash)
          /\ plain = (byte \in (32 .. 127) \ {Quote, Backslash}) /\ first = (ranges # <<>>)
    OBVIOUS
  <2>4. Char(s, byte) = CASE quote -> a [] backslash -> b [] plain -> c [] first -> d
                          [] OTHER -> Refused(s)
    BY <2>1, <2>2, <2>3, Zenon DEF Char
  <2>5. quote \in BOOLEAN /\ backslash \in BOOLEAN /\ plain \in BOOLEAN /\ first \in BOOLEAN
    BY <2>3
  <2>6. Char(s, byte) \in {a, b, c, d, Refused(s)}
    BY <2>4, <2>5
  <2>7. "escape" \in StringGoals /\ "range" \in StringGoals
    BY DEF StringGoals
  <2>8. StringResult(a) /\ StringResult(b) /\ StringResult(c) /\ StringResult(d)
    BY <2>2, <2>7, ResultOf, Zenon
  <2> QED
    BY <1>3, <2>6, <2>8, ScanIs, Zenon
<1>4. CASE s.goal = "range"
  <2>1. PICK bytes, ranges, goal :
          /\ bytes = <<byte>> /\ ranges = Tail(Added(s, bytes).ranges)
          /\ goal = IF Len(s.ranges) > 1 THEN "range" ELSE "char"
    OBVIOUS
  <2>2. InRange(s, byte) \in {[Added(s, bytes) EXCEPT !.ranges = ranges, !.goal = goal], Refused(s)}
    BY <2>1, Zenon DEF InRange
  <2>3. goal \in StringGoals
    BY <2>1 DEF StringGoals
  <2>4. StringResult([Added(s, bytes) EXCEPT !.ranges = ranges, !.goal = goal])
    BY <2>3, ResultOf, Zenon
  <2> QED
    BY <1>4, <2>2, <2>4, ScanIs, Zenon
<1>5. CASE s.goal = "escape"
  <2>1. PICK bytes : bytes = <<(CHOOSE e \in Escapes : e[1] = byte)[2]>>
    OBVIOUS
  <2>2. Escape(s, byte) \in {[s EXCEPT !.goal = "hex"], Added(s, bytes), Refused(s)}
    BY <2>1, Zenon DEF Escape
  <2>3. "hex" \in StringGoals
    BY DEF StringGoals
  <2>4. StringResult([s EXCEPT !.goal = "hex"]) /\ StringResult(Added(s, bytes))
    BY <2>3, ResultOf, Zenon
  <2> QED
    BY <1>5, <2>2, <2>4, ScanIs, Zenon
<1>6. CASE s.goal = "hex"
  <2>1. PICK value : value = HexValue(byte)
    OBVIOUS
  <2>2. PICK digits : digits = Append(s.digits, value)
    OBVIOUS
  <2>3. PICK cp : cp = 4096 * digits[1] + 256 * digits[2] + 16 * digits[3] + digits[4]
    OBVIOUS
  <2>4. Hex(s, byte) =
          IF value = 16 THEN Refused(s)
          ELSE IF Len(digits) < 4 THEN [s EXCEPT !.digits = digits]
          ELSE Unicode([s EXCEPT !.digits = <<>>],
                       4096 * digits[1] + 256 * digits[2] + 16 * digits[3] + digits[4])
    BY <2>1, <2>2, SMTT(30) DEF Hex
  <2>5. Hex(s, byte) \in {Refused(s), [s EXCEPT !.digits = digits], Unicode(t, cp)}
    BY <1>1, <2>3, <2>4
  <2>6. StringResult([s EXCEPT !.digits = digits])
    BY <1>6, ResultOf, Zenon
  <2>7. Unicode(t, cp) = Refused(t) \/ StringResult(Unicode(t, cp))
    BY <1>2, UnicodeResult
  <2> QED
    BY <1>1, <1>6, <2>5, <2>6, <2>7, ScanIs, Zenon
<1>7. CASE s.goal = "second backslash"
  <2>1. Scan(s, byte) = Scanned(s, byte)
    BY <1>7, SecondScan
  <2>2. PICK a : a = [s EXCEPT !.goal = "second u"]
    OBVIOUS
  <2>3. Scanned(s, byte) = IF byte = Backslash THEN a ELSE Refused(s)
    BY <1>7, <2>2 DEF Scanned
  <2>4. "second u" \in StringGoals
    BY DEF StringGoals
  <2>5. StringResult(a)
    BY <2>2, <2>4, ResultOf, Zenon
  <2> QED
    BY <2>1, <2>3, <2>5, Zenon
<1>8. CASE s.goal = "second u"
  <2>1. Scan(s, byte) = Scanned(s, byte)
    BY <1>8, SecondScan
  <2>2. PICK a : a = [s EXCEPT !.goal = "hex"]
    OBVIOUS
  <2>3. Scanned(s, byte) = IF byte = 117 THEN a ELSE Refused(s)
    BY <1>8, <2>2 DEF Scanned
  <2>4. "hex" \in StringGoals
    BY DEF StringGoals
  <2>5. StringResult(a)
    BY <2>2, <2>4, ResultOf, Zenon
  <2> QED
    BY <2>1, <2>3, <2>5
<1> QED
  BY <1>3, <1>4, <1>5, <1>6, <1>7, <1>8 DEF StringGoals

(* The forms of StringInv are of Lexer. *)
LEMMA FormTyped ==
  ASSUME NEW s, StringInv(s), StringResult(s)
  PROVE  s \in Lexer /\ NumberInv(s)
<1>1. s.goal \in Bare
  BY BareGoals DEF StringResult
<1>2. ASSUME NEW goal, NEW state \in {0} \cup Inside, NEW digits \in Seq(0 .. 15),
             NEW high \in HighSurrogates \cup {0}, NEW text \in Seq(Byte),
             s = Reads(goal, RangesAt(state), digits, high, text)
      PROVE  s \in Lexer
  <2>1. s = Scanner(goal, RangesAt(state), digits, high, "value_unsigned", <<>>, text)
    BY <1>2, Zenon DEF Reads, Scanner
  <2>2. s.goal = goal
    BY <2>1, ScannerFields
  <2>3. goal \in Goals
    BY <1>1, <2>2 DEF Bare
  <2>4. RangesAt(state) \in Seq({128, 144, 160} \X {143, 159, 191})
    <3>1. PICK a, b, c, d :
            a = <<160, 191>> /\ b = <<128, 159>> /\ c = <<144, 191>> /\ d = <<128, 143>>
      OBVIOUS
    <3>2. PICK S : S = {128, 144, 160} \X {143, 159, 191}
      OBVIOUS
    <3>3. Trailing \in S /\ a \in S /\ b \in S /\ c \in S /\ d \in S
      BY <3>1, <3>2 DEF Trailing
    <3>4. PICK e : e = Trailing
      OBVIOUS
    <3>5. /\ RangesAt(0) = <<>> /\ RangesAt(2) = <<e>> /\ RangesAt(3) = <<e, e>>
          /\ RangesAt(4) = <<a, e>> /\ RangesAt(5) = <<b, e>> /\ RangesAt(6) = <<c, e, e>>
          /\ RangesAt(7) = <<e, e, e>> /\ RangesAt(8) = <<d, e, e>>
      BY <3>1, <3>4, RangesOfState, Zenon
    <3>6. state \in {0, 2, 3, 4, 5, 6, 7, 8}
      BY SMT DEF Inside
    <3>7. \A x \in S : \A y \in S : \A z \in S :
            <<>> \in Seq(S) /\ <<x>> \in Seq(S) /\ <<x, y>> \in Seq(S) /\ <<x, y, z>> \in Seq(S)
      OBVIOUS
    <3>8. /\ RangesAt(0) \in Seq(S) /\ RangesAt(2) \in Seq(S) /\ RangesAt(3) \in Seq(S)
          /\ RangesAt(4) \in Seq(S) /\ RangesAt(5) \in Seq(S) /\ RangesAt(6) \in Seq(S)
          /\ RangesAt(7) \in Seq(S) /\ RangesAt(8) \in Seq(S)
      BY <3>3, <3>4, <3>5, <3>7, Zenon
    <3>9. RangesAt(state) \in Seq(S)
      BY <3>6, <3>8
    <3> QED
      BY <3>2, <3>9, Zenon
  <2>5. "value_unsigned" \in DOMAIN Literals \cup NumberTypes /\ <<>> \in Seq(Byte)
    BY DEF NumberTypes
  <2> QED
    BY <2>1, <2>3, <2>4, <2>5, ScannerType
<1>3. RangesAt(0) = <<>> /\ <<>> \in Seq(0 .. 15) /\ 0 \in {0} \cup Inside
  BY RangesOfState
<1>4. ASSUME InText(s) PROVE s \in Lexer
  <2>1. PICK text, state : Good(text, state) /\ s = Between(state, text)
    BY <1>4, Zenon DEF InText
  <2>2. text \in Seq(Byte) /\ state \in {0} \cup Inside
    BY <2>1, GoodState
  <2> QED
    BY <1>2, <1>3, <2>1, <2>2 DEF Between
<1>5. ASSUME InEscape(s) PROVE s \in Lexer
  <2>1. PICK text : Good(text, 0) /\ s = Reads("escape", <<>>, <<>>, 0, text)
    BY <1>5, Zenon DEF InEscape
  <2>2. text \in Seq(Byte)
    BY <2>1, GoodState
  <2> QED
    BY <1>2, <1>3, <2>1, <2>2
<1>6. ASSUME InHex(s) PROVE s \in Lexer
  <2>1. PICK text, digits, high :
          /\ Good(text, 0) /\ digits \in Seq(0 .. 15) /\ high \in HighSurrogates \cup {0}
          /\ s = Reads("hex", <<>>, digits, high, text)
    BY <1>6, Zenon DEF InHex
  <2>2. text \in Seq(Byte)
    BY <2>1, GoodState
  <2> QED
    BY <1>2, <1>3, <2>1, <2>2
<1>7. ASSUME InPair(s) PROVE s \in Lexer
  <2>1. PICK text, high, goal :
          /\ Good(text, 0) /\ high \in HighSurrogates
          /\ s = Reads(goal, <<>>, <<>>, high, text)
    BY <1>7, Zenon DEF InPair
  <2>2. text \in Seq(Byte)
    BY <2>1, GoodState
  <2> QED
    BY <1>2, <1>3, <2>1, <2>2
<1>8. ASSUME Ended(s) PROVE s \in Lexer
  <2>1. PICK text : Good(text, 0) /\ s = Reads("value_string", <<>>, <<>>, 0, text)
    BY <1>8, Zenon DEF Ended
  <2>2. text \in Seq(Byte)
    BY <2>1, GoodState
  <2> QED
    BY <1>2, <1>3, <2>1, <2>2
<1>9. ASSUME Elsewhere(s) PROVE FALSE
  BY <1>9 DEF StringResult, StringGoals, Elsewhere, OtherTokens, NumberGoals, NumberTypes,
             Structural, Literals
<1>10. ASSUME NEW goal \in Outside, s = Before(goal) PROVE s \in Lexer
  BY <1>10, BeforeIs
<1> QED
  BY <1>1, <1>4, <1>5, <1>6, <1>7, <1>8, <1>9, <1>10, BareIs, Zenon DEF StringInv

-----------------------------------------------------------------------------
(* One byte of the scanner, its types *)

LEMMA OutsideTyped ==
  ASSUME NEW goal \in Outside, NEW s, s = Before(goal), NEW byte \in Read
  PROVE  Scan(s, byte) \in Lexer /\ NumberInv(Scan(s, byte))
<1>1. s \in Lexer /\ s.goal = goal
  BY BeforeIs
<1>2. Token(s, byte) \in Lexer /\ NumberInv(Token(s, byte))
  BY TokenKeeps
<1>3. ASSUME NEW next \in Outside \cup {"parse_error"}
      PROVE  [s EXCEPT !.goal = next] \in Lexer /\ NumberInv([s EXCEPT !.goal = next])
  <2>1. next \in Bare
    BY BareGoals
  <2>2. AtGoal(s, next) \in Lexer /\ NumberInv(AtGoal(s, next))
    BY <1>1, <2>1, BareKeeps
  <2> QED
    BY <2>2, Zenon DEF AtGoal
<1>4. PICK a, b, c, r :
        /\ a = [s EXCEPT !.goal = "second of bom"] /\ b = [s EXCEPT !.goal = "third of bom"]
        /\ c = [s EXCEPT !.goal = "token"] /\ r = [s EXCEPT !.goal = "parse_error"]
  OBVIOUS
<1>5. \A t \in {a, b, c, r} : t \in Lexer /\ NumberInv(t)
  <2>1. {"second of bom", "third of bom", "token"} \subseteq Outside
    BY DEF Outside
  <2>2. /\ a \in Lexer /\ NumberInv(a) /\ b \in Lexer /\ NumberInv(b)
        /\ c \in Lexer /\ NumberInv(c) /\ r \in Lexer /\ NumberInv(r)
    BY <1>3, <1>4, <2>1
  <2> QED
    BY <2>2
<1>6. CASE goal = "bom"
  <2>1. Scan(s, byte) = FirstByte(s, byte)
    BY <1>1, <1>6, OutsideScan, Zenon
  <2>2. \/ FirstByte(s, byte) = a
        \/ FirstByte(s, byte) = Token(s, byte)
    BY <1>4, Zenon DEF FirstByte
  <2> QED
    BY <1>2, <1>5, <2>1, <2>2
<1>7. CASE goal = "second of bom"
  <2>1. Scan(s, byte) = BomByte(s, byte, 187, "third of bom")
    BY <1>1, <1>7, OutsideScan, Zenon
  <2>2. \/ BomByte(s, byte, 187, "third of bom") = b
        \/ BomByte(s, byte, 187, "third of bom") = r
    BY <1>4, Zenon DEF BomByte, Refused
  <2> QED
    BY <1>5, <2>1, <2>2
<1>8. CASE goal = "third of bom"
  <2>1. Scan(s, byte) = BomByte(s, byte, 191, "token")
    BY <1>1, <1>8, OutsideScan, Zenon
  <2>2. \/ BomByte(s, byte, 191, "token") = c
        \/ BomByte(s, byte, 191, "token") = r
    BY <1>4, Zenon DEF BomByte, Refused
  <2> QED
    BY <1>5, <2>1, <2>2
<1>9. CASE goal = "token"
  <2>1. Scan(s, byte) = Token(s, byte)
    BY <1>1, <1>9, OutsideScan, Zenon
  <2> QED
    BY <1>2, <2>1, Zenon
<1> QED
  BY <1>6, <1>7, <1>8, <1>9 DEF Outside

LEMMA StringTyped ==
  ASSUME NEW s \in Lexer, StringInv(s), s.goal \in StringGoals, NEW byte \in Read
  PROVE  Scan(s, byte) \in Lexer /\ NumberInv(Scan(s, byte))
<1>1. "parse_error" \in Bare
  BY BareGoals
<1>2. \A t \in Lexer : Refused(t) \in Lexer /\ NumberInv(Refused(t))
  BY <1>1, BareKeeps, Zenon DEF Refused, AtGoal
<1>3. CASE StringResult(Scan(s, byte))
  <2>1. s.goal \notin TokenType
    BY DEF StringGoals, TokenType, Structural, Literals, NumberTypes
  <2>2. StringInv(Scan(s, byte))
    BY <2>1, ScanKeeps
  <2> QED
    BY <1>3, <2>2, FormTyped
<1>4. [s EXCEPT !.digits = <<>>] \in Lexer
  BY FieldKeeps
<1> QED
  BY <1>2, <1>3, <1>4, StringScan, Zenon

LEMMA SameGoal ==
  ASSUME NEW s \in Lexer, NEW g, g = s.goal
  PROVE  s = AtGoal(s, g)
<1>1. PICK ra, d, h, y, r, x :
        /\ ra = s.ranges /\ d = s.digits /\ h = s.high
        /\ y = s.return_type /\ r = s.rest /\ x = s.token_buffer
  OBVIOUS
<1>2. s = Scanner(g, ra, d, h, y, r, x)
  BY <1>1, ScannerOf
<1>3. AtGoal(s, g) = Scanner(g, ra, d, h, y, r, x)
  BY <1>2, ScannerGoal
<1> QED
  BY <1>2, <1>3, Zenon

(* Where the scanner can be while it has no token. *)
LEMMA Unfinished ==
  ASSUME NEW s, StringInv(s), s.goal \notin TokenType
  PROVE  \/ \E goal \in Outside : s = Before(goal)
         \/ s.goal \in StringGoals \cup NumberGoals \cup {"literal"}
<1>1. ASSUME InText(s) PROVE s.goal \in StringGoals
  <2>1. PICK text, state : s = Between(state, text)
    BY <1>1 DEF InText
  <2>2. s.goal = "char" \/ s.goal = "range"
    BY <2>1 DEF Between, Reads
  <2> QED
    BY <2>2 DEF StringGoals
<1>2. ASSUME InEscape(s) PROVE s.goal \in StringGoals
  <2>1. PICK text : s = Reads("escape", <<>>, <<>>, 0, text)
    BY <1>2 DEF InEscape
  <2> QED
    BY <2>1 DEF Reads, StringGoals
<1>3. ASSUME InHex(s) PROVE s.goal \in StringGoals
  <2>1. PICK text, digits, high : s = Reads("hex", <<>>, digits, high, text)
    BY <1>3 DEF InHex
  <2> QED
    BY <2>1 DEF Reads, StringGoals
<1>4. ASSUME InPair(s) PROVE s.goal \in StringGoals
  <2>1. PICK text, high, goal :
          goal \in {"second backslash", "second u"} /\ s = Reads(goal, <<>>, <<>>, high, text)
    BY <1>4 DEF InPair
  <2>2. s.goal = goal
    BY <2>1 DEF Reads
  <2> QED
    BY <2>1, <2>2 DEF StringGoals
<1>5. ASSUME Ended(s) PROVE FALSE
  <2>1. PICK text : s = Reads("value_string", <<>>, <<>>, 0, text)
    BY <1>5 DEF Ended
  <2>2. s.goal = "value_string"
    BY <2>1 DEF Reads
  <2> QED
    BY <2>2, Zenon DEF TokenType
<1>6. ASSUME Elsewhere(s) PROVE s.goal \in NumberGoals \cup {"literal"}
  BY <1>6, Zenon DEF Elsewhere, OtherTokens, TokenType
<1> QED
  BY <1>1, <1>2, <1>3, <1>4, <1>5, <1>6, Zenon DEF StringInv

LEMMA ScanTyped ==
  ASSUME NEW s \in Lexer, StringInv(s), NumberInv(s), s.goal \notin TokenType, NEW byte \in Read
  PROVE  Scan(s, byte) \in Lexer /\ NumberInv(Scan(s, byte))
<1>1. CASE \E goal \in Outside : s = Before(goal)
  BY <1>1, OutsideTyped, Zenon
<1>2. CASE s.goal \in StringGoals
  BY <1>2, StringTyped
<1>3. CASE s.goal = "literal"
  <2>1. Scan(s, byte) = scan_literal(s, byte)
    BY <1>3, OutsideScan
  <2> QED
    BY <1>3, <2>1, LiteralKeeps
<1>4. CASE s.goal \in NumberGoals
  <2>1. Scan(s, byte) = NumberByte(s, byte)
    BY <1>4, NumberScan
  <2>2. PICK label : label = s.goal
    OBVIOUS
  <2>3. s = AtGoal(s, label)
    BY <2>2, SameGoal
  <2>4. label \in NumberGoals \cup {"init"}
    BY <1>4, <2>2
  <2>5. Counts(label, s.return_type, s.token_buffer)
    BY <1>4, <2>2, Zenon DEF NumberInv
  <2> QED
    BY <2>1, <2>3, <2>4, <2>5, NumberByteKeeps
<1> QED
  BY <1>1, <1>2, <1>3, <1>4, Unfinished

(* What follows of the numbers that scan_number reads. *)
LEMMA LongestNumber ==
  ASSUME lexer \in Lexer, NumberInv(lexer), InNumber, NEW byte \in Byte
  PROVE  LET next == Scan(lexer, byte)
             longer == Append(Text, byte)
         IN  CASE next.goal = "parse_error" -> ~Begins(longer)
               [] next.goal \in NumberGoals -> next.token_buffer = longer /\ Begins(longer)
               [] OTHER                     -> IsNumber(Text) /\ ~Begins(longer)
<1>1. PICK s, text, label, type :
        s = lexer /\ text = Text /\ label = lexer.goal /\ type = lexer.return_type
  OBVIOUS
<1>2. /\ s \in Lexer /\ s.goal = label /\ s.token_buffer = text /\ s.return_type = type
      /\ label \in NumberGoals
  BY <1>1 DEF Text, InNumber
<1>3. Counts(label, type, text)
  BY <1>1, <1>2, Zenon DEF NumberInv
<1>4. /\ text \in Seq(Byte) /\ type \in NumberTypes
      /\ Reaches(text, label) /\ \E m, i, j : SoFar(text, label, m, i, j)
  BY <1>3, Zenon DEF Counts
<1>5. PICK to : to = Goto(label, byte)
  OBVIOUS
<1>6. PICK longer, begins, number :
        longer = Append(text, byte) /\ begins = Begins(longer) /\ number = IsNumber(text)
  OBVIOUS
<1>7. PICK next, goal, taken :
        next = Scan(s, byte) /\ goal = next.goal /\ taken = (next.token_buffer = longer)
  OBVIOUS
<1>8. next = NumberByte(s, byte)
  BY <1>2, <1>7, NumberScan
<1>9. "goal" \in DOMAIN s /\ "token_buffer" \in DOMAIN s
  BY <1>2 DEF Lexer
<1>10. to \notin NumberGoals => begins = FALSE
  BY <1>4, <1>5, <1>6, EndsHere
<1>11. CASE to = "done"
  <2>1. PICK c : c = Converted(type, text).type
    OBVIOUS
  <2>2. next = [s EXCEPT !.goal = c]
    BY <1>2, <1>5, <1>8, <1>11, <2>1, Zenon DEF NumberByte
  <2>3. c \in NumberTypes
    BY <1>4, <2>1, ConvertedType
  <2>4. goal \notin NumberGoals /\ goal # "parse_error"
    BY <1>7, <1>9, <2>2, <2>3 DEF NumberTypes, NumberGoals
  <2>5. label \in {"zero", "any1", "decimal2", "any2"}
    BY <1>5, <1>11, GotoAny
  <2>6. number = TRUE
    BY <1>4, <1>6, <2>5, EndedIsNumber
  <2>7. to \notin NumberGoals
    BY <1>11 DEF NumberGoals
  <2> QED
    BY <1>1, <1>6, <1>7, <1>10, <2>4, <2>6, <2>7
<1>12. CASE to = "parse_error"
  <2>1. next = [s EXCEPT !.goal = to]
    BY <1>2, <1>5, <1>8, <1>12 DEF NumberByte
  <2>2. goal = "parse_error"
    BY <1>7, <1>9, <1>12, <2>1
  <2>3. to \notin NumberGoals
    BY <1>12 DEF NumberGoals
  <2> QED
    BY <1>1, <1>6, <1>7, <1>10, <2>2, <2>3 DEF NumberGoals
<1>13. CASE to \in NumberGoals
  <2>1. to # "done" /\ to # "parse_error"
    BY <1>13 DEF NumberGoals
  <2>2. PICK t : t = TypeAt(to, type)
    OBVIOUS
  <2>3. next = [s EXCEPT !.goal = to, !.return_type = t, !.token_buffer = longer]
    BY <1>2, <1>5, <1>6, <1>8, <2>1, <2>2, Zenon DEF NumberByte
  <2>4. goal = to /\ next.token_buffer = longer
    BY <1>7, <1>9, <2>3
  <2>5. Counts(to, t, longer)
    BY <1>3, <1>5, <1>6, <1>13, <2>2, CountsStep
  <2>6. longer \in Seq(Byte) /\ \E m, i, j : SoFar(longer, to, m, i, j)
    BY <2>5, Zenon DEF Counts
  <2>7. begins = TRUE
    BY <1>6, <1>13, <2>6, SoFarBegins
  <2>8. goal \in NumberGoals /\ goal # "parse_error"
    BY <1>13, <2>1, <2>4
  <2> QED
    BY <1>1, <1>6, <1>7, <2>4, <2>7, <2>8
<1>14. to \in NumberGoals \cup {"done", "parse_error"}
  BY <1>5, GotoAny
<1> QED
  BY <1>11, <1>12, <1>13, <1>14

LEMMA IntegerDumped ==
  ASSUME NumberInv(lexer)
  PROVE  IntegerIsReadBack
<1>1. PICK type, text : type = lexer.return_type /\ text = Text
  OBVIOUS
<1>2. SUFFICES ASSUME ParsedInteger
               PROVE  \/ dump_integer(Converted(type, text).value) = text
                      \/ text = <<Minus, Ascii(0)>>
  BY <1>1, Zenon DEF IntegerIsReadBack
<1>3. Spelled(type, text) /\ Converted(type, text).type = type
  BY <1>1, <1>2, Zenon DEF ParsedInteger, NumberInv, Text
<1> QED
  BY <1>3, DumpedAsRead

(* What the scanner makes of numbers, of any length: its fields have their  *)
(* types, scan_number takes the longest number of the grammar that is there *)
(* and gives up exactly when no number begins like that, and the integers   *)
(* that it converts dump_integer writes with the bytes that were read.      *)
THEOREM NumbersAreRead == Spec => []ScannerInv
<1> DEFINE Typed == lexer \in Lexer /\ begun \in 0 .. MaxChars /\ wide \in BOOLEAN
           IInv == StringInv(lexer) /\ Typed /\ NumberInv(lexer)
<1>1. Init => IInv
  <2>1. SUFFICES ASSUME Init PROVE IInv
    OBVIOUS
  <2>2. lexer = Before("bom") /\ "bom" \in Outside
    BY <2>1, StartIs DEF Init, Outside
  <2>3. lexer \in Lexer /\ NumberInv(lexer)
    BY <2>2, BeforeIs
  <2>4. begun = 0 /\ wide = FALSE
    BY <2>1, Zenon DEF Init
  <2>5. begun \in 0 .. MaxChars
    BY <2>4, ConstantsAssumption
  <2> QED
    BY <2>2, <2>3, <2>4, <2>5, Zenon DEF StringInv
<1>2. IInv /\ [Next]_vars => IInv'
  <2>1. SUFFICES ASSUME IInv, [Next]_vars
                 PROVE  /\ StringInv(lexer') /\ NumberInv(lexer') /\ lexer' \in Lexer
                        /\ begun' \in 0 .. MaxChars /\ wide' \in BOOLEAN
    BY DEF StringInv, InText, InEscape, InHex, InPair, Ended, Elsewhere, NumberInv, Lexer
  <2>2. CASE UNCHANGED vars
    <3>1. lexer' = lexer /\ begun' = begun /\ wide' = wide
      BY <2>2 DEF vars
    <3> QED
      BY <2>1, <3>1
  <2>3. ASSUME NEW byte \in Inputs, get(byte)
        PROVE  /\ StringInv(lexer') /\ NumberInv(lexer') /\ lexer' \in Lexer
               /\ begun' \in 0 .. MaxChars /\ wide' \in BOOLEAN
    <3>1. byte \in Read
      BY ConstantsAssumption DEF Inputs, Read, Byte
    <3>2. /\ lexer.goal \notin TokenType /\ lexer' = Scan(lexer, byte)
          /\ begun' = begun + 1 \/ begun' = begun
          /\ wide' = (wide \/ (InString /\ byte \notin LongBytes \cup {EndOfFile}))
          /\ begun' <= MaxChars
      BY <2>3 DEF get
    <3>3. begun' \in 0 .. MaxChars
      BY <2>1, <3>2, ConstantsAssumption
    <3>4. wide' \in BOOLEAN
      BY <3>2
    <3>5. lexer' \in Lexer /\ NumberInv(lexer') /\ StringInv(lexer')
      BY <2>1, <3>1, <3>2, ScanKeeps, ScanTyped, Zenon
    <3> QED
      BY <3>3, <3>4, <3>5
  <2> QED
    BY <2>1, <2>2, <2>3 DEF Next
<1>3. IInv => ScannerInv
  <2>1. SUFFICES ASSUME IInv PROVE ScannerInv
    OBVIOUS
  <2>2. TypeOK
    BY <2>1, Zenon DEF TypeOK
  <2>3. NumbersExactly
    <3>1. SUFFICES ASSUME InNumber, NEW byte \in NumberBytes
                   PROVE  LET next == Scan(lexer, byte)
                              longer == Append(Text, byte)
                          IN  CASE next.goal = "parse_error" -> ~Begins(longer)
                                [] next.goal \in NumberGoals ->
                                     next.token_buffer = longer /\ Begins(longer)
                                [] OTHER -> IsNumber(Text) /\ ~Begins(longer)
      BY Zenon DEF NumbersExactly
    <3>2. byte \in Byte
      BY ConstantsAssumption DEF Byte
    <3> QED
      BY <2>1, <3>1, <3>2, LongestNumber, Zenon
  <2>4. IntegerIsReadBack
    BY <2>1, IntegerDumped
  <2> QED
    BY <2>2, <2>3, <2>4, Zenon DEF ScannerInv
<1> QED
  BY <1>1, <1>2, <1>3, PTL DEF Spec

=============================================================================
