--------------------------- MODULE FramingProofs ----------------------------
(***************************************************************************)
(* Proofs about Framing, for any texts, any number of them, and however    *)
(* the stream cuts their bytes up.  What was ever written is one sequence  *)
(* of bytes with a boundary behind each newline; FlowInv says that what is *)
(* in the streambuf and the socket is the part of it that starts at the    *)
(* boundary behind the last line that was taken.                           *)
(***************************************************************************)
EXTENDS Framing, FiniteSetTheorems, SequenceTheorems, TLAPS

(* A set of numbers has a least one. *)
LEMMA Least ==
  ASSUME NEW T, T \subseteq Nat, T # {}
  PROVE  \E x \in T : \A y \in T : x <= y
<1>1. PICK x \in T : \A y \in T : ~ (<<y, x>> \in OpToRel(<, Nat))
  BY NatLessThanWellFounded, WFMin
<1>2. \A y \in T : ~(y < x)
  BY <1>1 DEF OpToRel
<1> QED
  BY <1>2

-----------------------------------------------------------------------------
(* Lines of a sequence of bytes whose newlines are known *)

(* p marks h positions, each behind the one before. *)
Rises(p, h) ==
  h \in Nat /\ p \in [1 .. h -> Nat] /\ \A j, k \in 1 .. h : j < k => p[j] < p[k]

Image(p, h) == {p[k] : k \in 1 .. h}
Upto(E, i) == {j \in E : j <= i}

LEMMA Counted ==
  ASSUME NEW p, NEW h, Rises(p, h)
  PROVE  IsFiniteSet(Image(p, h)) /\ Cardinality(Image(p, h)) = h
<1>1. \A j, k \in 1 .. h : p[j] = p[k] => j = k
  BY DEF Rises
<1>2. p \in Bijection(1 .. h, Image(p, h))
  BY <1>1 DEF Rises, Bijection, Injection, Surjection, IsInjective, Image
<1>3. ExistsBijection(1 .. h, Image(p, h))
  BY <1>2 DEF ExistsBijection
<1>4. IsFiniteSet(1 .. h) /\ Cardinality(1 .. h) = h
  BY FS_Interval DEF Rises
<1> QED
  BY <1>3, <1>4, FS_Bijection, Zenon

(* The k-th of them is the one with k of them up to it. *)
LEMMA KthCounted ==
  ASSUME NEW p, NEW h, Rises(p, h), NEW k \in 1 .. h
  PROVE  /\ p[k] \in Image(p, h)
         /\ \A i \in Image(p, h) : Cardinality(Upto(Image(p, h), i)) = k <=> i = p[k]
<1>1. ASSUME NEW l \in 1 .. h PROVE Cardinality(Upto(Image(p, h), p[l])) = l
  <2>1. l \in Nat /\ \A m \in 1 .. l : m \in 1 .. h
    BY DEF Rises
  <2>2. PICK q : q = [m \in 1 .. l |-> p[m]]
    OBVIOUS
  <2>3. Rises(q, l)
    BY <2>1, <2>2 DEF Rises
  <2>4. Cardinality(Image(q, l)) = l
    BY <2>3, Counted
  <2>5. \A m \in 1 .. h : p[m] <= p[l] <=> m \in 1 .. l
    BY DEF Rises
  <2>6. Upto(Image(p, h), p[l]) = Image(q, l)
    BY <2>1, <2>2, <2>5 DEF Upto, Image
  <2> QED
    BY <2>4, <2>6
<1> QED
  BY <1>1 DEF Image

(* The lines of bytes that have newlines at p[1], p[2], ... *)
LEMMA LinesBetween ==
  ASSUME NEW x \in Seq(Bytes), NEW h \in Nat, NEW p \in [0 .. h -> Nat], p[0] = 0,
         \A j, k \in 0 .. h : j < k => p[j] < p[k],
         {i \in DOMAIN x : x[i] = "LF"} = {p[k] : k \in 1 .. h}
  PROVE  LinesIn(x) = [k \in 1 .. h |-> Stripped(SubSeq(x, p[k - 1] + 1, p[k] - 1))]
<1> DEFINE E == {i \in DOMAIN x : x[i] = "LF"}
           end == [k \in 0 .. Cardinality(E) |->
                     IF k = 0 THEN 0
                     ELSE CHOOSE i \in E : Cardinality({j \in E : j <= i}) = k]
<1>1. PICK q : q = [k \in 1 .. h |-> p[k]]
  OBVIOUS
<1>2. Rises(q, h) /\ E = Image(q, h)
  BY <1>1 DEF Rises, Image
<1>3. Cardinality(E) = h
  BY <1>2, Counted
<1>4. ASSUME NEW k \in 1 .. h PROVE end[k] = p[k]
  <2>1. /\ q[k] \in E
        /\ \A i \in E : Cardinality({j \in E : j <= i}) = k <=> i = q[k]
    <3>1. /\ q[k] \in Image(q, h)
          /\ \A i \in Image(q, h) : Cardinality(Upto(Image(q, h), i)) = k <=> i = q[k]
      BY <1>2, KthCounted
    <3> QED
      BY <1>2, <3>1 DEF Upto
  <2>2. (CHOOSE i \in E : Cardinality({j \in E : j <= i}) = k) = q[k]
    BY <2>1
  <2>3. k \in 0 .. Cardinality(E) /\ k # 0
    BY <1>3
  <2> QED
    BY <1>1, <2>2, <2>3
<1>5. end[0] = 0
  BY <1>3
<1>6. \A k \in 1 .. h : k - 1 \in 0 .. h /\ (k - 1 = 0 \/ k - 1 \in 1 .. h)
  OBVIOUS
<1>7. \A k \in 1 .. h : end[k] = p[k] /\ end[k - 1] = p[k - 1]
  BY <1>4, <1>5, <1>6
<1>8. LinesIn(x) = [k \in 1 .. Cardinality(E) |-> Stripped(SubSeq(x, end[k - 1] + 1, end[k] - 1))]
  BY DEF LinesIn
<1> HIDE DEF end, E
<1> QED
  BY <1>3, <1>7, <1>8

-----------------------------------------------------------------------------
(* All that was ever written *)

(* all are the bytes of texts, and bound[k] is where the k-th one ends, at  *)
(* its newline.                                                             *)
Stream(all, bound, texts) ==
  /\ all \in Seq(Bytes)
  /\ bound \in [0 .. Len(texts) -> Nat]
  /\ bound[0] = 0 /\ bound[Len(texts)] = Len(all)
  /\ \A j, k \in 0 .. Len(texts) : j < k => bound[j] < bound[k]
  /\ \A k \in 1 .. Len(texts) :
       /\ bound[k] = bound[k - 1] + Len(texts[k]) + 1
       /\ all[bound[k]] = "LF"
       /\ \A i \in 1 .. Len(texts[k]) : all[bound[k - 1] + i] = texts[k][i]
  /\ \A i \in 1 .. Len(all) : all[i] = "LF" => \E k \in 1 .. Len(texts) : bound[k] = i

(* x are the bytes of all behind the first o. *)
Part(x, all, o) == o + Len(x) <= Len(all) /\ \A i \in 1 .. Len(x) : x[i] = all[o + i]

LEMMA TextTyped ==
  ASSUME NEW text \in Texts
  PROVE  /\ text \in Seq(Bytes) /\ Len(text) \in Nat
         /\ \A i \in 1 .. Len(text) : text[i] \in Bytes /\ text[i] # "LF"
<1>1. text \in Seq(Letters \cup {"CR"}) /\ "LF" \notin Letters
  BY ConstantsAssumption
<1>2. \A i \in 1 .. Len(text) : text[i] \in Letters \cup {"CR"}
  BY <1>1
<1>3. "LF" \notin Letters \cup {"CR"}
  BY <1>1
<1>4. \A i \in 1 .. Len(text) : text[i] \in Bytes /\ text[i] # "LF"
  BY <1>2, <1>3 DEF Bytes
<1>5. text \in Seq(Bytes) /\ Len(text) \in Nat
  BY <1>1 DEF Bytes
<1> QED
  BY <1>4, <1>5

(* Sequences are equal if their elements are. *)
LEMMA SameElements ==
  ASSUME NEW S, NEW x \in Seq(S), NEW y \in Seq(S), Len(x) = Len(y),
         \A i \in 1 .. Len(x) : x[i] = y[i]
  PROVE  x = y
OBVIOUS

(* n elements behind the first a. *)
LEMMA Slice ==
  ASSUME NEW S, NEW x \in Seq(S), NEW a \in Nat, NEW n \in Nat, a + n <= Len(x)
  PROVE  /\ SubSeq(x, a + 1, a + n) \in Seq(S)
         /\ Len(SubSeq(x, a + 1, a + n)) = n
         /\ \A i \in 1 .. n : SubSeq(x, a + 1, a + n)[i] = x[a + i]
<1>1. \A i \in a + 1 .. a + n : i \in 1 .. Len(x)
  OBVIOUS
<1>2. \A i \in a + 1 .. a + n : x[i] \in S
  BY <1>1
<1> QED
  BY <1>2

(* The lines of a part that begins behind t texts are the h texts that end  *)
(* in it.                                                                   *)
LEMMA LinesOfPart ==
  ASSUME NEW texts \in Seq(Texts), NEW all, NEW bound, Stream(all, bound, texts),
         NEW t \in 0 .. Len(texts), NEW x \in Seq(Bytes), Part(x, all, bound[t]),
         NEW h \in 0 .. Len(texts) - t, bound[t + h] <= bound[t] + Len(x),
         t + h < Len(texts) => bound[t] + Len(x) < bound[t + h + 1]
  PROVE  LinesIn(x) = [k \in 1 .. h |-> Stripped(texts[t + k])]
<1>1. /\ Len(texts) \in Nat /\ t \in Nat /\ h \in Nat /\ Len(x) \in Nat
      /\ all \in Seq(Bytes) /\ Len(all) \in Nat
      /\ \A k \in 0 .. h : t + k \in 0 .. Len(texts)
      /\ \A k \in 1 .. h : t + k \in 1 .. Len(texts)
  BY DEF Stream
<1>2. /\ \A k \in 0 .. Len(texts) : bound[k] \in Nat
      /\ \A j, k \in 0 .. Len(texts) : j < k => bound[j] < bound[k]
  BY DEF Stream
<1>3. \A j, k \in 0 .. Len(texts) : j <= k => bound[j] <= bound[k]
  BY <1>2
<1>4. PICK p : p = [k \in 0 .. h |-> bound[t + k] - bound[t]]
  OBVIOUS
<1>5. /\ p \in [0 .. h -> Nat] /\ p[0] = 0
      /\ \A j, k \in 0 .. h : j < k => p[j] < p[k]
      /\ \A k \in 0 .. h : bound[t + k] = bound[t] + p[k] /\ p[k] <= Len(x)
  <2>1. t \in 0 .. Len(texts) /\ \A k \in 0 .. h : t <= t + k /\ t + k <= t + h
    BY <1>1
  <2>2. \A k \in 0 .. h : bound[t] <= bound[t + k] /\ bound[t + k] <= bound[t + h]
    BY <1>1, <1>3, <2>1
  <2>3. /\ bound[t] \in Nat /\ bound[t + h] <= bound[t] + Len(x)
        /\ \A k \in 0 .. h : bound[t + k] \in Nat
    BY <1>1, <1>2, <2>1
  <2>4. \A k \in 0 .. h : p[k] = bound[t + k] - bound[t]
    BY <1>4
  <2>5. \A k \in 0 .. h : p[k] \in Nat /\ bound[t + k] = bound[t] + p[k] /\ p[k] <= Len(x)
    <3>1. TAKE k \in 0 .. h
    <3>2. PICK b \in Nat : b = bound[t + k]
      BY <2>3
    <3>3. PICK c \in Nat : c = bound[t]
      BY <2>3
    <3>4. PICK d \in Nat : d = bound[t + h]
      <4>1. h \in 0 .. h
        BY <1>1
      <4> QED
        BY <2>3, <4>1
    <3>5. c <= b /\ b <= d /\ d <= c + Len(x) /\ p[k] = b - c
      BY <2>2, <2>3, <2>4, <3>2, <3>3, <3>4
    <3>6. p[k] \in Nat /\ b = c + p[k] /\ p[k] <= Len(x)
      BY <1>1, <3>5
    <3> QED
      BY <3>2, <3>3, <3>6
  <2>6. p \in [0 .. h -> Nat]
    BY <1>4, <2>5
  <2>7. p[0] = 0
    <3>1. t + 0 = t /\ 0 \in 0 .. h
      BY <1>1
    <3>2. p[0] \in Nat /\ bound[t + 0] = bound[t] + p[0]
      BY <2>5, <3>1
    <3> QED
      BY <2>3, <3>1, <3>2
  <2>8. ASSUME NEW j \in 0 .. h, NEW k \in 0 .. h, j < k PROVE p[j] < p[k]
    <3>1. t + j < t + k /\ t + j \in 0 .. Len(texts) /\ t + k \in 0 .. Len(texts)
      BY <1>1, <2>8
    <3>2. bound[t + j] < bound[t + k]
      BY <1>2, <3>1
    <3>3. /\ bound[t + j] = bound[t] + p[j] /\ bound[t + k] = bound[t] + p[k]
          /\ p[j] \in Nat /\ p[k] \in Nat
      BY <2>5
    <3> QED
      BY <2>3, <3>2, <3>3
  <2> QED
    BY <2>5, <2>6, <2>7, <2>8
<1>6. \A k \in 1 .. h : p[k] \in 1 .. Len(x) /\ x[p[k]] = "LF"
  <2>1. TAKE k \in 1 .. h
  <2>2. 0 < p[k] /\ p[k] <= Len(x)
    BY <1>1, <1>5
  <2>3. x[p[k]] = all[bound[t] + p[k]]
    BY <1>1, <1>5, <2>2 DEF Part
  <2>4. bound[t] + p[k] = bound[t + k]
    BY <1>5
  <2>5. t + k \in 1 .. Len(texts) /\ all[bound[t + k]] = "LF"
    BY <1>1 DEF Stream
  <2>6. p[k] \in Nat
    BY <1>1, <1>5
  <2> QED
    BY <1>1, <2>2, <2>3, <2>4, <2>5, <2>6
<1>7. ASSUME NEW i \in 1 .. Len(x), x[i] = "LF" PROVE \E k \in 1 .. h : p[k] = i
  <2>1. bound[t] \in Nat
    BY <1>2
  <2>2. bound[t] + i \in 1 .. Len(all) /\ all[bound[t] + i] = "LF"
    BY <1>1, <1>7, <2>1 DEF Part
  <2>3. PICK m \in 1 .. Len(texts) : bound[m] = bound[t] + i
    BY <2>2 DEF Stream
  <2>4. m \in 0 .. Len(texts) /\ t < m
    BY <1>1, <1>3, <2>1, <2>3
  <2>5. m <= t + h
    <3>1. SUFFICES ASSUME t + h < m PROVE FALSE
      BY <1>1
    <3>2. t + h + 1 \in 0 .. Len(texts) /\ t + h < Len(texts) /\ t + h + 1 <= m
      BY <1>1, <3>1
    <3>3. bound[t + h + 1] <= bound[m] /\ bound[t] + Len(x) < bound[t + h + 1]
      BY <1>3, <2>4, <3>2
    <3> QED
      BY <1>1, <1>2, <2>1, <2>3, <3>2, <3>3
  <2>6. m - t \in 1 .. h /\ t + (m - t) = m
    BY <1>1, <2>4, <2>5
  <2>7. PICK k \in 1 .. h : k = m - t
    BY <2>6
  <2>8. bound[m] = bound[t] + p[k] /\ p[k] \in Nat
    BY <1>5, <2>6, <2>7
  <2>9. p[k] = i
    BY <2>1, <2>3, <2>8
  <2> QED
    BY <2>9
<1>8. {i \in DOMAIN x : x[i] = "LF"} = {p[k] : k \in 1 .. h}
  BY <1>6, <1>7
<1>9. ASSUME NEW k \in 1 .. h PROVE SubSeq(x, p[k - 1] + 1, p[k] - 1) = texts[t + k]
  <2>1. PICK text \in Texts : text = texts[t + k]
    BY <1>1
  <2>2. text \in Seq(Bytes) /\ Len(text) \in Nat
    BY TextTyped
  <2>3. /\ k - 1 \in 0 .. h /\ k \in 0 .. h /\ p[k - 1] \in Nat /\ p[k] \in Nat
        /\ t + k \in 1 .. Len(texts) /\ t + (k - 1) = (t + k) - 1
    BY <1>1, <1>5
  <2>4. /\ bound[t + k] = bound[t + (k - 1)] + Len(text) + 1
        /\ \A i \in 1 .. Len(text) : all[bound[t + (k - 1)] + i] = text[i]
    BY <2>1, <2>3 DEF Stream
  <2>5. p[k] = p[k - 1] + Len(text) + 1
    <3>1. /\ bound[t + k] = bound[t] + p[k]
          /\ bound[t + (k - 1)] = bound[t] + p[k - 1]
      BY <1>5, <2>3
    <3>2. bound[t] \in Nat
      BY <1>2
    <3>3. PICK a \in Nat, b \in Nat, c \in Nat, n \in Nat :
            a = p[k - 1] /\ b = p[k] /\ c = bound[t] /\ n = Len(text)
      BY <2>2, <2>3, <3>2
    <3>4. c + b = c + a + n + 1
      BY <2>4, <3>1, <3>3, Zenon
    <3>5. b = a + n + 1
      BY <3>4
    <3> QED
      BY <3>3, <3>5, Zenon
  <2>6. \A i \in 1 .. Len(text) : p[k - 1] + i \in 1 .. Len(x) /\ x[p[k - 1] + i] = text[i]
    <3>1. TAKE i \in 1 .. Len(text)
    <3>2. p[k - 1] + i \in 1 .. Len(x)
      <4>1. PICK a \in Nat, n \in Nat, l \in Nat :
              a = p[k - 1] /\ n = Len(text) /\ l = Len(x) /\ p[k] <= l
        <5>1. p[k] <= Len(x) /\ Len(x) \in Nat
          BY <1>1, <1>5, <2>3
        <5> QED
          BY <2>2, <2>3, <5>1, Zenon
      <4>2. a + n + 1 <= l /\ i \in 1 .. n
        BY <2>5, <4>1, Zenon
      <4>3. a + i \in 1 .. l
        BY <4>1, <4>2
      <4> QED
        BY <4>1, <4>3
    <3>3. x[p[k - 1] + i] = all[bound[t] + (p[k - 1] + i)]
      BY <3>2 DEF Part
    <3>4. bound[t] + (p[k - 1] + i) = bound[t + (k - 1)] + i
      <4>1. bound[t + (k - 1)] = bound[t] + p[k - 1]
        BY <1>5, <2>3
      <4>2. bound[t] \in Nat /\ i \in Nat
        BY <1>2
      <4> QED
        BY <2>3, <4>1, <4>2
    <3> QED
      BY <2>4, <3>2, <3>3, <3>4
  <2>7. PICK s : s = SubSeq(x, p[k - 1] + 1, p[k] - 1)
    OBVIOUS
  <2>8. p[k] - 1 = p[k - 1] + Len(text)
    BY <2>2, <2>3, <2>5
  <2>9. /\ s \in Seq(Bytes) /\ Len(s) = Len(text)
        /\ \A i \in 1 .. Len(text) : s[i] = x[p[k - 1] + i]
    <3>1. p[k - 1] + Len(text) <= Len(x)
      BY <1>1, <1>5, <2>2, <2>3, <2>5
    <3>2. s = SubSeq(x, p[k - 1] + 1, p[k - 1] + Len(text))
      BY <2>7, <2>8
    <3> QED
      <4>1. PICK a \in Nat, n \in Nat : a = p[k - 1] /\ n = Len(text)
        BY <2>2, <2>3
      <4>2. a + n <= Len(x)
        BY <3>1, <4>1
      <4>3. /\ SubSeq(x, a + 1, a + n) \in Seq(Bytes)
            /\ Len(SubSeq(x, a + 1, a + n)) = n
            /\ \A i \in 1 .. n : SubSeq(x, a + 1, a + n)[i] = x[a + i]
        BY <4>2, Slice
      <4> QED
        BY <3>2, <4>1, <4>3, Zenon
  <2>10. s = text
    BY <2>2, <2>6, <2>9, SameElements
  <2> QED
    BY <2>1, <2>7, <2>10
<1>10. LinesIn(x) = [k \in 1 .. h |-> Stripped(SubSeq(x, p[k - 1] + 1, p[k] - 1))]
  BY <1>1, <1>5, <1>8, LinesBetween
<1> QED
  BY <1>9, <1>10

-----------------------------------------------------------------------------
(* Parts of the stream *)

LEMMA Joined ==
  ASSUME NEW x \in Seq(Bytes), NEW y \in Seq(Bytes)
  PROVE  /\ x \o y \in Seq(Bytes) /\ Len(x) \in Nat /\ Len(y) \in Nat
         /\ Len(x \o y) = Len(x) + Len(y)
         /\ \A i \in 1 .. Len(x) : (x \o y)[i] = x[i]
         /\ \A i \in 1 .. Len(y) : (x \o y)[Len(x) + i] = y[i]
<1>1. x \o y \in Seq(Bytes)
  BY ConcatProperties
<1> QED
  BY <1>1

LEMMA JoinedAgain ==
  ASSUME NEW x \in Seq(Bytes), NEW y \in Seq(Bytes), NEW z \in Seq(Bytes)
  PROVE  (x \o y) \o z = x \o (y \o z)
BY ConcatAssociative

LEMMA CutAt ==
  ASSUME NEW x \in Seq(Bytes), NEW n \in 0 .. Len(x)
  PROVE  /\ SubSeq(x, 1, n) \in Seq(Bytes) /\ SubSeq(x, n + 1, Len(x)) \in Seq(Bytes)
         /\ Len(SubSeq(x, 1, n)) = n
         /\ Len(SubSeq(x, n + 1, Len(x))) = Len(x) - n
         /\ SubSeq(x, 1, n) \o SubSeq(x, n + 1, Len(x)) = x
<1>1. n \in Nat /\ Len(x) \in Nat /\ n <= Len(x)
  OBVIOUS
<1>2. SubSeq(x, 1, n) \in Seq(Bytes) /\ Len(SubSeq(x, 1, n)) = n
  <2>1. \A i \in 1 .. n : x[i] \in Bytes
    BY <1>1
  <2> QED
    BY <1>1, <2>1
<1>3. /\ SubSeq(x, n + 1, Len(x)) \in Seq(Bytes)
      /\ Len(SubSeq(x, n + 1, Len(x))) = Len(x) - n
  <2>1. \A i \in n + 1 .. Len(x) : x[i] \in Bytes
    BY <1>1
  <2> QED
    BY <1>1, <2>1
<1>4. SubSeq(x, 1, n) \o SubSeq(x, n + 1, Len(x)) = SubSeq(x, 1, Len(x))
  <2>1. 1 \in 1 .. Len(x) + 1 /\ n \in 1 - 1 .. Len(x) /\ Len(x) \in n .. Len(x)
    BY <1>1
  <2> QED
    BY <2>1, ConcatAdjacentSubSeq
<1>5. SubSeq(x, 1, Len(x)) = x
  BY SubSeqFull
<1> QED
  BY <1>2, <1>3, <1>4, <1>5

(* The front of a part is a part, and so is what is behind the front. *)
LEMMA PartsOfPart ==
  ASSUME NEW x \in Seq(Bytes), NEW y \in Seq(Bytes), NEW all \in Seq(Bytes), NEW o \in Nat,
         Part(x \o y, all, o)
  PROVE  Part(x, all, o) /\ Part(y, all, o + Len(x))
<1>1. PICK xy \in Seq(Bytes) :
         /\ xy = x \o y /\ Len(x) \in Nat /\ Len(y) \in Nat
         /\ Len(xy) = Len(x) + Len(y)
         /\ \A i \in 1 .. Len(x) : xy[i] = x[i]
         /\ \A i \in 1 .. Len(y) : xy[Len(x) + i] = y[i]
  BY Joined
<1>2. /\ o + Len(xy) <= Len(all) /\ Len(all) \in Nat
      /\ \A i \in 1 .. Len(xy) : xy[i] = all[o + i]
  BY <1>1 DEF Part
<1>3. \A i \in 1 .. Len(x) : i \in 1 .. Len(xy)
  BY <1>1
<1>4. Part(x, all, o)
  BY <1>1, <1>2, <1>3 DEF Part
<1>5. \A i \in 1 .. Len(y) : Len(x) + i \in 1 .. Len(xy) /\ (o + Len(x)) + i = o + (Len(x) + i)
  BY <1>1
<1>6. (o + Len(x)) + Len(y) <= Len(all)
  BY <1>1, <1>2
<1>7. \A i \in 1 .. Len(y) : y[i] = all[(o + Len(x)) + i]
  BY <1>1, <1>2, <1>5
<1> QED
  BY <1>4, <1>6, <1>7 DEF Part

(* More is written. *)
LEMMA PartGrows ==
  ASSUME NEW x \in Seq(Bytes), NEW y \in Seq(Bytes), NEW all \in Seq(Bytes), NEW o \in Nat,
         Part(x, all, o)
  PROVE  /\ Part(x, all \o y, o)
         /\ o + Len(x) = Len(all) =>
              /\ Part(x \o y, all \o y, o)
              /\ o + Len(x \o y) = Len(all \o y)
<1>1. PICK ay \in Seq(Bytes) :
         /\ ay = all \o y /\ Len(all) \in Nat /\ Len(y) \in Nat
         /\ Len(ay) = Len(all) + Len(y)
         /\ \A i \in 1 .. Len(all) : ay[i] = all[i]
         /\ \A i \in 1 .. Len(y) : ay[Len(all) + i] = y[i]
  BY Joined
<1>2. PICK xy \in Seq(Bytes) :
         /\ xy = x \o y /\ Len(x) \in Nat
         /\ Len(xy) = Len(x) + Len(y)
         /\ \A i \in 1 .. Len(x) : xy[i] = x[i]
         /\ \A i \in 1 .. Len(y) : xy[Len(x) + i] = y[i]
  <2>1. /\ x \o y \in Seq(Bytes) /\ Len(x) \in Nat /\ Len(x \o y) = Len(x) + Len(y)
        /\ \A i \in 1 .. Len(x) : (x \o y)[i] = x[i]
        /\ \A i \in 1 .. Len(y) : (x \o y)[Len(x) + i] = y[i]
    BY Joined
  <2> QED
    BY <2>1, Zenon
<1>3. o + Len(x) <= Len(all) /\ \A i \in 1 .. Len(x) : x[i] = all[o + i]
  BY DEF Part
<1>4. \A i \in 1 .. Len(x) : o + i \in 1 .. Len(all) /\ x[i] = ay[o + i]
  <2>1. PICK n \in Nat, a \in Nat : n = Len(x) /\ a = Len(all)
    BY <1>1, <1>2
  <2>2. o + n <= a
    BY <1>3, <2>1
  <2>3. TAKE i \in 1 .. Len(x)
  <2>4. i \in 1 .. n
    BY <2>1
  <2>5. o + i \in 1 .. a
    BY <2>2, <2>4
  <2> QED
    BY <1>1, <1>3, <2>1, <2>5
<1>5. Part(x, ay, o)
  BY <1>1, <1>2, <1>3, <1>4 DEF Part
<1>6. ASSUME o + Len(x) = Len(all) PROVE Part(xy, ay, o) /\ o + Len(xy) = Len(ay)
  <2>1. o + Len(xy) = Len(ay)
    <3>1. PICK n \in Nat, m \in Nat, a \in Nat : n = Len(x) /\ m = Len(y) /\ a = Len(all)
      BY <1>1, <1>2
    <3>2. Len(xy) = n + m /\ Len(ay) = a + m /\ o + n = a
      BY <1>1, <1>2, <1>6, <3>1, Zenon
    <3> QED
      BY <3>2
  <2>2. ASSUME NEW i \in 1 .. Len(xy) PROVE xy[i] = ay[o + i]
    <3>1. CASE i \in 1 .. Len(x)
      BY <1>2, <1>4, <3>1
    <3>2. CASE i \notin 1 .. Len(x)
      <4>1. i \in Nat /\ i > Len(x)
        BY <1>2, <3>2
      <4>2. PICK j \in 1 .. Len(y) : i = Len(x) + j
        <5>1. i - Len(x) \in 1 .. Len(y) /\ i = Len(x) + (i - Len(x))
          BY <1>1, <1>2, <4>1
        <5> QED
          BY <5>1
      <4>3. o + i = Len(all) + j
        <5>1. PICK n \in Nat, a \in Nat : n = Len(x) /\ a = Len(all)
          BY <1>1, <1>2
        <5>2. i = n + j /\ o + n = a /\ j \in Nat
          BY <1>6, <4>2, <5>1
        <5>3. o + i = a + j
          BY <5>2
        <5> QED
          BY <5>1, <5>3
      <4> QED
        BY <1>1, <1>2, <4>2, <4>3
    <3> QED
      BY <3>1, <3>2
  <2> QED
    BY <1>1, <2>1, <2>2 DEF Part
<1> QED
  BY <1>1, <1>2, <1>5, <1>6

LEMMA Serialized ==
  ASSUME NEW text \in Texts
  PROVE  /\ serialize(text) \in Seq(Bytes) /\ Len(text) \in Nat
         /\ Len(serialize(text)) = Len(text) + 1
         /\ serialize(text)[Len(text) + 1] = "LF"
         /\ \A i \in 1 .. Len(text) : serialize(text)[i] = text[i]
<1>1. text \in Seq(Bytes) /\ Len(text) \in Nat
  BY TextTyped
<1>2. "LF" \in Bytes
  BY DEF Bytes
<1> QED
  BY <1>1, <1>2 DEF serialize

(* One more text is written behind the others. *)
LEMMA StreamGrows ==
  ASSUME NEW texts \in Seq(Texts), NEW all, NEW bound, Stream(all, bound, texts),
         NEW text \in Texts
  PROVE  \E more : /\ Stream(all \o serialize(text), more, Append(texts, text))
                   /\ \A k \in 0 .. Len(texts) : more[k] = bound[k]
<1>1. PICK m \in Nat : m = Len(texts)
  OBVIOUS
<1>2. PICK on : /\ on = Append(texts, text) /\ on \in Seq(Texts) /\ Len(on) = m + 1
                /\ on[m + 1] = text /\ \A k \in 1 .. m : on[k] = texts[k]
  <2>1. /\ Append(texts, text) \in Seq(Texts)
        /\ Len(Append(texts, text)) = Len(texts) + 1
        /\ \A k \in 1 .. Len(texts) : Append(texts, text)[k] = texts[k]
        /\ Append(texts, text)[Len(texts) + 1] = text
    OBVIOUS
  <2> QED
    BY <1>1, <2>1, Zenon
<1>3. PICK new \in Seq(Bytes), l \in Nat :
         /\ new = serialize(text) /\ l = Len(text) /\ Len(new) = l + 1
         /\ new[l + 1] = "LF"
         /\ \A i \in 1 .. l : new[i] = text[i] /\ new[i] # "LF"
  <2>1. /\ serialize(text) \in Seq(Bytes) /\ Len(text) \in Nat
        /\ Len(serialize(text)) = Len(text) + 1
        /\ serialize(text)[Len(text) + 1] = "LF"
        /\ \A i \in 1 .. Len(text) : serialize(text)[i] = text[i]
    BY Serialized
  <2>2. \A i \in 1 .. Len(text) : text[i] # "LF"
    BY TextTyped
  <2>3. \A i \in 1 .. Len(text) : serialize(text)[i] # "LF"
    BY <2>1, <2>2, Zenon
  <2> QED
    BY <2>1, <2>3, Zenon
<1>4. /\ all \in Seq(Bytes) /\ bound[0] = 0 /\ bound[m] = Len(all)
      /\ bound \in [0 .. m -> Nat]
      /\ \A j, k \in 0 .. m : j < k => bound[j] < bound[k]
      /\ \A k \in 1 .. m : /\ bound[k] = bound[k - 1] + Len(texts[k]) + 1
                           /\ all[bound[k]] = "LF"
                           /\ \A i \in 1 .. Len(texts[k]) : all[bound[k - 1] + i] = texts[k][i]
      /\ \A i \in 1 .. Len(all) : all[i] = "LF" => \E k \in 1 .. m : bound[k] = i
  BY <1>1 DEF Stream
<1>5. PICK a \in Nat : a = Len(all) /\ a = bound[m]
  BY <1>4
<1>6. PICK an \in Seq(Bytes) :
         /\ an = all \o new /\ Len(an) = a + (l + 1)
         /\ \A i \in 1 .. a : an[i] = all[i]
         /\ \A i \in 1 .. l + 1 : an[a + i] = new[i]
  <2>1. /\ all \o new \in Seq(Bytes)
        /\ Len(all \o new) = Len(all) + Len(new)
        /\ \A i \in 1 .. Len(all) : (all \o new)[i] = all[i]
        /\ \A i \in 1 .. Len(new) : (all \o new)[Len(all) + i] = new[i]
    BY <1>4, Joined
  <2> QED
    <3>1. a = Len(all) /\ l + 1 = Len(new)
      BY <1>3, <1>5
    <3>2. /\ Len(all \o new) = a + (l + 1)
          /\ \A i \in 1 .. a : (all \o new)[i] = all[i]
          /\ \A i \in 1 .. l + 1 : (all \o new)[a + i] = new[i]
      BY <2>1, <3>1, Zenon
    <3> QED
      BY <2>1, <3>2, Zenon
<1>7. PICK more : more = [k \in 0 .. m + 1 |-> IF k = m + 1 THEN a + (l + 1) ELSE bound[k]]
  OBVIOUS
<1>8. /\ more[m + 1] = a + (l + 1)
      /\ \A k \in 0 .. m : more[k] = bound[k] /\ bound[k] \in Nat /\ bound[k] <= a
  <2>1. \A k \in 0 .. m : k \in 0 .. m + 1 /\ k # m + 1 /\ bound[k] \in Nat /\ (k < m \/ k = m)
    BY <1>4
  <2>2. m + 1 \in 0 .. m + 1
    BY <1>4
  <2>3. more[m + 1] = a + (l + 1) /\ \A k \in 0 .. m : more[k] = bound[k]
    BY <1>7, <2>1, <2>2, Zenon
  <2>4. \A k \in 0 .. m : bound[k] <= a
    <3>1. m \in 0 .. m /\ \A k \in 0 .. m : k < m \/ k = m
      BY <2>1
    <3>2. \A k \in 0 .. m : k < m => bound[k] < bound[m]
      BY <1>4, <3>1, Zenon
    <3>3. \A k \in 0 .. m : bound[k] < a \/ bound[k] = a
      BY <1>5, <3>1, <3>2, Zenon
    <3> QED
      BY <2>1, <3>3
  <2> QED
    BY <2>1, <2>3, <2>4
<1>9. more \in [0 .. m + 1 -> Nat] /\ more[0] = 0 /\ more[m + 1] = Len(an)
  <2>1. \A k \in 0 .. m + 1 : more[k] \in Nat
    BY <1>8
  <2> QED
    BY <1>4, <1>6, <1>7, <1>8, <2>1
<1>10. \A j, k \in 0 .. m + 1 : j < k => more[j] < more[k]
  <2>1. SUFFICES ASSUME NEW j \in 0 .. m + 1, NEW k \in 0 .. m + 1, j < k
                 PROVE  more[j] < more[k]
    OBVIOUS
  <2>2. j \in 0 .. m
    BY <2>1
  <2>3. CASE k = m + 1
    BY <1>8, <2>2, <2>3
  <2>4. CASE k # m + 1
    BY <1>4, <1>8, <2>1, <2>2, <2>4
  <2> QED
    BY <2>3, <2>4
<1>11. ASSUME NEW k \in 1 .. m + 1
       PROVE  /\ more[k] = more[k - 1] + Len(on[k]) + 1
              /\ an[more[k]] = "LF"
              /\ \A i \in 1 .. Len(on[k]) : an[more[k - 1] + i] = on[k][i]
  <2>1. CASE k = m + 1
    <3>1. more[k] = a + (l + 1) /\ more[k - 1] = a /\ on[k] = text
      <4>1. k - 1 = m /\ m \in 0 .. m
        BY <2>1
      <4> QED
        BY <1>2, <1>5, <1>8, <2>1, <4>1, Zenon
    <3>2. an[a + (l + 1)] = "LF"
      <4>1. l + 1 \in 1 .. l + 1
        OBVIOUS
      <4> QED
        BY <1>3, <1>6, <4>1, Zenon
    <3>3. \A i \in 1 .. l : an[a + i] = text[i]
      BY <1>3, <1>6
    <3> QED
      BY <1>3, <3>1, <3>2, <3>3
  <2>2. CASE k # m + 1
    <3>1. k \in 1 .. m /\ k - 1 \in 0 .. m /\ k \in 0 .. m
      BY <2>2
    <3>2. PICK old \in Texts, n \in Nat : old = texts[k] /\ old = on[k] /\ n = Len(old)
      BY <1>1, <1>2, <3>1, TextTyped
    <3>3. PICK b \in Nat, c \in Nat : /\ b = more[k] /\ b = bound[k]
                                      /\ c = more[k - 1] /\ c = bound[k - 1]
      BY <1>8, <3>1
    <3>7. /\ bound[k] = bound[k - 1] + Len(texts[k]) + 1
          /\ all[bound[k]] = "LF"
          /\ \A i \in 1 .. Len(texts[k]) : all[bound[k - 1] + i] = texts[k][i]
      BY <1>4, <3>1
    <3>4. b = c + n + 1 /\ all[b] = "LF" /\ \A i \in 1 .. n : all[c + i] = old[i]
      BY <3>2, <3>3, <3>7, Zenon
    <3>5. b <= a
      BY <1>8, <3>1, <3>3
    <3>6. b \in 1 .. a /\ \A i \in 1 .. n : c + i \in 1 .. a
      BY <3>4, <3>5
    <3> QED
      BY <1>6, <3>2, <3>3, <3>4, <3>6
  <2> QED
    BY <2>1, <2>2
<1>12. ASSUME NEW i \in 1 .. Len(an), an[i] = "LF" PROVE \E k \in 1 .. m + 1 : more[k] = i
  <2>1. CASE i \in 1 .. a
    <3>1. PICK k \in 1 .. m : bound[k] = i
      BY <1>4, <1>5, <1>6, <1>12, <2>1
    <3>2. k \in 0 .. m /\ k \in 1 .. m + 1
      OBVIOUS
    <3> QED
      BY <1>8, <3>1, <3>2
  <2>2. CASE i \notin 1 .. a
    <3>1. i - a \in 1 .. l + 1 /\ i = a + (i - a)
      BY <1>6, <2>2
    <3>2. new[i - a] = "LF"
      BY <1>6, <1>12, <3>1
    <3>3. i - a = l + 1
      BY <1>3, <3>1, <3>2
    <3> QED
      BY <1>8, <3>1, <3>3
  <2> QED
    BY <2>1, <2>2
<1>13. Stream(an, more, on)
  BY <1>2, <1>9, <1>10, <1>11, <1>12 DEF Stream
<1> QED
  BY <1>1, <1>2, <1>3, <1>6, <1>8, <1>13

-----------------------------------------------------------------------------
(* The types *)

(* read_until stops at the first newline. *)
LEMMA FirstEnd ==
  ASSUME NEW x \in Seq(Bytes), HasLine(x)
  PROVE  /\ LineEnd(x) \in 1 .. Len(x) /\ x[LineEnd(x)] = "LF"
         /\ \A i \in 1 .. LineEnd(x) - 1 : x[i] # "LF"
<1>1. PICK ends : ends = {i \in 1 .. Len(x) : x[i] = "LF"}
  OBVIOUS
<1>2. ends # {} /\ ends \subseteq Nat
  BY <1>1 DEF HasLine, Contains
<1>3. LineEnd(x) = Min(ends)
  BY <1>1, <1>2 DEF LineEnd, SelectInSeq
<1>4. \E i \in ends : \A j \in ends : i <= j
  BY <1>2, Least
<1>5. LineEnd(x) \in ends /\ \A j \in ends : LineEnd(x) <= j
  BY <1>3, <1>4 DEF Min
<1> QED
  BY <1>1, <1>5

(* A line loses no more than a carriage return at its end. *)
LEMMA StrippedCarries ==
  ASSUME NEW S, NEW line \in Seq(S)
  PROVE  Stripped(line) \in Seq(S) /\ Carries(Stripped(line), line)
<1>1. CASE line # <<>> /\ Last(line) = "CR"
  <2>1. PICK n \in Nat : Len(line) = n + 1
    <3>1. Len(line) \in Nat /\ Len(line) # 0
      BY <1>1, EmptySeq
    <3>2. Len(line) - 1 \in Nat /\ Len(line) = (Len(line) - 1) + 1
      BY <3>1
    <3> QED
      BY <3>2
  <2>2. PICK f : f = SubSeq(line, 1, n)
    OBVIOUS
  <2>3. \A i \in 1 .. n : line[i] \in S
    BY <2>1
  <2>4. f \in Seq(S) /\ Len(f) = n /\ \A i \in 1 .. n : f[i] = line[i]
    BY <2>2, <2>3
  <2>5. line[n + 1] = "CR" /\ "CR" \in S
    <3>1. n + 1 \in 1 .. Len(line)
      BY <2>1
    <3> QED
      BY <1>1, <2>1, <3>1 DEF Last
  <2>6. /\ Append(f, "CR") \in Seq(S) /\ Len(Append(f, "CR")) = n + 1
        /\ \A i \in 1 .. n + 1 : Append(f, "CR")[i] = line[i]
    BY <2>4, <2>5
  <2>7. Append(f, "CR") = line
    BY <2>1, <2>6, SameElements
  <2>8. Stripped(line) = f
    BY <1>1, <2>1, <2>2 DEF Stripped, Front
  <2> QED
    BY <2>4, <2>7, <2>8 DEF Carries
<1>2. CASE ~(line # <<>> /\ Last(line) = "CR")
  BY <1>2 DEF Stripped, Carries
<1> QED
  BY <1>1, <1>2

LEMMA NextTyped == TypeOK /\ [Next]_vars => TypeOK'
<1> SUFFICES ASSUME TypeOK, [Next]_vars PROVE TypeOK'
  OBVIOUS
<1>1. ASSUME NEW text \in Texts, WriteStarts(text) PROVE TypeOK'
  <2>1. serialize(text) \in Seq(Bytes) /\ Append(sent, text) \in Seq(Texts)
    BY Serialized DEF TypeOK
  <2> QED
    BY <1>1, <2>1 DEF TypeOK, WriteStarts
<1>2. ASSUME WriteSome PROVE TypeOK'
  <2>1. PICK n \in 1 .. Len(writing) :
           /\ transit' = transit \o SubSeq(writing, 1, n)
           /\ writing' = SubSeq(writing, n + 1, Len(writing))
    BY <1>2 DEF WriteSome
  <2>2. writing \in Seq(Bytes) /\ n \in 0 .. Len(writing)
    BY DEF TypeOK
  <2>3. SubSeq(writing, 1, n) \in Seq(Bytes) /\ SubSeq(writing, n + 1, Len(writing)) \in Seq(Bytes)
    BY <2>2, CutAt
  <2>4. transit' \in Seq(Bytes) /\ writing' \in Seq(Bytes)
    BY <2>1, <2>3, Joined DEF TypeOK
  <2> QED
    BY <1>2, <2>4 DEF TypeOK, WriteSome
<1>3. ASSUME SenderCloses PROVE TypeOK'
  <2>1. PICK n \in 0 .. Len(transit) : transit' = SubSeq(transit, 1, n)
    BY <1>3 DEF SenderCloses
  <2>2. transit' \in Seq(Bytes)
    BY <2>1, CutAt DEF TypeOK
  <2> QED
    BY <1>3, <2>2 DEF TypeOK, SenderCloses
<1>4. ASSUME ReadSome PROVE TypeOK'
  <2>1. PICK n \in 1 .. Len(transit) :
           /\ m_incoming' = m_incoming \o SubSeq(transit, 1, n)
           /\ transit' = SubSeq(transit, n + 1, Len(transit))
    BY <1>4 DEF ReadSome
  <2>2. transit \in Seq(Bytes) /\ n \in 0 .. Len(transit)
    BY DEF TypeOK
  <2>3. SubSeq(transit, 1, n) \in Seq(Bytes) /\ SubSeq(transit, n + 1, Len(transit)) \in Seq(Bytes)
    BY <2>2, CutAt
  <2>4. m_incoming' \in Seq(Bytes) /\ transit' \in Seq(Bytes)
    BY <2>1, <2>3, Joined DEF TypeOK
  <2> QED
    BY <1>4, <2>4 DEF TypeOK, ReadSome
<1>5. ASSUME TakeLine PROVE TypeOK'
  <2>1. PICK n \in 1 .. Len(m_incoming) :
           /\ n = LineEnd(m_incoming)
           /\ \A i \in 1 .. n - 1 : m_incoming[i] # "LF"
    BY <1>5, FirstEnd DEF TakeLine, TypeOK
  <2>2. m_incoming \in Seq(Bytes) /\ n \in 0 .. Len(m_incoming) /\ n - 1 \in 0 .. Len(m_incoming)
    BY DEF TypeOK
  <2>3. PICK line : line = SubSeq(m_incoming, 1, n - 1)
    OBVIOUS
  <2>4. \A i \in 1 .. n - 1 : m_incoming[i] \in Bytes \ {"LF"}
    BY <2>1, <2>2
  <2>5. line \in Seq(Bytes \ {"LF"})
    BY <2>2, <2>3, <2>4
  <2>6. Stripped(line) \in Seq(Bytes \ {"LF"})
    BY <2>5, StrippedCarries
  <2>7. taken' = Append(taken, Stripped(line))
    BY <1>5, <2>1, <2>3 DEF TakeLine
  <2>8. taken' \in Seq(Seq(Bytes \ {"LF"}))
    BY <2>6, <2>7 DEF TypeOK
  <2>9. m_incoming' \in Seq(Bytes)
    BY <1>5, <2>1, <2>2, CutAt DEF TakeLine
  <2> QED
    BY <1>5, <2>8, <2>9 DEF TypeOK, TakeLine
<1>6. ASSUME ReadFails PROVE TypeOK'
  BY <1>6 DEF TypeOK, ReadFails
<1>7. ASSUME UNCHANGED vars PROVE TypeOK'
  BY <1>7 DEF TypeOK, vars
<1> QED
  BY <1>1, <1>2, <1>3, <1>4, <1>5, <1>6, <1>7 DEF Next, Reads

LEMMA TypeHolds == Spec => []TypeOK
<1>1. Init => TypeOK
  BY DEF Init, TypeOK
<1> QED
  BY <1>1, NextTyped, PTL DEF Spec

-----------------------------------------------------------------------------
(* Where the bytes are *)

Arrived == m_incoming \o transit
OnTheWay == m_incoming \o transit \o writing

(* The bytes of all texts, of which those of the lines that were taken are  *)
(* gone, with their newlines; the rest has arrived, in order, or is still   *)
(* to be written, unless the sender has closed.                             *)
Flow(all, bound) ==
  /\ Stream(all, bound, sent)
  /\ Len(taken) <= Len(sent)
  /\ \A n \in 1 .. Len(taken) : taken[n] = Stripped(sent[n])
  /\ Part(Arrived, all, bound[Len(taken)])
  /\ peer = "open" =>
       /\ Part(OnTheWay, all, bound[Len(taken)])
       /\ bound[Len(taken)] + Len(OnTheWay) = Len(all)
       /\ writing # <<>> => sent # <<>> /\ Len(writing) <= Len(sent[Len(sent)]) + 1

FlowInv == \E all, bound : Flow(all, bound)

LEMMA FlowTyped ==
  ASSUME TypeOK, NEW all, NEW bound, Flow(all, bound)
  PROVE  /\ all \in Seq(Bytes) /\ Len(all) \in Nat
         /\ sent \in Seq(Texts) /\ Len(sent) \in Nat /\ Len(taken) \in 0 .. Len(sent)
         /\ bound[Len(taken)] \in Nat
         /\ Arrived \in Seq(Bytes) /\ OnTheWay \in Seq(Bytes)
         /\ OnTheWay = Arrived \o writing
<1>1. /\ m_incoming \in Seq(Bytes) /\ transit \in Seq(Bytes) /\ writing \in Seq(Bytes)
      /\ sent \in Seq(Texts) /\ Len(sent) \in Nat /\ Len(taken) \in Nat
  BY DEF TypeOK
<1>2. Arrived \in Seq(Bytes)
  BY <1>1, Joined DEF Arrived
<1>3. OnTheWay = Arrived \o writing
  BY DEF OnTheWay, Arrived
<1>4. OnTheWay \in Seq(Bytes)
  BY <1>1, <1>2, <1>3, Joined
<1>5. Len(taken) \in 0 .. Len(sent)
  BY <1>1 DEF Flow
<1>6. all \in Seq(Bytes) /\ bound[Len(taken)] \in Nat
  BY <1>5 DEF Flow, Stream
<1> QED
  BY <1>1, <1>2, <1>3, <1>4, <1>5, <1>6

(* A step that leaves the texts and the lines alone, and some of what has   *)
(* arrived where it was.                                                    *)
LEMMA SameStream ==
  ASSUME NEW all, NEW bound, Flow(all, bound), UNCHANGED <<sent, taken>>,
         Part(Arrived', all, bound[Len(taken)]),
         peer' = "open" =>
           /\ Part(OnTheWay', all, bound[Len(taken)])
           /\ bound[Len(taken)] + Len(OnTheWay') = Len(all)
           /\ writing' # <<>> => sent # <<>> /\ Len(writing') <= Len(sent[Len(sent)]) + 1
  PROVE  FlowInv'
BY DEF Flow, FlowInv

LEMMA LastTyped ==
  ASSUME sent \in Seq(Texts), sent # <<>>
  PROVE  /\ Len(sent) \in 1 .. Len(sent) /\ sent[Len(sent)] \in Texts
         /\ Len(sent[Len(sent)]) \in Nat
<1>1. Len(sent) \in 1 .. Len(sent)
  BY EmptySeq
<1>2. sent[Len(sent)] \in Texts
  BY <1>1
<1> QED
  BY <1>1, <1>2, TextTyped

LEMMA WriteStartsFlow ==
  ASSUME TypeOK, NEW all, NEW bound, Flow(all, bound), NEW text \in Texts, WriteStarts(text)
  PROVE  FlowInv'
<1>1. /\ all \in Seq(Bytes) /\ sent \in Seq(Texts)
      /\ Len(sent) \in Nat /\ Len(taken) \in 0 .. Len(sent) /\ bound[Len(taken)] \in Nat
      /\ Arrived \in Seq(Bytes) /\ OnTheWay = Arrived \o writing
  BY FlowTyped
<1>2. /\ peer = "open" /\ peer' = "open" /\ writing = <<>> /\ writing' = serialize(text)
      /\ sent' = Append(sent, text) /\ taken' = taken /\ Arrived' = Arrived
  BY DEF WriteStarts, Arrived
<1>3. serialize(text) \in Seq(Bytes) /\ Len(serialize(text)) = Len(text) + 1
  BY Serialized
<1>4. OnTheWay = Arrived
  <2>1. Arrived \o <<>> = Arrived
    BY <1>1, ConcatEmptySeq
  <2> QED
    BY <1>1, <1>2, <2>1
<1>5. OnTheWay' = Arrived \o serialize(text)
  BY <1>2 DEF OnTheWay, Arrived
<1>6. PICK o \in Nat : o = bound[Len(taken)]
  BY <1>1
<1>7. Part(Arrived, all, o) /\ o + Len(Arrived) = Len(all)
  BY <1>2, <1>4, <1>6 DEF Flow
<1>8. PICK arrived \in Seq(Bytes), new \in Seq(Bytes) : arrived = Arrived /\ new = serialize(text)
  BY <1>1, <1>3
<1>9. /\ Part(arrived, all \o new, o)
      /\ Part(arrived \o new, all \o new, o)
      /\ o + Len(arrived \o new) = Len(all \o new)
  <2>1. Part(arrived, all, o) /\ o + Len(arrived) = Len(all) /\ all \in Seq(Bytes)
    BY <1>1, <1>7, <1>8
  <2> QED
    BY <2>1, PartGrows, Zenon
<1>10. Stream(all, bound, sent)
  BY DEF Flow
<1>11. PICK more : /\ Stream(all \o serialize(text), more, Append(sent, text))
                   /\ \A k \in 0 .. Len(sent) : more[k] = bound[k]
  BY <1>1, <1>10, StreamGrows
<1>12. more[Len(taken)] = o
  BY <1>1, <1>6, <1>11
<1>13. /\ Len(Append(sent, text)) = Len(sent) + 1
       /\ Append(sent, text)[Len(sent) + 1] = text
       /\ \A n \in 1 .. Len(sent) : Append(sent, text)[n] = sent[n]
  BY <1>1
<1>14. /\ Len(taken) <= Len(sent) + 1
       /\ \A n \in 1 .. Len(taken) : taken[n] = Stripped(Append(sent, text)[n])
  <2>1. \A n \in 1 .. Len(taken) : n \in 1 .. Len(sent)
    BY <1>1
  <2>2. \A n \in 1 .. Len(taken) : taken[n] = Stripped(sent[n])
    BY DEF Flow
  <2> QED
    BY <1>1, <1>13, <2>1, <2>2
<1>15. Len(text) + 1 <= Len(text) + 1
  BY Serialized
<1>16. /\ Stream(all \o new, more, sent')
       /\ Len(taken') <= Len(sent')
       /\ \A n \in 1 .. Len(taken') : taken'[n] = Stripped(sent'[n])
  <2>1. Stream(all \o new, more, sent')
    BY <1>2, <1>8, <1>11, Zenon
  <2> QED
    BY <1>2, <1>13, <1>14, <2>1
<1>17. Part(Arrived', all \o new, more[Len(taken')])
  BY <1>2, <1>8, <1>9, <1>12
<1>18. /\ Part(OnTheWay', all \o new, more[Len(taken')])
       /\ more[Len(taken')] + Len(OnTheWay') = Len(all \o new)
       /\ sent' # <<>> /\ Len(writing') <= Len(sent'[Len(sent')]) + 1
  <2>1. OnTheWay' = arrived \o new /\ more[Len(taken')] = o
    BY <1>2, <1>5, <1>8, <1>12
  <2>2. sent' # <<>>
    <3>1. Len(sent') = Len(sent) + 1 /\ Len(<<>>) = 0
      BY <1>2, <1>13
    <3>2. Len(sent') # 0
      BY <1>1, <3>1
    <3> QED
      BY <3>1, <3>2, Zenon
  <2>3. Len(writing') <= Len(sent'[Len(sent')]) + 1
    <3>1. Len(writing') = Len(text) + 1 /\ Len(sent') = Len(sent) + 1
      BY <1>2, <1>3, <1>13, Zenon
    <3>2. sent'[Len(sent')] = text
      BY <1>2, <1>13, Zenon
    <3> QED
      BY <1>15, <3>1, <3>2, Zenon
  <2> QED
    BY <1>9, <2>1, <2>2, <2>3, Zenon
<1>19. Flow(all \o new, more)'
  BY <1>16, <1>17, <1>18 DEF Flow
<1> QED
  BY <1>19 DEF FlowInv

(* Bytes that are written have arrived. *)
LEMMA WriteSomeFlow ==
  ASSUME TypeOK, NEW all, NEW bound, Flow(all, bound), WriteSome
  PROVE  /\ FlowInv' /\ Part(Arrived', all, bound[Len(taken)])
         /\ Arrived' \in Seq(Bytes) /\ Len(Arrived) <= Len(Arrived')
<1>1. /\ all \in Seq(Bytes) /\ bound[Len(taken)] \in Nat
      /\ m_incoming \in Seq(Bytes) /\ transit \in Seq(Bytes) /\ writing \in Seq(Bytes)
  BY FlowTyped DEF TypeOK
<1>2. PICK n \in 0 .. Len(writing), front \in Seq(Bytes), back \in Seq(Bytes) :
         /\ front = SubSeq(writing, 1, n) /\ back = SubSeq(writing, n + 1, Len(writing))
         /\ transit' = transit \o front /\ writing' = back
  <2>1. PICK n \in 1 .. Len(writing) :
           /\ transit' = transit \o SubSeq(writing, 1, n)
           /\ writing' = SubSeq(writing, n + 1, Len(writing))
    BY DEF WriteSome
  <2>2. n \in 0 .. Len(writing)
    OBVIOUS
  <2>3. SubSeq(writing, 1, n) \in Seq(Bytes) /\ SubSeq(writing, n + 1, Len(writing)) \in Seq(Bytes)
    BY <1>1, <2>2, CutAt
  <2> QED
    BY <2>1, <2>2, <2>3, Zenon
<1>3. /\ front \in Seq(Bytes) /\ back \in Seq(Bytes)
      /\ Len(back) = Len(writing) - n /\ front \o back = writing
  BY <1>1, <1>2, CutAt
<1>4. /\ UNCHANGED <<sent, taken, m_incoming, peer>> /\ peer = "open"
  BY DEF WriteSome
<1>5. /\ m_incoming \o transit \in Seq(Bytes) /\ transit \o front \in Seq(Bytes)
      /\ m_incoming \o (transit \o front) \in Seq(Bytes)
  BY <1>1, <1>3, Joined
<1>6. OnTheWay' = (m_incoming \o (transit \o front)) \o back
  BY <1>2, <1>4 DEF OnTheWay
<1>7. m_incoming \o (transit \o front) = (m_incoming \o transit) \o front
  <2>1. PICK x \in Seq(Bytes), y \in Seq(Bytes) : x = m_incoming /\ y = transit
    BY <1>1
  <2>2. (x \o y) \o front = x \o (y \o front)
    BY JoinedAgain
  <2> QED
    BY <2>1, <2>2
<1>8. ((m_incoming \o transit) \o front) \o back = (m_incoming \o transit) \o (front \o back)
  BY <1>3, <1>5, JoinedAgain
<1>9. OnTheWay' = OnTheWay
  BY <1>3, <1>6, <1>7, <1>8 DEF OnTheWay
<1>10. Arrived' = m_incoming \o (transit \o front)
  BY <1>2, <1>4 DEF Arrived
<1>11. /\ Part(OnTheWay, all, bound[Len(taken)])
       /\ bound[Len(taken)] + Len(OnTheWay) = Len(all)
       /\ writing # <<>> => sent # <<>> /\ Len(writing) <= Len(sent[Len(sent)]) + 1
  BY <1>4 DEF Flow
<1>12. Part(Arrived', all, bound[Len(taken)])
  <2>1. PICK arrived \in Seq(Bytes), o \in Nat :
           arrived = m_incoming \o (transit \o front) /\ o = bound[Len(taken)]
    BY <1>1, <1>5
  <2>2. Part(arrived \o back, all, o)
    BY <1>6, <1>9, <1>11, <2>1, Zenon
  <2>3. Part(arrived, all, o)
    BY <1>1, <1>3, <2>2, PartsOfPart
  <2> QED
    BY <1>10, <2>1, <2>3, Zenon
<1>13. writing' # <<>> => sent # <<>> /\ Len(writing') <= Len(sent[Len(sent)]) + 1
  <2>1. SUFFICES ASSUME writing' # <<>>
                 PROVE  sent # <<>> /\ Len(writing') <= Len(sent[Len(sent)]) + 1
    OBVIOUS
  <2>2. n \in Nat /\ Len(writing) \in Nat /\ Len(back) <= Len(writing)
    BY <1>1, <1>2, <1>3
  <2>3. writing # <<>>
    <3>1. Len(back) \in Nat /\ Len(back) # 0
      BY <1>2, <1>3, <2>1, EmptySeq
    <3>2. Len(writing) # 0
      BY <2>2, <3>1
    <3> QED
      BY <3>2
  <2>4. Len(sent[Len(sent)]) \in Nat
    BY <1>11, <2>3, LastTyped DEF TypeOK
  <2> QED
    BY <1>2, <1>11, <2>2, <2>3, <2>4
<1>14. FlowInv'
  BY <1>4, <1>9, <1>11, <1>12, <1>13, SameStream
<1>15. PICK old \in Seq(Bytes) : old = Arrived
  BY <1>5 DEF Arrived
<1>16. Len(old \o front) = Len(old) + Len(front) /\ Len(old) \in Nat /\ Len(front) \in Nat
  BY <1>3, Joined
<1>17. Len(old) <= Len(old \o front)
  BY <1>16
<1>18. Arrived' = old \o front
  BY <1>7, <1>10, <1>15 DEF Arrived
<1> QED
  BY <1>5, <1>10, <1>12, <1>14, <1>15, <1>17, <1>18

(* A reset takes away from the end. *)
LEMMA SenderClosesFlow ==
  ASSUME TypeOK, NEW all, NEW bound, Flow(all, bound), SenderCloses
  PROVE  /\ FlowInv' /\ Part(Arrived', all, bound[Len(taken)])
         /\ Arrived' \in Seq(Bytes) /\ Len(Arrived') <= Len(Arrived)
<1>1. /\ all \in Seq(Bytes) /\ bound[Len(taken)] \in Nat
      /\ m_incoming \in Seq(Bytes) /\ transit \in Seq(Bytes)
  BY FlowTyped DEF TypeOK
<1>2. PICK n \in 0 .. Len(transit) : transit' = SubSeq(transit, 1, n)
  BY DEF SenderCloses
<1>3. PICK front \in Seq(Bytes), back \in Seq(Bytes) :
         front = SubSeq(transit, 1, n) /\ front \o back = transit
  <2>1. transit \in Seq(Bytes) /\ n \in 0 .. Len(transit)
    BY <1>1
  <2>2. /\ SubSeq(transit, 1, n) \in Seq(Bytes) /\ SubSeq(transit, n + 1, Len(transit)) \in Seq(Bytes)
        /\ SubSeq(transit, 1, n) \o SubSeq(transit, n + 1, Len(transit)) = transit
    BY <2>1, CutAt, Zenon
  <2> QED
    BY <2>2, Zenon
<1>4. UNCHANGED <<sent, taken, m_incoming, writing>> /\ peer' = "closed"
  BY DEF SenderCloses
<1>5. Arrived' = m_incoming \o front /\ Arrived = m_incoming \o (front \o back)
  BY <1>2, <1>3, <1>4 DEF Arrived
<1>6. Arrived = (m_incoming \o front) \o back
  BY <1>1, <1>3, <1>5, JoinedAgain
<1>7. PICK arrived \in Seq(Bytes), o \in Nat :
         arrived = m_incoming \o front /\ o = bound[Len(taken)]
  BY <1>1, <1>3, Joined
<1>8. Part(arrived \o back, all, o)
  BY <1>6, <1>7, Zenon DEF Flow
<1>9. Part(arrived, all, o)
  BY <1>1, <1>3, <1>8, PartsOfPart
<1>10. Part(Arrived', all, bound[Len(taken)])
  BY <1>5, <1>7, <1>9, Zenon
<1>11. Len(arrived \o back) = Len(arrived) + Len(back) /\ Len(arrived) \in Nat /\ Len(back) \in Nat
  BY Joined
<1>12. Len(arrived) <= Len(arrived \o back)
  BY <1>11
<1>13. Arrived' \in Seq(Bytes) /\ Len(Arrived') <= Len(Arrived)
  BY <1>5, <1>6, <1>7, <1>12, Zenon
<1>14. peer' # "open"
  BY <1>4
<1> QED
  BY <1>4, <1>10, <1>13, <1>14, SameStream

(* Bytes go from the socket into the streambuf. *)
LEMMA ReadSomeFlow ==
  ASSUME TypeOK, NEW all, NEW bound, Flow(all, bound), ReadSome
  PROVE  FlowInv' /\ Arrived' = Arrived
<1>1. m_incoming \in Seq(Bytes) /\ transit \in Seq(Bytes)
  BY DEF TypeOK
<1>2. PICK n \in 0 .. Len(transit) :
         /\ m_incoming' = m_incoming \o SubSeq(transit, 1, n)
         /\ transit' = SubSeq(transit, n + 1, Len(transit))
  <2>1. PICK n \in 1 .. Len(transit) :
           /\ m_incoming' = m_incoming \o SubSeq(transit, 1, n)
           /\ transit' = SubSeq(transit, n + 1, Len(transit))
    BY DEF ReadSome
  <2>2. n \in 0 .. Len(transit)
    OBVIOUS
  <2> QED
    BY <2>1, <2>2, Zenon
<1>3. PICK front \in Seq(Bytes), back \in Seq(Bytes) :
         /\ front = SubSeq(transit, 1, n) /\ back = SubSeq(transit, n + 1, Len(transit))
         /\ front \o back = transit
  BY <1>1, CutAt
<1>4. UNCHANGED <<sent, taken, peer, writing>>
  BY DEF ReadSome
<1>5. Arrived' = (m_incoming \o front) \o back
  BY <1>2, <1>3 DEF Arrived
<1>6. Arrived' = Arrived
  <2>1. (m_incoming \o front) \o back = m_incoming \o (front \o back)
    BY <1>1, JoinedAgain
  <2> QED
    BY <1>3, <1>5, <2>1, Zenon DEF Arrived
<1>7. OnTheWay = Arrived \o writing /\ OnTheWay' = Arrived' \o writing'
  BY DEF OnTheWay, Arrived
<1>8. OnTheWay' = OnTheWay
  BY <1>4, <1>6, <1>7
<1>9. FlowInv'
  BY <1>4, <1>6, <1>8, SameStream DEF Flow
<1> QED
  BY <1>6, <1>9

(* What a part begins with, up to its first newline, is the next text.      *)
LEMMA FirstLine ==
  ASSUME NEW texts \in Seq(Texts), NEW all, NEW bound, Stream(all, bound, texts),
         NEW t \in 0 .. Len(texts), NEW x \in Seq(Bytes), Part(x, all, bound[t]),
         NEW e \in 1 .. Len(x), x[e] = "LF", \A i \in 1 .. e - 1 : x[i] # "LF"
  PROVE  /\ t + 1 \in 1 .. Len(texts)
         /\ bound[t + 1] = bound[t] + e
         /\ SubSeq(x, 1, e - 1) = texts[t + 1]
<1>1. PICK m \in Nat, l \in Nat, o \in Nat : m = Len(texts) /\ l = Len(x) /\ o = bound[t]
  <2>1. bound[t] \in Nat
    BY DEF Stream
  <2> QED
    BY <2>1
<1>2. /\ all \in Seq(Bytes) /\ bound \in [0 .. m -> Nat]
      /\ \A j, k \in 0 .. m : j < k => bound[j] < bound[k]
      /\ \A k \in 1 .. m : /\ bound[k] = bound[k - 1] + Len(texts[k]) + 1
                           /\ all[bound[k]] = "LF"
                           /\ \A i \in 1 .. Len(texts[k]) : all[bound[k - 1] + i] = texts[k][i]
      /\ \A i \in 1 .. Len(all) : all[i] = "LF" => \E k \in 1 .. m : bound[k] = i
  BY <1>1 DEF Stream
<1>3. o + l <= Len(all) /\ \A i \in 1 .. l : x[i] = all[o + i]
  BY <1>1 DEF Part
<1>4. t \in Nat /\ t <= m /\ e \in Nat /\ 1 <= e /\ e <= l /\ Len(all) \in Nat
  BY <1>1, <1>2
<1>5. PICK k \in 1 .. m : bound[k] = o + e
  <2>1. o + e \in 1 .. Len(all) /\ all[o + e] = "LF"
    BY <1>3, <1>4
  <2> QED
    BY <1>2, <2>1
<1>6. t < k
  <2>1. SUFFICES ASSUME k <= t PROVE FALSE
    BY <1>4
  <2>2. bound[k] <= o
    <3>1. k \in 0 .. m /\ t \in 0 .. m /\ (k < t \/ k = t)
      BY <1>4, <2>1
    <3>2. bound[k] < bound[t] \/ bound[k] = bound[t]
      BY <1>2, <3>1
    <3>3. bound[k] < o \/ bound[k] = o
      BY <1>1, <3>2
    <3>4. bound[k] \in Nat
      BY <1>2, <3>1
    <3> QED
      BY <3>3, <3>4
  <2> QED
    BY <1>4, <1>5, <2>2
<1>7. PICK n \in Nat, b \in Nat : n = Len(texts[t + 1]) /\ b = bound[t + 1] /\ b = o + n + 1
  <2>1. t + 1 \in 1 .. m /\ (t + 1) - 1 = t
    BY <1>4, <1>6
  <2>2. texts[t + 1] \in Texts
    BY <1>1, <2>1
  <2>3. Len(texts[t + 1]) \in Nat
    BY <2>2, TextTyped
  <2>4. bound[t + 1] = o + Len(texts[t + 1]) + 1
    BY <1>1, <1>2, <2>1
  <2>5. bound[t + 1] \in Nat
    BY <2>3, <2>4
  <2> QED
    BY <2>3, <2>4, <2>5
<1>8. t + 1 \in 1 .. m
  BY <1>4, <1>6
<1>18. b = o + n + 1
  BY <1>7, Zenon
<1>9. b = o + e
  <2>1. b <= o + e
    <3>1. k \in 0 .. m /\ t + 1 \in 0 .. m /\ (t + 1 < k \/ t + 1 = k)
      BY <1>4, <1>6
    <3>2. bound[t + 1] < bound[k] \/ bound[t + 1] = bound[k]
      BY <1>2, <3>1
    <3>3. b < o + e \/ b = o + e
      BY <1>5, <1>7, <3>2, Zenon
    <3> QED
      BY <1>4, <3>3
  <2>2. n + 1 \in 1 .. l /\ n + 1 <= e
    BY <1>4, <1>18, <2>1
  <2>3. x[n + 1] = "LF"
    <3>1. x[n + 1] = all[o + (n + 1)] /\ o + (n + 1) = b
      BY <1>3, <1>7, <2>2
    <3>2. all[bound[t + 1]] = "LF"
      BY <1>2, <1>8
    <3> QED
      BY <1>7, <3>1, <3>2
  <2>4. ~(n + 1 < e)
    <3>1. n + 1 < e => n + 1 \in 1 .. e - 1
      BY <1>4
    <3> QED
      BY <2>3, <3>1
  <2> QED
    BY <1>4, <1>18, <2>2, <2>4
<1>10. e = n + 1
  BY <1>4, <1>9, <1>18
<1>11. PICK text \in Texts : text = texts[t + 1]
  BY <1>1, <1>8
<1>12. text \in Seq(Bytes) /\ Len(text) = n
  BY <1>7, <1>11, TextTyped
<1>13. PICK s : s = SubSeq(x, 1, n)
  OBVIOUS
<1>14. s \in Seq(Bytes) /\ Len(s) = n /\ \A i \in 1 .. n : s[i] = x[i]
  <2>1. \A i \in 1 .. n : i \in 1 .. Len(x) /\ x[i] \in Bytes
    BY <1>1, <1>4, <1>10
  <2> QED
    BY <1>13, <2>1
<1>15. \A i \in 1 .. n : x[i] = text[i]
  <2>1. (t + 1) - 1 = t
    BY <1>4
  <2>2. \A i \in 1 .. n : all[o + i] = text[i]
    <3>1. \A i \in 1 .. Len(texts[t + 1]) : all[bound[(t + 1) - 1] + i] = texts[t + 1][i]
      BY <1>2, <1>8
    <3>2. \A i \in 1 .. Len(texts[t + 1]) : all[bound[t] + i] = texts[t + 1][i]
      BY <2>1, <3>1
    <3> QED
      BY <1>1, <1>7, <1>11, <3>2, Zenon
  <2>3. \A i \in 1 .. n : i \in 1 .. l
    BY <1>4, <1>10
  <2> QED
    BY <1>3, <2>2, <2>3
<1>16. s = text
  BY <1>12, <1>14, <1>15, SameElements
<1>17. e - 1 = n
  BY <1>10
<1> QED
  BY <1>1, <1>7, <1>8, <1>9, <1>11, <1>13, <1>16, <1>17

(* The line that is taken is the next text, and what is left starts at the  *)
(* next boundary.                                                           *)
LEMMA TakeLineFlow ==
  ASSUME TypeOK, NEW all, NEW bound, Flow(all, bound), TakeLine
  PROVE  /\ Flow(all, bound)' /\ Len(taken) + 1 \in 1 .. Len(sent)
         /\ Len(taken') = Len(taken) + 1
         /\ Arrived' \in Seq(Bytes)
         /\ bound[Len(taken)] + Len(Arrived) = bound[Len(taken) + 1] + Len(Arrived')
<1>1. /\ all \in Seq(Bytes) /\ sent \in Seq(Texts) /\ bound[Len(taken)] \in Nat
      /\ Len(taken) \in 0 .. Len(sent) /\ Len(sent) \in Nat
      /\ m_incoming \in Seq(Bytes) /\ transit \in Seq(Bytes) /\ writing \in Seq(Bytes)
      /\ Arrived \in Seq(Bytes)
  BY FlowTyped DEF TypeOK
<1>2. PICK t \in Nat, o \in Nat : t = Len(taken) /\ o = bound[t]
  BY <1>1
<1>3. PICK e \in 1 .. Len(m_incoming) :
         /\ e = LineEnd(m_incoming) /\ m_incoming[e] = "LF"
         /\ \A i \in 1 .. e - 1 : m_incoming[i] # "LF"
  BY <1>1, FirstEnd DEF TakeLine
<1>4. PICK front \in Seq(Bytes), back \in Seq(Bytes) :
         /\ front = SubSeq(m_incoming, 1, e)
         /\ back = SubSeq(m_incoming, e + 1, Len(m_incoming))
         /\ Len(front) = e /\ front \o back = m_incoming
  <2>1. m_incoming \in Seq(Bytes) /\ e \in 0 .. Len(m_incoming)
    BY <1>1
  <2>2. /\ SubSeq(m_incoming, 1, e) \in Seq(Bytes)
        /\ SubSeq(m_incoming, e + 1, Len(m_incoming)) \in Seq(Bytes)
        /\ Len(SubSeq(m_incoming, 1, e)) = e
        /\ SubSeq(m_incoming, 1, e) \o SubSeq(m_incoming, e + 1, Len(m_incoming)) = m_incoming
    BY <2>1, CutAt
  <2> QED
    BY <2>2, Zenon
<1>5. /\ UNCHANGED <<sent, peer, transit, writing>> /\ m_incoming' = back
      /\ taken' = Append(taken, Stripped(SubSeq(m_incoming, 1, e - 1)))
  BY <1>3, <1>4 DEF TakeLine
<1>6. PICK rest \in Seq(Bytes) : rest = back \o transit /\ Arrived' = rest
  BY <1>1, <1>5, Joined DEF Arrived
<1>7. Arrived = front \o rest
  <2>1. (front \o back) \o transit = front \o (back \o transit)
    <3>1. transit \in Seq(Bytes)
      BY <1>1
    <3> QED
      BY <3>1, JoinedAgain, Zenon
  <2> QED
    BY <1>4, <1>6, <2>1 DEF Arrived
<1>8. PICK more \in Seq(Bytes) : more = rest \o writing /\ OnTheWay' = more
  <2>1. OnTheWay' = rest \o writing
    BY <1>5, <1>6 DEF OnTheWay
  <2> QED
    BY <1>1, <2>1, Joined
<1>9. OnTheWay = front \o more
  <2>1. (front \o rest) \o writing = front \o (rest \o writing)
    <3>1. PICK w \in Seq(Bytes) : w = writing
      BY <1>1
    <3>2. (front \o rest) \o w = front \o (rest \o w)
      BY JoinedAgain
    <3> QED
      BY <3>1, <3>2
  <2>2. OnTheWay = Arrived \o writing
    BY DEF OnTheWay, Arrived
  <2> QED
    BY <1>7, <1>8, <2>1, <2>2
<1>10. Part(Arrived, all, o)
  BY <1>2 DEF Flow
<1>11. Part(rest, all, o + e)
  <2>1. Part(front \o rest, all, o)
    BY <1>7, <1>10
  <2> QED
    BY <1>1, <1>4, <2>1, PartsOfPart
<1>12. Part(m_incoming, all, o)
  <2>1. Part(m_incoming \o transit, all, o)
    BY <1>10 DEF Arrived
  <2> QED
    BY <1>1, <2>1, PartsOfPart
<1>13. /\ t + 1 \in 1 .. Len(sent) /\ bound[t + 1] = o + e
       /\ SubSeq(m_incoming, 1, e - 1) = sent[t + 1]
  <2>1. PICK x \in Seq(Bytes) : x = m_incoming
    BY <1>1
  <2>2. /\ Stream(all, bound, sent) /\ t \in 0 .. Len(sent) /\ Part(x, all, bound[t])
        /\ e \in 1 .. Len(x) /\ x[e] = "LF" /\ \A i \in 1 .. e - 1 : x[i] # "LF"
    BY <1>1, <1>2, <1>3, <1>12, <2>1 DEF Flow
  <2>3. /\ t + 1 \in 1 .. Len(sent) /\ bound[t + 1] = bound[t] + e
        /\ SubSeq(x, 1, e - 1) = sent[t + 1]
    <3>1. sent \in Seq(Texts)
      BY <1>1
    <3> QED
      BY <2>2, <3>1, FirstLine
  <2> QED
    BY <1>2, <2>1, <2>3
<1>14. /\ taken' = Append(taken, Stripped(sent[t + 1])) /\ Len(taken') = t + 1
       /\ \A n \in 1 .. t + 1 : taken'[n] = Stripped(sent[n])
  <2>1. taken' = Append(taken, Stripped(sent[t + 1]))
    BY <1>5, <1>13
  <2>2. PICK line : line = Stripped(sent[t + 1])
    OBVIOUS
  <2>3. taken \in Seq(Seq(Bytes \ {"LF"}))
    BY DEF TypeOK
  <2>4. /\ Len(Append(taken, line)) = t + 1 /\ Append(taken, line)[t + 1] = line
        /\ \A n \in 1 .. t : Append(taken, line)[n] = taken[n]
    BY <1>2, <2>3
  <2>5. \A n \in 1 .. t : taken[n] = Stripped(sent[n])
    BY <1>2 DEF Flow
  <2>6. \A n \in 1 .. t + 1 : n \in 1 .. t \/ n = t + 1
    OBVIOUS
  <2> QED
    BY <2>1, <2>2, <2>4, <2>5, <2>6
<1>15. peer' = "open" => /\ Part(more, all, o + e) /\ (o + e) + Len(more) = Len(all)
                         /\ writing # <<>> => sent # <<>> /\ Len(writing) <= Len(sent[Len(sent)]) + 1
  <2>1. SUFFICES ASSUME peer = "open"
                 PROVE  /\ Part(more, all, o + e) /\ (o + e) + Len(more) = Len(all)
                        /\ writing # <<>> => sent # <<>> /\ Len(writing) <= Len(sent[Len(sent)]) + 1
    BY <1>5
  <2>2. /\ Part(front \o more, all, o) /\ o + Len(front \o more) = Len(all)
        /\ writing # <<>> => sent # <<>> /\ Len(writing) <= Len(sent[Len(sent)]) + 1
    BY <1>2, <1>9, <2>1 DEF Flow
  <2>3. Part(more, all, o + e)
    BY <1>1, <1>4, <2>2, PartsOfPart
  <2>4. Len(front \o more) = Len(front) + Len(more) /\ Len(more) \in Nat
    BY Joined
  <2>5. PICK l \in Nat, a \in Nat : l = Len(more) /\ a = Len(all)
    BY <1>1, <2>4
  <2>6. o + (e + l) = a
    BY <1>4, <2>2, <2>4, <2>5, Zenon
  <2>7. (o + e) + l = a
    BY <2>6
  <2> QED
    BY <2>2, <2>3, <2>5, <2>7, Zenon
<1>16. Stream(all, bound, sent) /\ t + 1 <= Len(sent)
  BY <1>1, <1>13 DEF Flow
<1>17. Flow(all, bound)'
  BY <1>5, <1>6, <1>8, <1>11, <1>13, <1>14, <1>15, <1>16 DEF Flow
<1>18. o + Len(Arrived) = (o + e) + Len(rest)
  <2>1. Len(Arrived) = Len(front) + Len(rest) /\ Len(rest) \in Nat
    BY <1>7, Joined
  <2>2. PICK l \in Nat, a \in Nat : l = Len(rest) /\ a = Len(Arrived)
    BY <1>1, <2>1
  <2>3. a = e + l
    BY <1>4, <2>1, <2>2, Zenon
  <2>4. o + a = (o + e) + l
    BY <2>3
  <2> QED
    BY <2>2, <2>4
<1> QED
  BY <1>2, <1>6, <1>13, <1>14, <1>17, <1>18

LEMMA FlowHolds == Spec => []FlowInv
<1>1. Init => FlowInv
  <2> SUFFICES ASSUME Init PROVE FlowInv
    OBVIOUS
  <2>1. PICK all, bound : all = <<>> /\ bound = [k \in 0 .. 0 |-> 0]
    OBVIOUS
  <2>2. /\ Len(sent) = 0 /\ Len(taken) = 0 /\ writing = <<>>
        /\ Arrived = <<>> /\ OnTheWay = <<>>
    BY DEF Init, Arrived, OnTheWay
  <2>3. Stream(all, bound, sent)
    BY <2>1, <2>2 DEF Stream
  <2>4. Part(<<>>, all, 0) /\ bound[0] = 0
    BY <2>1 DEF Part
  <2>5. Flow(all, bound)
    BY <2>1, <2>2, <2>3, <2>4 DEF Flow
  <2> QED
    BY <2>5 DEF FlowInv
<1>2. TypeOK /\ FlowInv /\ [Next]_vars => FlowInv'
  <2> SUFFICES ASSUME TypeOK, FlowInv, [Next]_vars PROVE FlowInv'
    OBVIOUS
  <2>1. PICK all, bound : Flow(all, bound)
    BY DEF FlowInv
  <2>2. ASSUME NEW text \in Texts, WriteStarts(text) PROVE FlowInv'
    BY <2>1, <2>2, WriteStartsFlow
  <2>3. ASSUME WriteSome PROVE FlowInv'
    BY <2>1, <2>3, WriteSomeFlow
  <2>4. ASSUME SenderCloses PROVE FlowInv'
    BY <2>1, <2>4, SenderClosesFlow
  <2>5. ASSUME ReadSome PROVE FlowInv'
    BY <2>1, <2>5, ReadSomeFlow
  <2>6. ASSUME TakeLine PROVE FlowInv'
    BY <2>1, <2>6, TakeLineFlow DEF FlowInv
  <2>7. ASSUME ReadFails \/ UNCHANGED vars PROVE FlowInv'
    BY <2>1, <2>7 DEF ReadFails, vars, FlowInv, Flow, Arrived, OnTheWay
  <2> QED
    BY <2>2, <2>3, <2>4, <2>5, <2>6, <2>7 DEF Next, Reads
<1> QED
  BY <1>1, <1>2, TypeHolds, PTL DEF Spec

-----------------------------------------------------------------------------
(* The lines that are under way *)

LinesOf(texts, t, h) == [k \in 1 .. h |-> Stripped(texts[t + k])]

LEMMA LinesOfTyped ==
  ASSUME NEW texts \in Seq(Texts), NEW t \in Nat, NEW h \in Nat, t + h <= Len(texts)
  PROVE  /\ LinesOf(texts, t, h) \in Seq(Seq(Bytes)) /\ Len(LinesOf(texts, t, h)) = h
         /\ \A k \in 1 .. h : /\ t + k \in 1 .. Len(texts)
                              /\ LinesOf(texts, t, h)[k] = Stripped(texts[t + k])
<1>1. \A k \in 1 .. h : t + k \in 1 .. Len(texts)
  OBVIOUS
<1>2. ASSUME NEW k \in 1 .. h PROVE Stripped(texts[t + k]) \in Seq(Bytes)
  <2>1. texts[t + k] \in Texts
    BY <1>1
  <2>2. texts[t + k] \in Seq(Bytes)
    BY <2>1, TextTyped
  <2> QED
    BY <2>2, StrippedCarries
<1>3. LinesOf(texts, t, h) \in [1 .. h -> Seq(Bytes)]
  BY <1>2 DEF LinesOf
<1>4. LinesOf(texts, t, h) \in Seq(Seq(Bytes)) /\ Len(LinesOf(texts, t, h)) = h
  BY <1>3
<1> QED
  BY <1>1, <1>4 DEF LinesOf

(* h more texts end in the first l bytes behind the t-th boundary. *)
Ends(bound, m, t, l, h) ==
  /\ h \in 0 .. m - t
  /\ bound[t + h] <= bound[t] + l
  /\ t + h < m => bound[t] + l < bound[t + h + 1]

LEMMA LinesEnd ==
  ASSUME NEW texts \in Seq(Texts), NEW all, NEW bound, Stream(all, bound, texts),
         NEW t \in 0 .. Len(texts), NEW x \in Seq(Bytes), Part(x, all, bound[t]),
         NEW h, Ends(bound, Len(texts), t, Len(x), h)
  PROVE  LinesIn(x) = LinesOf(texts, t, h)
<1>1. /\ h \in 0 .. Len(texts) - t /\ bound[t + h] <= bound[t] + Len(x)
      /\ t + h < Len(texts) => bound[t] + Len(x) < bound[t + h + 1]
  BY DEF Ends
<1>2. LinesIn(x) = [k \in 1 .. h |-> Stripped(texts[t + k])]
  BY <1>1, LinesOfPart
<1> QED
  BY <1>2 DEF LinesOf

LEMMA BoundsRise ==
  ASSUME NEW texts \in Seq(Texts), NEW all, NEW bound, Stream(all, bound, texts)
  PROVE  /\ Len(texts) \in Nat /\ \A k \in 0 .. Len(texts) : bound[k] \in Nat
         /\ \A j, k \in 0 .. Len(texts) : j < k => bound[j] < bound[k]
<1>1. bound \in [0 .. Len(texts) -> Nat]
  BY DEF Stream
<1>2. \A k \in 0 .. Len(texts) : bound[k] \in Nat
  BY <1>1
<1>3. \A j, k \in 0 .. Len(texts) : j < k => bound[j] < bound[k]
  BY DEF Stream
<1>4. Len(texts) \in Nat
  OBVIOUS
<1> QED
  BY <1>2, <1>3, <1>4

(* Some number of texts ends there. *)
LEMMA SomeEnd ==
  ASSUME NEW texts \in Seq(Texts), NEW all, NEW bound, Stream(all, bound, texts),
         NEW t \in 0 .. Len(texts), NEW l \in Nat
  PROVE  \E h : Ends(bound, Len(texts), t, l, h)
<1>1. PICK m \in Nat, o \in Nat :
         m = Len(texts) /\ o = bound[t] /\ \A k \in 0 .. m : bound[k] \in Nat
  <2>1. Len(texts) \in Nat /\ \A k \in 0 .. Len(texts) : bound[k] \in Nat
    BY BoundsRise
  <2>2. bound[t] \in Nat
    BY <2>1
  <2> QED
    BY <2>1, <2>2
<1>2. t \in Nat /\ t <= m /\ m - t \in 0 .. m - t /\ t + (m - t) = m
  BY <1>1
<1>3. PICK S : S = {h \in 0 .. m - t : t + h = m \/ o + l < bound[t + h + 1]}
  OBVIOUS
<1>4. m - t \in S /\ S \subseteq Nat
  BY <1>2, <1>3
<1>5. PICK h \in S : \A g \in S : h <= g
  BY <1>4, Least
<1>6. h \in 0 .. m - t /\ (t + h < m => o + l < bound[t + h + 1])
  BY <1>2, <1>3, <1>5
<1>7. bound[t + h] <= o + l
  <2>1. CASE h = 0
    BY <1>1, <1>2, <2>1
  <2>2. CASE h # 0
    <3>1. PICK g \in Nat : h = g + 1
      <4>1. h - 1 \in Nat /\ h = (h - 1) + 1
        BY <1>6, <2>2
      <4> QED
        BY <4>1
    <3>2. g \notin S /\ g \in 0 .. m - t /\ t + g # m
      BY <1>2, <1>5, <1>6, <3>1
    <3>3. ~(o + l < bound[t + g + 1]) /\ t + g + 1 = t + h /\ t + h \in 0 .. m
      BY <1>2, <1>3, <1>6, <3>1, <3>2
    <3>4. bound[t + h] \in Nat /\ ~(o + l < bound[t + h])
      BY <1>1, <3>3
    <3> QED
      BY <3>4
  <2> QED
    BY <2>1, <2>2
<1>8. Ends(bound, m, t, l, h)
  BY <1>1, <1>6, <1>7 DEF Ends
<1> QED
  BY <1>1, <1>8

(* Among more bytes end as many texts, or more. *)
LEMMA MoreEnd ==
  ASSUME NEW texts \in Seq(Texts), NEW all, NEW bound, Stream(all, bound, texts),
         NEW t \in 0 .. Len(texts), NEW l \in Nat, NEW n \in Nat, l <= n,
         NEW h, Ends(bound, Len(texts), t, l, h), NEW g, Ends(bound, Len(texts), t, n, g)
  PROVE  h <= g
<1>1. PICK m \in Nat, o \in Nat :
         /\ m = Len(texts) /\ o = bound[t]
         /\ \A k \in 0 .. m : bound[k] \in Nat
         /\ \A j, k \in 0 .. m : j < k => bound[j] < bound[k]
  <2>1. /\ Len(texts) \in Nat /\ \A k \in 0 .. Len(texts) : bound[k] \in Nat
        /\ \A j, k \in 0 .. Len(texts) : j < k => bound[j] < bound[k]
    BY BoundsRise
  <2>2. bound[t] \in Nat
    BY <2>1
  <2> QED
    BY <2>1, <2>2
<1>2. /\ h \in 0 .. m - t /\ bound[t + h] <= o + l
      /\ g \in 0 .. m - t /\ (t + g < m => o + n < bound[t + g + 1])
  BY <1>1 DEF Ends
<1>3. t \in Nat /\ h \in Nat /\ g \in Nat /\ t + h \in 0 .. m
  BY <1>1, <1>2
<1>4. SUFFICES ASSUME g < h PROVE FALSE
  BY <1>3
<1>5. /\ t + g < m /\ t + g + 1 \in 0 .. m
      /\ (t + g + 1 < t + h \/ t + g + 1 = t + h)
  BY <1>1, <1>2, <1>3, <1>4
<1>6. bound[t + g + 1] < bound[t + h] \/ bound[t + g + 1] = bound[t + h]
  BY <1>1, <1>3, <1>5
<1>7. bound[t + g + 1] \in Nat /\ bound[t + h] \in Nat /\ o + n < bound[t + g + 1]
  BY <1>1, <1>2, <1>3, <1>5
<1> QED
  BY <1>2, <1>6, <1>7

-----------------------------------------------------------------------------
(* The theorems *)

LEMMA TakenAsSentNow == ASSUME TypeOK, FlowInv PROVE TakenAsSent
<1>1. PICK all, bound : Flow(all, bound)
  BY DEF FlowInv
<1>2. /\ all \in Seq(Bytes) /\ sent \in Seq(Texts)
      /\ Len(sent) \in Nat /\ Len(taken) \in 0 .. Len(sent) /\ bound[Len(taken)] \in Nat
      /\ OnTheWay \in Seq(Bytes) /\ taken \in Seq(Seq(Bytes \ {"LF"}))
  BY <1>1, FlowTyped DEF TypeOK
<1>3. PICK t \in Nat, m \in Nat, h \in Nat : t = Len(taken) /\ m = Len(sent) /\ m = t + h
  <2>1. PICK m \in Nat, t \in Nat : t <= m /\ t = Len(taken) /\ m = Len(sent)
    BY <1>2
  <2>2. t \in Nat /\ m - t \in Nat /\ m = t + (m - t)
    BY <2>1
  <2> QED
    BY <2>1, <2>2
<1>4. \A n \in 1 .. m : Carries(Stripped(sent[n]), sent[n])
  <2>1. TAKE n \in 1 .. m
  <2>2. PICK text \in Texts : text = sent[n]
    <3>1. n \in 1 .. Len(sent)
      BY <1>3
    <3>2. sent[n] \in Texts
      BY <1>2, <3>1
    <3> QED
      BY <3>2
  <2>3. text \in Seq(Bytes)
    BY TextTyped
  <2> QED
    BY <2>2, <2>3, StrippedCarries
<1>5. \A n \in 1 .. t : Carries(taken[n], sent[n])
  BY <1>1, <1>3, <1>4 DEF Flow
<1>6. DOMAIN taken = 1 .. t
  BY <1>2, <1>3
<1>7. ASSUME peer = "open"
      PROVE  LET lines == taken \o LinesIn(OnTheWay)
             IN  Len(lines) = Len(sent) /\ \A n \in DOMAIN lines : Carries(lines[n], sent[n])
  <2>1. Stream(all, bound, sent) /\ Part(OnTheWay, all, bound[t])
    BY <1>1, <1>3, <1>7 DEF Flow
  <2>2. bound[m] = Len(all) /\ bound[t] + Len(OnTheWay) = Len(all)
    BY <1>1, <1>3, <1>7 DEF Flow, Stream
  <2>3. Ends(bound, m, t, Len(OnTheWay), h)
    <3>1. h \in 0 .. m - t /\ t + h = m
      BY <1>3
    <3>2. Len(all) \in Nat
      BY <1>2
    <3>3. bound[t + h] <= bound[t] + Len(OnTheWay)
      BY <2>2, <3>1, <3>2
    <3>4. ~(t + h < m)
      BY <1>3
    <3> QED
      BY <3>1, <3>3, <3>4 DEF Ends
  <2>4. LinesIn(OnTheWay) = LinesOf(sent, t, h)
    BY <1>2, <1>3, <2>1, <2>3, LinesEnd
  <2>5. PICK a, b : a = taken /\ b = LinesOf(sent, t, h)
    OBVIOUS
  <2>6. /\ b \in Seq(Seq(Bytes)) /\ Len(b) = h
        /\ \A k \in 1 .. h : t + k \in 1 .. m /\ b[k] = Stripped(sent[t + k])
    <3>1. sent \in Seq(Texts) /\ t + h <= Len(sent)
      BY <1>2, <1>3
    <3>2. /\ LinesOf(sent, t, h) \in Seq(Seq(Bytes)) /\ Len(LinesOf(sent, t, h)) = h
          /\ \A k \in 1 .. h : /\ t + k \in 1 .. Len(sent)
                               /\ LinesOf(sent, t, h)[k] = Stripped(sent[t + k])
      BY <3>1, LinesOfTyped
    <3> QED
      BY <1>3, <2>5, <3>2, Zenon
  <2>7. a \in Seq(Seq(Bytes)) /\ Len(a) = t
    <3>1. \A k \in 1 .. t : taken[k] \in Seq(Bytes)
      <4>1. \A k \in 1 .. t : taken[k] \in Seq(Bytes \ {"LF"})
        BY <1>2, <1>3
      <4> QED
        BY <4>1
    <3> QED
      BY <1>2, <1>3, <2>5, <3>1
  <2>8. PICK s : s = a \o b /\ s \in Seq(Seq(Bytes)) /\ Len(s) = m
    <3>1. a \o b \in Seq(Seq(Bytes)) /\ Len(a \o b) = Len(a) + Len(b)
      BY <2>6, <2>7, ConcatProperties
    <3> QED
      BY <1>3, <2>6, <2>7, <3>1
  <2>9. /\ \A i \in 1 .. t : s[i] = taken[i]
        /\ \A i \in 1 .. h : s[t + i] = b[i]
    <3>1. \A i \in 1 .. Len(a) + Len(b) :
            (a \o b)[i] = IF i <= Len(a) THEN a[i] ELSE b[i - Len(a)]
      BY <2>6, <2>7, ConcatProperties
    <3>2. \A i \in 1 .. t + h : s[i] = IF i <= t THEN a[i] ELSE b[i - t]
      BY <2>6, <2>7, <2>8, <3>1, Zenon
    <3>3. ASSUME NEW i \in 1 .. t PROVE s[i] = a[i]
      <4>1. i \in 1 .. t + h /\ i <= t
        OBVIOUS
      <4> QED
        BY <3>2, <4>1
    <3>4. ASSUME NEW i \in 1 .. h PROVE s[t + i] = b[i]
      <4>1. t + i \in 1 .. t + h /\ ~(t + i <= t) /\ (t + i) - t = i
        OBVIOUS
      <4>2. s[t + i] = IF t + i <= t THEN a[t + i] ELSE b[(t + i) - t]
        BY <3>2, <4>1
      <4> QED
        BY <4>1, <4>2
    <3> QED
      BY <2>5, <3>3, <3>4
  <2>10. ASSUME NEW n \in 1 .. m PROVE Carries(s[n], sent[n])
    <3>1. CASE n \in 1 .. t
      BY <1>5, <2>9, <3>1
    <3>2. CASE n \notin 1 .. t
      <4>1. PICK i \in 1 .. h : n = t + i
        <5>1. n - t \in 1 .. h /\ n = t + (n - t)
          BY <1>3, <3>2
        <5> QED
          BY <5>1
      <4>2. s[n] = Stripped(sent[n])
        BY <2>6, <2>9, <4>1
      <4> QED
        BY <1>4, <4>2
    <3> QED
      BY <3>1, <3>2
  <2>11. DOMAIN s = 1 .. m
    BY <2>8
  <2>12. taken \o LinesIn(OnTheWay) = s
    BY <2>4, <2>5, <2>8
  <2> QED
    BY <1>3, <2>8, <2>10, <2>11, <2>12
<1> QED
  BY <1>5, <1>6, <1>7 DEF TakenAsSent, OnTheWay

(* FramingInv, for any texts that have no newline in them, any number of    *)
(* them, and however the stream cuts their bytes up: each line that the     *)
(* read loop takes is the next text that was written, and while the sender  *)
(* has not closed, what is under way is all the others, in order.           *)
THEOREM FramingInvHolds == Spec => []FramingInv
<1>1. TypeOK /\ FlowInv => FramingInv
  BY TakenAsSentNow DEF FramingInv
<1> QED
  BY <1>1, TypeHolds, FlowHolds, PTL

-----------------------------------------------------------------------------
(* The read side of Session *)

LEMMA FirstOfOne == ASSUME NEW a, NEW b PROVE <<a>>[1] = a /\ [<<a>> EXCEPT ![1] = b] = <<b>>
OBVIOUS

ReadSide ==
  \/ \E text \in Texts : Lines!SendLine(1, Stripped(text))
  \/ Lines!Close(1)
  \/ Lines!TakeLine(1)
  \/ Lines!ReadEnd(1)

(* The lines that have arrived. *)
Here == LinesIn(Arrived)

LEMMA OneArrives ==
  ASSUME NEW text \in Texts, peer = "open", UNCHANGED <<peer, reader>>,
         Here' = Append(Here, Stripped(text))
  PROVE  ReadSide
<1>1. <<peer>>[1] = "open"
  BY FirstOfOne
<1>2. <<Here'>> = [<<Here>> EXCEPT ![1] = Append(<<Here>>[1], Stripped(text))]
  BY FirstOfOne
<1>3. Lines!SendLine(1, Stripped(text))
  BY <1>1, <1>2 DEF Lines!SendLine, Here, Arrived
<1> QED
  BY <1>3 DEF ReadSide

LEMMA ClosesHere ==
  ASSUME peer = "open", peer' = "closed", UNCHANGED reader,
         NEW n \in 0 .. Len(Here), Here' = SubSeq(Here, 1, n)
  PROVE  ReadSide
<1>1. <<peer>>[1] = "open" /\ <<Here>>[1] = Here
  BY FirstOfOne
<1>2. <<peer'>> = [<<peer>> EXCEPT ![1] = "closed"]
  BY FirstOfOne
<1>3. <<Here'>> = [<<Here>> EXCEPT ![1] = SubSeq(<<Here>>[1], 1, n)]
  BY FirstOfOne
<1>4. n \in 0 .. Len(<<Here>>[1])
  BY <1>1
<1>5. Lines!Close(1)
  BY <1>1, <1>2, <1>3, <1>4 DEF Lines!Close, Here, Arrived
<1> QED
  BY <1>5 DEF ReadSide

LEMMA TakesHere ==
  ASSUME reader = "armed", Here # <<>>, Here' = Tail(Here), UNCHANGED <<peer, reader>>
  PROVE  ReadSide
<1>1. <<reader>>[1] = "armed" /\ <<Here>>[1] # <<>>
  BY FirstOfOne
<1>2. <<Here'>> = [<<Here>> EXCEPT ![1] = Tail(<<Here>>[1])]
  BY FirstOfOne
<1>3. Lines!TakeLine(1)
  BY <1>1, <1>2 DEF Lines!TakeLine, Here, Arrived
<1> QED
  BY <1>3 DEF ReadSide

LEMMA EndsHere ==
  ASSUME reader = "armed", peer = "closed", Here = <<>>, reader' = "ended",
         UNCHANGED <<peer, Here>>
  PROVE  ReadSide
<1>1. <<reader>>[1] = "armed" /\ <<peer>>[1] = "closed" /\ <<Here>>[1] = <<>>
  BY FirstOfOne
<1>2. <<reader'>> = [<<reader>> EXCEPT ![1] = "ended"]
  BY FirstOfOne
<1>3. Lines!ReadEnd(1)
  BY <1>1, <1>2 DEF Lines!ReadEnd, Here, Arrived
<1> QED
  BY <1>3 DEF ReadSide

LEMMA SameLines ==
  ASSUME NEW x \in Seq(Seq(Bytes)), NEW y \in Seq(Seq(Bytes)), Len(x) = Len(y),
         \A i \in 1 .. Len(x) : x[i] = y[i]
  PROVE  x = y
BY SameElements

LEMMA LinesOfMore ==
  ASSUME NEW texts \in Seq(Texts), NEW t \in Nat, NEW h \in Nat, t + h + 1 <= Len(texts)
  PROVE  LinesOf(texts, t, h + 1) = Append(LinesOf(texts, t, h), Stripped(texts[t + h + 1]))
<1>1. PICK x, y, line : /\ x = LinesOf(texts, t, h + 1) /\ y = LinesOf(texts, t, h)
                        /\ line = Stripped(texts[t + h + 1])
  OBVIOUS
<1>2. /\ h + 1 \in Nat /\ t + (h + 1) <= Len(texts) /\ t + h <= Len(texts)
      /\ t + (h + 1) = t + h + 1
  OBVIOUS
<1>3. /\ x \in Seq(Seq(Bytes)) /\ Len(x) = h + 1
      /\ \A k \in 1 .. h + 1 : x[k] = Stripped(texts[t + k])
  BY <1>1, <1>2, LinesOfTyped
<1>4. /\ y \in Seq(Seq(Bytes)) /\ Len(y) = h
      /\ \A k \in 1 .. h : y[k] = Stripped(texts[t + k])
  BY <1>1, <1>2, LinesOfTyped
<1>5. x[h + 1] = line /\ line \in Seq(Bytes)
  <2>1. h + 1 \in 1 .. h + 1
    OBVIOUS
  <2>2. x[h + 1] = line
    BY <1>1, <1>2, <1>3, <2>1
  <2> QED
    BY <1>3, <2>1, <2>2
<1>6. /\ Append(y, line) \in Seq(Seq(Bytes)) /\ Len(Append(y, line)) = h + 1
      /\ Append(y, line)[h + 1] = line
      /\ \A k \in 1 .. h : Append(y, line)[k] = y[k]
  BY <1>4, <1>5
<1>7. \A k \in 1 .. h + 1 : Append(y, line)[k] = x[k]
  <2>1. \A k \in 1 .. h : x[k] = y[k]
    BY <1>3, <1>4
  <2>2. \A k \in 1 .. h + 1 : k \in 1 .. h \/ k = h + 1
    OBVIOUS
  <2> QED
    BY <1>5, <1>6, <2>1, <2>2
<1>8. x = Append(y, line)
  BY <1>3, <1>6, <1>7, SameLines
<1> QED
  BY <1>1, <1>8

LEMMA LinesOfFewer ==
  ASSUME NEW texts \in Seq(Texts), NEW t \in Nat, NEW h \in Nat, t + h <= Len(texts),
         NEW g \in 0 .. h
  PROVE  LinesOf(texts, t, g) = SubSeq(LinesOf(texts, t, h), 1, g)
<1>1. PICK x, y : x = LinesOf(texts, t, g) /\ y = LinesOf(texts, t, h)
  OBVIOUS
<1>2. g \in Nat /\ t + g <= Len(texts) /\ \A k \in 1 .. g : k \in 1 .. h
  OBVIOUS
<1>3. /\ x \in Seq(Seq(Bytes)) /\ Len(x) = g
      /\ \A k \in 1 .. g : x[k] = Stripped(texts[t + k])
  BY <1>1, <1>2, LinesOfTyped
<1>4. /\ y \in Seq(Seq(Bytes)) /\ Len(y) = h
      /\ \A k \in 1 .. h : y[k] = Stripped(texts[t + k])
  BY <1>1, LinesOfTyped
<1>5. PICK s : s = SubSeq(y, 1, g)
  OBVIOUS
<1>6. s \in Seq(Seq(Bytes)) /\ Len(s) = g /\ \A k \in 1 .. g : s[k] = y[k]
  <2>1. \A k \in 1 .. g : y[k] \in Seq(Bytes)
    BY <1>2, <1>4
  <2> QED
    BY <1>2, <1>5, <2>1
<1>7. \A k \in 1 .. g : s[k] = x[k]
  BY <1>2, <1>3, <1>4, <1>6
<1>8. x = s
  BY <1>3, <1>6, <1>7, SameLines
<1> QED
  BY <1>1, <1>5, <1>8

LEMMA LinesOfTail ==
  ASSUME NEW texts \in Seq(Texts), NEW t \in Nat, NEW h \in Nat, t + h + 1 <= Len(texts)
  PROVE  /\ LinesOf(texts, t, h + 1) # <<>>
         /\ LinesOf(texts, t + 1, h) = Tail(LinesOf(texts, t, h + 1))
<1>1. PICK x, y : x = LinesOf(texts, t + 1, h) /\ y = LinesOf(texts, t, h + 1)
  OBVIOUS
<1>2. /\ h + 1 \in Nat /\ t + (h + 1) <= Len(texts)
      /\ t + 1 \in Nat /\ (t + 1) + h <= Len(texts)
  OBVIOUS
<1>3. /\ x \in Seq(Seq(Bytes)) /\ Len(x) = h
      /\ \A k \in 1 .. h : x[k] = Stripped(texts[(t + 1) + k])
  BY <1>1, <1>2, LinesOfTyped
<1>4. /\ y \in Seq(Seq(Bytes)) /\ Len(y) = h + 1
      /\ \A k \in 1 .. h + 1 : y[k] = Stripped(texts[t + k])
  BY <1>1, <1>2, LinesOfTyped
<1>5. y # <<>>
  BY <1>4
<1>6. /\ Tail(y) \in Seq(Seq(Bytes)) /\ Len(Tail(y)) = h
      /\ \A k \in 1 .. h : Tail(y)[k] = y[k + 1]
  BY <1>4, <1>5, HeadTailProperties
<1>7. \A k \in 1 .. h : k + 1 \in 1 .. h + 1 /\ t + (k + 1) = (t + 1) + k
  OBVIOUS
<1>8. \A k \in 1 .. h : Tail(y)[k] = x[k]
  BY <1>3, <1>4, <1>6, <1>7
<1>9. x = Tail(y)
  BY <1>3, <1>6, <1>8, SameLines
<1> QED
  BY <1>1, <1>5, <1>9

(* How many lines have arrived. *)
LEMMA HereLines ==
  ASSUME NEW texts \in Seq(Texts), NEW all, NEW bound, Stream(all, bound, texts),
         NEW t \in 0 .. Len(texts), NEW x \in Seq(Bytes), Part(x, all, bound[t])
  PROVE  \E h : Ends(bound, Len(texts), t, Len(x), h) /\ LinesIn(x) = LinesOf(texts, t, h)
<1>1. Len(x) \in Nat
  OBVIOUS
<1>2. PICK h : Ends(bound, Len(texts), t, Len(x), h)
  BY <1>1, SomeEnd
<1> QED
  BY <1>2, LinesEnd

(* One text is being written, so no more than one line arrives. *)
LEMMA WriteSomeReads ==
  ASSUME TypeOK, NEW all, NEW bound, Flow(all, bound), WriteSome
  PROVE  ReadSide \/ UNCHANGED <<peer, reader, Here>>
<1>1. /\ all \in Seq(Bytes) /\ sent \in Seq(Texts) /\ Len(taken) \in 0 .. Len(sent)
      /\ Arrived \in Seq(Bytes) /\ OnTheWay = Arrived \o writing /\ writing \in Seq(Bytes)
      /\ Stream(all, bound, sent) /\ Part(Arrived, all, bound[Len(taken)])
  BY FlowTyped DEF Flow, TypeOK
<1>2. /\ Arrived' \in Seq(Bytes) /\ Part(Arrived', all, bound[Len(taken)])
      /\ Len(Arrived) <= Len(Arrived')
  BY WriteSomeFlow
<1>3. peer = "open" /\ UNCHANGED <<peer, reader>> /\ writing # <<>>
  BY DEF WriteSome
<1>4. PICK x \in Seq(Bytes), y \in Seq(Bytes), t \in 0 .. Len(sent) :
         x = Arrived /\ y = Arrived' /\ t = Len(taken)
  BY <1>1, <1>2
<1>5. PICK h : Ends(bound, Len(sent), t, Len(x), h) /\ LinesIn(x) = LinesOf(sent, t, h)
  <2>1. Part(x, all, bound[t]) /\ Stream(all, bound, sent) /\ sent \in Seq(Texts)
    BY <1>1, <1>4
  <2> QED
    BY <2>1, HereLines
<1>6. PICK g : Ends(bound, Len(sent), t, Len(y), g) /\ LinesIn(y) = LinesOf(sent, t, g)
  <2>1. Part(y, all, bound[t]) /\ Stream(all, bound, sent) /\ sent \in Seq(Texts)
    BY <1>1, <1>2, <1>4
  <2> QED
    BY <2>1, HereLines
<1>7. Here = LinesOf(sent, t, h) /\ Here' = LinesOf(sent, t, g)
  BY <1>4, <1>5, <1>6 DEF Here
<1>8. h <= g
  <2>1. Len(x) \in Nat /\ Len(y) \in Nat /\ Len(x) <= Len(y)
    BY <1>2, <1>4
  <2> QED
    BY <1>1, <1>5, <1>6, <2>1, MoreEnd
<1>9. PICK m \in Nat, o \in Nat, l \in Nat : /\ m = Len(sent) /\ o = bound[t] /\ l = Len(x)
                                             /\ \A k \in 0 .. m : bound[k] \in Nat
                                             /\ \A j, k \in 0 .. m : j < k => bound[j] < bound[k]
  <2>1. /\ Len(sent) \in Nat /\ \A k \in 0 .. Len(sent) : bound[k] \in Nat
        /\ \A j, k \in 0 .. Len(sent) : j < k => bound[j] < bound[k]
    BY <1>1, BoundsRise
  <2>2. bound[t] \in Nat /\ Len(x) \in Nat
    BY <2>1
  <2> QED
    BY <2>1, <2>2
<1>10. /\ h \in Nat /\ g \in Nat /\ t \in Nat /\ t + h <= m /\ t + g <= m
       /\ t + h < m => o + l < bound[t + h + 1]
  BY <1>5, <1>6, <1>9 DEF Ends
<1>11. m <= t + h + 1
  <2>1. SUFFICES ASSUME t + h + 1 < m PROVE FALSE
    BY <1>10
  <2>2. PICK k \in Nat : m = k + 1
    <3>1. m - 1 \in Nat /\ m = (m - 1) + 1
      BY <1>10, <2>1
    <3> QED
      BY <3>1
  <2>3. PICK w \in Nat, n \in Nat : w = Len(writing) /\ n = Len(sent[m]) /\ w <= n + 1
    <3>1. sent # <<>> /\ Len(writing) <= Len(sent[Len(sent)]) + 1
      BY <1>3 DEF Flow
    <3>2. Len(sent[Len(sent)]) \in Nat /\ Len(writing) \in Nat
      BY <1>1, <3>1, LastTyped
    <3> QED
      BY <1>9, <3>1, <3>2
  <2>4. bound[m] = bound[k] + n + 1
    <3>1. m \in 1 .. Len(sent) /\ m - 1 = k
      BY <1>9, <2>2
    <3>2. bound[m] = bound[m - 1] + Len(sent[m]) + 1
      BY <1>1, <3>1 DEF Stream
    <3> QED
      BY <2>3, <3>1, <3>2
  <2>5. bound[m] = o + (l + w)
    <3>1. bound[t] + Len(OnTheWay) = Len(all) /\ bound[m] = Len(all)
      BY <1>1, <1>3, <1>4, <1>9 DEF Flow, Stream
    <3>2. Len(OnTheWay) = Len(x) + Len(writing)
      BY <1>1, <1>4, Joined
    <3> QED
      BY <1>9, <2>3, <3>1, <3>2, Zenon
  <2>6. PICK b \in Nat, c \in Nat : b = bound[k] /\ c = bound[t + h + 1]
    <3>1. k \in 0 .. m /\ t + h + 1 \in 0 .. m
      BY <1>10, <2>1, <2>2
    <3> QED
      BY <1>9, <3>1
  <2>7. b + n + 1 = o + (l + w)
    BY <2>4, <2>5, <2>6, Zenon
  <2>8. o + l < c
    BY <1>10, <2>1, <2>6
  <2>9. c < b \/ c = b
    <3>1. k \in 0 .. m /\ t + h + 1 \in 0 .. m /\ (t + h + 1 < k \/ t + h + 1 = k)
      BY <1>10, <2>1, <2>2
    <3> QED
      BY <1>9, <2>6, <3>1
  <2>10. w <= n + 1
    BY <2>3
  <2> QED
    BY <2>7, <2>8, <2>9, <2>10
<1>12. g = h \/ g = h + 1
  BY <1>8, <1>10, <1>11
<1>13. CASE g = h
  BY <1>3, <1>7, <1>13
<1>14. CASE g = h + 1
  <2>1. t + h + 1 <= Len(sent) /\ t + h + 1 \in 1 .. Len(sent)
    BY <1>9, <1>10, <1>14
  <2>2. PICK text \in Texts : text = sent[t + h + 1]
    <3>1. sent[t + h + 1] \in Texts
      BY <1>1, <2>1
    <3> QED
      BY <3>1
  <2>3. LinesOf(sent, t, h + 1) = Append(LinesOf(sent, t, h), Stripped(sent[t + h + 1]))
    BY <1>1, <1>10, <2>1, LinesOfMore
  <2>4. Here' = Append(Here, Stripped(text))
    BY <1>7, <1>14, <2>2, <2>3
  <2>5. ReadSide
    BY <1>3, <2>4, OneArrives
  <2> QED
    BY <2>5
<1> QED
  BY <1>12, <1>13, <1>14

(* A reset leaves the first lines. *)
LEMMA SenderClosesReads ==
  ASSUME TypeOK, NEW all, NEW bound, Flow(all, bound), SenderCloses
  PROVE  ReadSide
<1>1. /\ sent \in Seq(Texts) /\ Len(taken) \in 0 .. Len(sent) /\ Len(sent) \in Nat
      /\ Arrived \in Seq(Bytes)
      /\ Stream(all, bound, sent) /\ Part(Arrived, all, bound[Len(taken)])
  BY FlowTyped DEF Flow
<1>2. /\ Arrived' \in Seq(Bytes) /\ Part(Arrived', all, bound[Len(taken)])
      /\ Len(Arrived') <= Len(Arrived)
  BY SenderClosesFlow
<1>3. peer = "open" /\ peer' = "closed" /\ UNCHANGED reader
  BY DEF SenderCloses
<1>4. PICK x \in Seq(Bytes), y \in Seq(Bytes), t \in 0 .. Len(sent) :
         x = Arrived /\ y = Arrived' /\ t = Len(taken)
  BY <1>1, <1>2
<1>5. PICK h : Ends(bound, Len(sent), t, Len(x), h) /\ LinesIn(x) = LinesOf(sent, t, h)
  <2>1. Part(x, all, bound[t]) /\ Stream(all, bound, sent) /\ sent \in Seq(Texts)
    BY <1>1, <1>4
  <2> QED
    BY <2>1, HereLines
<1>6. PICK g : Ends(bound, Len(sent), t, Len(y), g) /\ LinesIn(y) = LinesOf(sent, t, g)
  <2>1. Part(y, all, bound[t]) /\ Stream(all, bound, sent) /\ sent \in Seq(Texts)
    BY <1>1, <1>2, <1>4
  <2> QED
    BY <2>1, HereLines
<1>7. Here = LinesOf(sent, t, h) /\ Here' = LinesOf(sent, t, g)
  BY <1>4, <1>5, <1>6 DEF Here
<1>8. g <= h
  <2>1. Len(x) \in Nat /\ Len(y) \in Nat /\ Len(y) <= Len(x)
    BY <1>2, <1>4
  <2> QED
    BY <1>1, <1>5, <1>6, <2>1, MoreEnd
<1>9. t \in Nat /\ h \in Nat /\ g \in 0 .. h /\ t + h <= Len(sent)
  <2>1. h \in 0 .. Len(sent) - t /\ g \in 0 .. Len(sent) - t
    BY <1>5, <1>6 DEF Ends
  <2> QED
    BY <1>1, <1>8, <2>1
<1>10. LinesOf(sent, t, g) = SubSeq(LinesOf(sent, t, h), 1, g)
  BY <1>1, <1>9, LinesOfFewer
<1>11. Len(LinesOf(sent, t, h)) = h
  BY <1>1, <1>9, LinesOfTyped
<1>12. g \in 0 .. Len(Here) /\ Here' = SubSeq(Here, 1, g)
  BY <1>7, <1>9, <1>10, <1>11
<1> QED
  BY <1>3, <1>12, ClosesHere

(* The line that is taken was the first of them. *)
LEMMA TakeLineReads ==
  ASSUME TypeOK, NEW all, NEW bound, Flow(all, bound), TakeLine
  PROVE  ReadSide
<1>1. /\ sent \in Seq(Texts) /\ Len(taken) + 1 \in 1 .. Len(sent) /\ Len(taken) \in Nat
      /\ Arrived \in Seq(Bytes) /\ Arrived' \in Seq(Bytes)
      /\ Stream(all, bound, sent) /\ Part(Arrived, all, bound[Len(taken)])
      /\ bound[Len(taken)] + Len(Arrived) = bound[Len(taken) + 1] + Len(Arrived')
  BY FlowTyped, TakeLineFlow DEF Flow
<1>2. Part(Arrived', all, bound[Len(taken) + 1])
  BY TakeLineFlow DEF Flow
<1>3. reader = "armed" /\ UNCHANGED <<peer, reader, sent>>
  BY DEF TakeLine
<1>4. PICK x \in Seq(Bytes), y \in Seq(Bytes), t \in Nat, u \in Nat :
        /\ x = Arrived /\ y = Arrived' /\ t = Len(taken) /\ u = t + 1
        /\ t \in 0 .. Len(sent) /\ u \in 0 .. Len(sent)
  <2>1. /\ Len(taken) \in 0 .. Len(sent) /\ Len(taken) + 1 \in 0 .. Len(sent)
        /\ Len(taken) + 1 \in Nat
    BY <1>1
  <2> QED
    BY <1>1, <2>1
<1>5. PICK h : Ends(bound, Len(sent), u, Len(y), h) /\ LinesIn(y) = LinesOf(sent, u, h)
  <2>1. /\ Part(y, all, bound[u]) /\ Stream(all, bound, sent) /\ sent \in Seq(Texts)
        /\ u \in 0 .. Len(sent)
    BY <1>1, <1>2, <1>4
  <2> QED
    BY <2>1, HereLines
<1>6. /\ h \in 0 .. Len(sent) - u
      /\ bound[u + h] <= bound[u] + Len(y)
      /\ u + h < Len(sent) => bound[u] + Len(y) < bound[u + h + 1]
  BY <1>5 DEF Ends
<1>7. /\ h \in Nat /\ t + h + 1 <= Len(sent) /\ t + (h + 1) = u + h
      /\ h + 1 \in 0 .. Len(sent) - t
  BY <1>1, <1>4, <1>6
<1>8. Ends(bound, Len(sent), t, Len(x), h + 1)
  <2>1. bound[t] + Len(x) = bound[u] + Len(y)
    BY <1>1, <1>4
  <2>2. /\ bound[t + (h + 1)] <= bound[t] + Len(x)
        /\ t + (h + 1) < Len(sent) => bound[t] + Len(x) < bound[t + (h + 1) + 1]
    BY <1>6, <1>7, <2>1, Zenon
  <2> QED
    BY <1>7, <2>2 DEF Ends
<1>9. LinesIn(x) = LinesOf(sent, t, h + 1)
  <2>1. Part(x, all, bound[t]) /\ Stream(all, bound, sent) /\ sent \in Seq(Texts)
    BY <1>1, <1>4
  <2> QED
    BY <1>4, <1>8, <2>1, LinesEnd
<1>10. Here = LinesOf(sent, t, h + 1) /\ Here' = LinesOf(sent, t + 1, h)
  BY <1>4, <1>5, <1>9 DEF Here
<1>11. Here # <<>> /\ Here' = Tail(Here)
  BY <1>1, <1>7, <1>10, LinesOfTail
<1> QED
  BY <1>3, <1>11, TakesHere

(* Without a newline in the streambuf and with nothing behind it, no line   *)
(* has arrived.                                                             *)
LEMMA ReadFailsReads ==
  ASSUME TypeOK, NEW all, NEW bound, Flow(all, bound), ReadFails
  PROVE  ReadSide
<1>1. reader = "armed" /\ peer = "closed" /\ reader' = "ended" /\ UNCHANGED <<peer, Here>>
  BY DEF ReadFails, Here, Arrived
<1>2. /\ m_incoming \in Seq(Bytes) /\ transit = <<>> /\ ~HasLine(m_incoming)
  BY DEF ReadFails, TypeOK
<1>3. Arrived = m_incoming
  BY <1>2, EmptySeq DEF Arrived
<1>4. \A i \in DOMAIN m_incoming : m_incoming[i] # "LF"
  BY <1>2 DEF HasLine, Contains
<1>5. {i \in DOMAIN m_incoming : m_incoming[i] = "LF"} = {}
  BY <1>4
<1>6. PICK p : p = [j \in 0 .. 0 |-> 0]
  OBVIOUS
<1>7. LinesIn(m_incoming) = [k \in 1 .. 0 |-> Stripped(SubSeq(m_incoming, p[k - 1] + 1, p[k] - 1))]
  <2>1. p \in [0 .. 0 -> Nat] /\ p[0] = 0 /\ \A j, k \in 0 .. 0 : j < k => p[j] < p[k]
    BY <1>6
  <2>2. {i \in DOMAIN m_incoming : m_incoming[i] = "LF"} = {p[k] : k \in 1 .. 0}
    BY <1>5
  <2> QED
    BY <1>2, <2>1, <2>2, LinesBetween
<1>8. LinesIn(m_incoming) = <<>>
  BY <1>7
<1> QED
  BY <1>1, <1>3, <1>8, EndsHere DEF Here
(* ReadsLines, for any texts and however the stream cuts their bytes up:    *)
(* every step that changes the lines that have arrived, or the two ends, is *)
(* a step of Session's read side, so Session may have lines for bytes.      *)
THEOREM ReadsLinesHolds == Spec => ReadsLines
<1>1. TypeOK /\ FlowInv /\ [Next]_vars => [ReadSide]_<<peer, reader, LinesIn(m_incoming \o transit)>>
  <2> SUFFICES ASSUME TypeOK, FlowInv, [Next]_vars
               PROVE  ReadSide \/ UNCHANGED <<peer, reader, Here>>
    BY DEF Here, Arrived
  <2>1. PICK all, bound : Flow(all, bound)
    BY DEF FlowInv
  <2>2. ASSUME NEW text \in Texts, WriteStarts(text) PROVE UNCHANGED <<peer, reader, Here>>
    BY <2>2 DEF WriteStarts, Here, Arrived
  <2>3. ASSUME WriteSome PROVE ReadSide \/ UNCHANGED <<peer, reader, Here>>
    BY <2>1, <2>3, WriteSomeReads
  <2>4. ASSUME SenderCloses PROVE ReadSide
    BY <2>1, <2>4, SenderClosesReads
  <2>5. ASSUME ReadSome PROVE UNCHANGED <<peer, reader, Here>>
    <3>1. Arrived' = Arrived
      BY <2>1, <2>5, ReadSomeFlow
    <3> QED
      BY <2>5, <3>1 DEF ReadSome, Here
  <2>6. ASSUME TakeLine PROVE ReadSide
    BY <2>1, <2>6, TakeLineReads
  <2>7. ASSUME ReadFails PROVE ReadSide
    BY <2>1, <2>7, ReadFailsReads
  <2>8. ASSUME UNCHANGED vars PROVE UNCHANGED <<peer, reader, Here>>
    BY <2>8 DEF vars, Here, Arrived
  <2> QED
    BY <2>2, <2>3, <2>4, <2>5, <2>6, <2>7, <2>8 DEF Next, Reads
<1> QED
  BY <1>1, TypeHolds, FlowHolds, PTL DEF Spec, ReadsLines, ReadSide

=============================================================================
