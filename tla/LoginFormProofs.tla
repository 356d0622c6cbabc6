-------------------------- MODULE LoginFormProofs --------------------------
(* What LoginForm promises for every font, box and alphabet, and for texts *)
(* and bursts of keys of any length.                                       *)
EXTENDS LoginForm, SequenceTheorems, WellFoundedInduction, TLAPS

(* FocusFollowsClick and ReleaseOfClick are inductive once the two boxes    *)
(* are known to have a state and a text.                                    *)
Shape ==
  /\ m_state \in [Boxes -> States]
  /\ m_inputText = [b \in Boxes |-> m_inputText[b]]
  /\ mouseDown \in BOOLEAN

IInv == Shape /\ FocusFollowsClick /\ ReleaseOfClick

LEMMA InitIInv == Init => IInv
PROOF
  <1> SUFFICES ASSUME Init PROVE IInv
    OBVIOUS
  <1>1. Shape
    BY DEF Init, Shape, Boxes, States
  <1>2. FocusFollowsClick
    BY DEF Init, FocusFollowsClick, Boxes
  <1>3. ReleaseOfClick
    BY DEF Init, ReleaseOfClick
  <1> QED
    BY <1>1, <1>2, <1>3 DEF IInv

(* The focus is where the press was, and stays there without a press. *)
LEMMA UpdateStateFocus ==
  ASSUME NEW b \in Boxes, NEW at \in Places, NEW pressed \in BOOLEAN,
         m_state[b] = "ACTIVE" <=> pressedAt = b
  PROVE  UpdateState(b, at, pressed) = "ACTIVE"
           <=> (IF pressed THEN at ELSE pressedAt) = b
PROOF
  <1>1. CASE pressed
    BY <1>1 DEF UpdateState
  <1>2. CASE ~pressed /\ m_state[b] = "ACTIVE"
    BY <1>2 DEF UpdateState
  <1>3. CASE ~pressed /\ m_state[b] # "ACTIVE"
    BY <1>3 DEF UpdateState
  <1> QED
    BY <1>1, <1>2, <1>3

LEMMA UpdateStateType ==
  ASSUME NEW b \in Boxes, NEW at \in Places, NEW pressed \in BOOLEAN,
         m_state[b] \in States
  PROVE  UpdateState(b, at, pressed) \in States
BY DEF UpdateState, States

LEMMA FrameIInv ==
  ASSUME IInv,
         NEW at \in Places, NEW down \in BOOLEAN, NEW backspace \in BOOLEAN,
         NEW typed \in Keys,
         Frame(at, down, typed, backspace)
  PROVE  IInv'
PROOF
  <1> DEFINE pressed == down /\ ~mouseDown
  <1>1. /\ UpdateBoxes(at, pressed, typed, backspace)
        /\ UpdateButton(at, down)
        /\ mouseDown' = down
        /\ pressedAt' = IF pressed THEN at ELSE pressedAt
        /\ left' = (~pressed /\ (left \/ at # pressedAt))
    BY DEF Frame
  <1>2. pressed \in BOOLEAN
    OBVIOUS
  <1> HIDE DEF pressed
  <1>3. Shape'
    <2>1. m_state' = [b \in Boxes |-> UpdateState(b, at, pressed)]
      BY <1>1 DEF UpdateBoxes
    <2>2. m_state' \in [Boxes -> States]
      BY <1>2, <2>1, UpdateStateType DEF IInv, Shape
    <2>3. m_inputText' = [b \in Boxes |-> m_inputText'[b]]
      BY <1>1 DEF UpdateBoxes
    <2> QED
      BY <1>1, <2>2, <2>3 DEF Shape
  <1>4. FocusFollowsClick'
    <2> SUFFICES ASSUME NEW b \in Boxes
                 PROVE  m_state'[b] = "ACTIVE" <=> pressedAt' = b
      BY DEF FocusFollowsClick
    <2>1. m_state'[b] = UpdateState(b, at, pressed)
      BY <1>1 DEF UpdateBoxes
    <2>2. m_state[b] = "ACTIVE" <=> pressedAt = b
      BY DEF IInv, FocusFollowsClick
    <2> QED
      BY <1>1, <1>2, <2>1, <2>2, UpdateStateFocus
  <1>5. ReleaseOfClick'
    <2>1. /\ released' = (at = "button" /\ ~down /\ wasPressed /\ mouseDown)
          /\ wasPressed' = (at = "button" /\ (pressed \/ (wasPressed /\ (down \/ ~mouseDown))))
      BY <1>1 DEF UpdateButton, pressed
    <2>2. wasPressed => mouseDown /\ pressedAt = "button" /\ ~left
      BY DEF IInv, ReleaseOfClick
    <2>3. released' => pressedAt' = "button" /\ ~left'
      BY <1>1, <2>1, <2>2 DEF pressed
    <2>4. wasPressed' => pressedAt' = "button" /\ ~left' /\ mouseDown'
      BY <1>1, <2>1, <2>2 DEF pressed
    <2> QED
      BY <2>3, <2>4 DEF ReleaseOfClick
  <1> QED
    BY <1>3, <1>4, <1>5 DEF IInv

LEMMA NextIInv == IInv /\ [Next]_vars => IInv'
PROOF
  <1> SUFFICES ASSUME IInv, [Next]_vars PROVE IInv'
    OBVIOUS
  <1>1. CASE Next
    BY <1>1, FrameIInv DEF Next
  <1>2. CASE UNCHANGED vars
    BY <1>2 DEF vars, boxVars, IInv, Shape, FocusFollowsClick, ReleaseOfClick
  <1> QED
    BY <1>1, <1>2

LEMMA SpecIInv == Spec => []IInv
  BY InitIInv, NextIInv, PTL DEF Spec

(* The focus of the form (TextBox::UpdateState of two boxes that do not     *)
(* know of each other) is exactly where the player last pressed.            *)
THEOREM FocusCorrect == Spec => []FocusFollowsClick
PROOF
  <1>1. IInv => FocusFollowsClick
    BY DEF IInv
  <1> QED
    BY <1>1, SpecIInv, PTL

(* Button::Update runs the release callback only for a press that began on  *)
(* the button and never left it.                                            *)
THEOREM ReleaseCorrect == Spec => []ReleaseOfClick
PROOF
  <1>1. IInv => ReleaseOfClick
    BY DEF IInv
  <1> QED
    BY <1>1, SpecIInv, PTL

(* A frame in which a request is sent leaves both texts as they were.       *)
LEMMA FrameSends ==
  ASSUME IInv,
         NEW at \in Places, NEW down \in BOOLEAN, NEW backspace \in BOOLEAN,
         NEW typed \in Keys,
         Frame(at, down, typed, backspace),
         request' # NoRequest
  PROVE  request' = m_inputText
PROOF
  <1> DEFINE pressed == down /\ ~mouseDown
  <1>1. at = "button" /\ pressed /\ request' = m_inputText'
    BY DEF Frame, UpdateButton, Click
  <1>2. \A b \in Boxes : m_state'[b] = "NOT_ACTIVE"
    BY <1>1 DEF Frame, UpdateBoxes, UpdateState, Boxes
  <1>3. m_inputText' = [b \in Boxes |-> m_inputText[b]]
    BY <1>2 DEF Frame, UpdateBoxes, HasFocus
  <1> QED
    BY <1>1, <1>3 DEF IInv, Shape

(* LoginScene sends the two texts that were on the screen when the player   *)
(* pressed the button, whatever was typed in that frame.                    *)
THEOREM SendsWhatIsSeen == Spec => SentAsSeen
PROOF
  <1>1. IInv /\ [Next]_vars => [request' # NoRequest => request' = m_inputText]_vars
    BY FrameSends DEF Next
  <1> QED
    BY <1>1, SpecIInv, PTL DEF Spec, SentAsSeen
-----------------------------------------------------------------------------
(* The texts, and the font *)

(* A set of numbers has a least one. *)
LEMMA Least ==
  ASSUME NEW T, T \subseteq Nat, T # {}
  PROVE  \E x \in T : \A y \in T : x <= y
<1>1. PICK x \in T : \A y \in T : ~ (<<y, x>> \in OpToRel(<, Nat))
  BY NatLessThanWellFounded, WFMin
<1>2. \A y \in T : ~(y < x)
  BY <1>1 DEF OpToRel
<1> QED
  BY <1>2

(* The equation of the recursive function in Taken, up to the m-th key. *)
OneTaken(typed, n, before) == IF typed[n] \in Chars THEN Append(before, typed[n]) ELSE before
Takes(typed, m, f) == f = [n \in 0 .. m |-> IF n = 0 THEN <<>> ELSE OneTaken(typed, n, f[n - 1])]

(* It has a solution: a longest queue without one would be no longer than   *)
(* an empty one, or have one but for its last key.                          *)
LEMMA TakesExists ==
  ASSUME NEW typed, NEW l \in Nat
  PROVE  \E f : Takes(typed, l, f)
<1> DEFINE T == {m \in Nat : ~ \E f : Takes(typed, m, f)}
<1>1. SUFFICES ASSUME T # {} PROVE FALSE
  OBVIOUS
<1>2. PICK m \in T : \A k \in T : m <= k
  BY <1>1, Least
<1>3. m # 0
  <2>1. PICK f : f = [n \in 0 .. 0 |-> <<>>]
    OBVIOUS
  <2>2. Takes(typed, 0, f)
    BY <2>1 DEF Takes
  <2> QED
    BY <2>2
<1>4. PICK k \in Nat : m = k + 1
  <2>1. m - 1 \in Nat /\ m = (m - 1) + 1
    BY <1>3
  <2> QED
    BY <2>1
<1>5. PICK f : Takes(typed, k, f)
  BY <1>2, <1>4
<1>6. PICK g : g = [n \in 0 .. m |-> IF n = m THEN OneTaken(typed, m, f[k]) ELSE f[n]]
  OBVIOUS
<1>7. ASSUME NEW n \in 0 .. m
      PROVE  g[n] = IF n = 0 THEN <<>> ELSE OneTaken(typed, n, g[n - 1])
  <2>1. CASE n = m
    BY <1>4, <1>6, <2>1
  <2>2. CASE n # m
    <3>1. n \in 0 .. k /\ (n # 0 => n - 1 \in 0 .. m /\ n - 1 # m)
      BY <1>4, <2>2
    <3>2. g[n] = f[n] /\ (n # 0 => g[n - 1] = f[n - 1])
      BY <1>6, <2>2, <3>1
    <3>3. f[n] = IF n = 0 THEN <<>> ELSE OneTaken(typed, n, f[n - 1])
      BY <1>5, <3>1 DEF Takes
    <3> QED
      BY <3>2, <3>3
  <2> QED
    BY <2>1, <2>2
<1>8. Takes(typed, m, g)
  <2>1. g = [n \in 0 .. m |-> g[n]]
    BY <1>6
  <2> QED
    BY <1>7, <2>1 DEF Takes
<1> QED
  BY <1>8

(* TextBox::HandleInput appends only characters from 32 to 125, whatever is *)
(* typed.                                                                   *)
LEMMA TakenTyped ==
  ASSUME NEW typed, Len(typed) \in Nat
  PROVE  Taken(typed) \in Seq(Chars)
<1>1. PICK l \in Nat : l = Len(typed)
  OBVIOUS
<1>2. PICK f : f = CHOOSE g : Takes(typed, l, g)
  OBVIOUS
<1>3. Takes(typed, l, f)
  BY <1>2, TakesExists
<1>4. Taken(typed) = f[l]
  BY <1>1, <1>2 DEF Taken, Takes, OneTaken
<1>5. PICK T : T = {n \in 0 .. l : f[n] \notin Seq(Chars)}
  OBVIOUS
<1>6. T = {}
  <2>1. SUFFICES ASSUME T # {} PROVE FALSE
    OBVIOUS
  <2>2. T \subseteq Nat
    BY <1>5
  <2>3. PICK n \in T : \A k \in T : n <= k
    BY <2>1, <2>2, Least
  <2>4. n \in 0 .. l /\ f[n] \notin Seq(Chars)
    BY <1>5
  <2>5. f[n] = IF n = 0 THEN <<>> ELSE OneTaken(typed, n, f[n - 1])
    BY <1>3, <2>4 DEF Takes
  <2>6. n # 0
    <3>1. <<>> \in Seq(Chars)
      OBVIOUS
    <3> QED
      BY <2>4, <2>5, <3>1
  <2>7. PICK before \in Seq(Chars) : before = f[n - 1]
    <3>1. n - 1 \in 0 .. l /\ n - 1 \notin T
      BY <2>2, <2>3, <2>4, <2>6
    <3> QED
      BY <1>5, <3>1
  <2>8. f[n] = IF typed[n] \in Chars THEN Append(before, typed[n]) ELSE before
    BY <2>5, <2>6, <2>7 DEF OneTaken
  <2>9. f[n] \in Seq(Chars)
    <3>1. CASE typed[n] \in Chars
      BY <2>8, <3>1
    <3>2. CASE typed[n] \notin Chars
      BY <2>8, <3>2
    <3> QED
      BY <3>1, <3>2
  <2> QED
    BY <2>4, <2>9
<1> QED
  BY <1>4, <1>5, <1>6

LEMMA HandleInputTyped ==
  ASSUME NEW text \in Seq(Chars), NEW typed, Len(typed) \in Nat, NEW backspace \in BOOLEAN
  PROVE  HandleInput(text, typed, backspace) \in Seq(Chars)
<1>1. PICK longer \in Seq(Chars) : longer = text \o Taken(typed)
  <2>1. PICK more \in Seq(Chars) : more = Taken(typed)
    BY TakenTyped
  <2>2. text \o more \in Seq(Chars)
    OBVIOUS
  <2> QED
    BY <2>1, <2>2
<1>2. longer # <<>> => Removed(longer) \in Seq(Chars)
  <2>1. SUFFICES ASSUME longer # <<>> PROVE SubSeq(longer, 1, Len(longer) - 1) \in Seq(Chars)
    BY DEF Removed
  <2>2. Len(longer) - 1 \in 0 .. Len(longer)
    BY <2>1, EmptySeq
  <2>3. \A i \in 1 .. Len(longer) - 1 : longer[i] \in Chars
    BY <2>2
  <2> QED
    BY <2>2, <2>3
<1> QED
  BY <1>1, <1>2 DEF HandleInput

(* TextBox::UpdateOutputText ends with a size between the smallest and the  *)
(* default one, and either it is the smallest or the text fits.             *)
LEMMA FittedFits ==
  ASSUME NEW text, NEW scale
  PROVE  /\ Fitted(text, scale) \in kMinFontSize .. kDefaultFontSize
         /\ \/ Fitted(text, scale) = kMinFontSize
            \/ TextWidth(text, Fitted(text, scale)) <= Width + scale - Growth
<1>1. kMinFontSize \in Nat /\ kDefaultFontSize \in Nat /\ kMinFontSize <= kDefaultFontSize
  BY ConstantsAssumption
<1>2. PICK S : S = {kMinFontSize} \cup {s \in kMinFontSize .. kDefaultFontSize :
                                          TextWidth(text, s) <= Width + scale - Growth}
  OBVIOUS
<1>3. S \subseteq kMinFontSize .. kDefaultFontSize /\ S # {}
  BY <1>1, <1>2
<1>4. PICK largest \in S : \A s \in S : s <= largest
  <2>1. PICK T : T = {kDefaultFontSize - s : s \in S}
    OBVIOUS
  <2>2. T \subseteq Nat /\ T # {}
    <3>1. \A s \in S : kDefaultFontSize - s \in Nat
      BY <1>1, <1>3
    <3> QED
      BY <1>3, <2>1, <3>1
  <2>3. PICK least \in T : \A x \in T : least <= x
    BY <2>2, Least
  <2>4. PICK largest \in S : least = kDefaultFontSize - largest
    BY <2>1, <2>3
  <2>5. \A s \in S : kDefaultFontSize - largest <= kDefaultFontSize - s
    BY <2>1, <2>3, <2>4
  <2> QED
    BY <1>1, <1>3, <2>5
<1>5. Max(S) \in S
  BY <1>1, <1>3, <1>4 DEF Max
<1>6. Fitted(text, scale) = Max(S)
  BY <1>2 DEF Fitted
<1> QED
  BY <1>2, <1>3, <1>5, <1>6

(* What Draw measures is a text, and no longer than what was fitted, or by  *)
(* one character with its spacing.                                          *)
LEMMA DrawnOverhang ==
  ASSUME NEW text \in Seq(Chars), NEW showingCursor \in BOOLEAN, NEW size \in Nat
  PROVE  /\ Drawn(text, showingCursor) \in Seq(Chars)
         /\ TextWidth(text, size) \in Nat
         /\ TextWidth(Drawn(text, showingCursor), size)
              <= TextWidth(text, size) + size + kDefaultFontSpacing
<1>1. Cursor \in Chars /\ Dash \in Chars /\ kDefaultFontSpacing \in Nat
  BY ConstantsAssumption
<1>2. PICK n \in Nat : n = Len(text)
  OBVIOUS
<1>3. TextWidth(text, size) = IF n = 0 THEN 0 ELSE n * size + (n - 1) * kDefaultFontSpacing
  <2>1. text = <<>> <=> n = 0
    BY <1>2, EmptySeq
  <2> QED
    BY <1>2, <2>1 DEF TextWidth
<1>4. n * size \in Nat /\ (n # 0 => (n - 1) * kDefaultFontSpacing \in Nat)
  BY <1>1, <1>2
<1>5. TextWidth(text, size) \in Nat
  BY <1>3, <1>4
<1>6. CASE showingCursor
  <2>1. PICK longer : longer = Append(text, Cursor)
    OBVIOUS
  <2>2. longer \in Seq(Chars) /\ Len(longer) = n + 1 /\ longer # <<>>
    BY <1>1, <1>2, <2>1
  <2>3. Drawn(text, showingCursor) = longer
    BY <1>6, <2>1 DEF Drawn
  <2>4. TextWidth(longer, size) = (n + 1) * size + n * kDefaultFontSpacing
    BY <1>1, <2>2 DEF TextWidth
  <2>5. /\ (n + 1) * size = n * size + size
        /\ n # 0 => n * kDefaultFontSpacing
                      = (n - 1) * kDefaultFontSpacing + kDefaultFontSpacing
        /\ n = 0 => n * size = 0 /\ n * kDefaultFontSpacing = 0
    BY <1>1
  <2>6. TextWidth(longer, size) <= TextWidth(text, size) + size + kDefaultFontSpacing
    <3>1. PICK a \in Nat : a = n * size
      BY <1>4
    <3>2. CASE n = 0
      BY <1>1, <1>3, <2>4, <2>5, <3>2
    <3>3. CASE n # 0
      <4>1. PICK b \in Nat : b = (n - 1) * kDefaultFontSpacing
        BY <1>4, <3>3
      <4>2. TextWidth(longer, size) = a + size + (b + kDefaultFontSpacing)
        BY <2>4, <2>5, <3>1, <3>3, <4>1
      <4>3. TextWidth(text, size) = a + b
        BY <1>3, <3>1, <3>3, <4>1
      <4> QED
        BY <1>1, <4>2, <4>3
    <3> QED
      BY <3>2, <3>3
  <2> QED
    BY <1>5, <2>2, <2>3, <2>6
<1>7. CASE ~showingCursor /\ text = <<>>
  <2>1. PICK dash : dash = <<Dash>>
    OBVIOUS
  <2>2. dash \in Seq(Chars) /\ Len(dash) = 1 /\ dash # <<>>
    BY <1>1, <2>1
  <2>3. Drawn(text, showingCursor) = dash
    BY <1>7, <2>1 DEF Drawn
  <2>4. TextWidth(dash, size) = size
    BY <1>1, <2>2 DEF TextWidth
  <2> QED
    BY <1>1, <1>5, <2>2, <2>3, <2>4
<1>8. CASE ~showingCursor /\ text # <<>>
  <2>1. Drawn(text, showingCursor) = text
    BY <1>8 DEF Drawn
  <2> QED
    BY <1>1, <1>5, <2>1
<1> QED
  BY <1>6, <1>7, <1>8

LEMMA InitForm == Init => FormInv
<1> SUFFICES ASSUME Init PROVE FormInv
  OBVIOUS
<1>1. /\ kMinFontSize \in Nat /\ kDefaultFontSize \in Nat /\ kMinFontSize <= kDefaultFontSize
      /\ Width \in Nat /\ Growth \in Nat
  BY ConstantsAssumption
<1>2. TypeOK
  <2>1. m_state \in [Boxes -> States] /\ m_scale \in [Boxes -> 0 .. Growth]
    BY <1>1 DEF Init, States
  <2>2. {m_inputText, m_outputText} \subseteq [Boxes -> Seq(Chars)]
    <3>1. <<>> \in Seq(Chars) /\ <<Dash>> \in Seq(Chars)
      BY ConstantsAssumption
    <3> QED
      BY <3>1 DEF Init
  <2>3. fontSize \in kMinFontSize .. kDefaultFontSize
    BY <1>1 DEF Init
  <2>4. /\ {wasPressed, mouseDown, released, left} \subseteq BOOLEAN
        /\ request \in [Boxes -> Seq(Chars)] \cup {NoRequest} /\ pressedAt \in Places
    BY DEF Init, Places
  <2> QED
    BY <2>1, <2>2, <2>3, <2>4 DEF TypeOK
<1>3. PasswordFits
  <2>1. kDefaultFontSpacing \in Nat
    BY ConstantsAssumption
  <2>2. m_outputText["pass"] = <<Dash>> /\ m_inputText["pass"] = <<>> /\ m_scale["pass"] = 0
    BY DEF Init, Boxes
  <2>3. TextWidth(<<Dash>>, fontSize) = fontSize
    <3>1. Len(<<Dash>>) = 1 /\ <<Dash>> # <<>> /\ fontSize \in Nat
      BY <1>1 DEF Init
    <3> QED
      BY <2>1, <3>1 DEF TextWidth
  <2>4. <<Dash>> # <<>> /\ fontSize \in Nat
    BY <1>1 DEF Init
  <2>5. fontSize <= Width + 0 + fontSize + kDefaultFontSpacing
    BY <1>1, <2>1, <2>4
  <2> QED
    BY <2>2, <2>3, <2>4, <2>5 DEF PasswordFits
<1> QED
  BY <1>2, <1>3 DEF FormInv

LEMMA FrameForm ==
  ASSUME TypeOK, NEW at \in Places, NEW down \in BOOLEAN, NEW backspace \in BOOLEAN,
         NEW typed \in Keys, Frame(at, down, typed, backspace)
  PROVE  FormInv'
<1> DEFINE pressed == down /\ ~mouseDown
<1>1. /\ UpdateBoxes(at, pressed, typed, backspace)
      /\ UpdateButton(at, down)
      /\ mouseDown' = down
      /\ pressedAt' = IF pressed THEN at ELSE pressedAt
      /\ left' = (~pressed /\ (left \/ at # pressedAt))
  BY DEF Frame
<1>2. pressed \in BOOLEAN
  OBVIOUS
<1> HIDE DEF pressed
<1>3. /\ kMinFontSize \in Nat /\ kDefaultFontSize \in Nat
      /\ Width \in Nat /\ Growth \in Nat
  BY ConstantsAssumption
<1>4. m_state' \in [Boxes -> States]
  BY <1>1, <1>2, UpdateStateType DEF UpdateBoxes, TypeOK
<1>5. m_inputText' \in [Boxes -> Seq(Chars)]
  <2>1. Len(typed) \in Nat /\ Len(<<>>) \in Nat
    BY DEF Keys
  <2>2. ASSUME NEW b \in Boxes
        PROVE  (IF HasFocus(b) THEN HandleInput(m_inputText[b], Typed(b, typed), backspace)
                ELSE m_inputText[b]) \in Seq(Chars)
    <3>1. m_inputText[b] \in Seq(Chars)
      BY DEF TypeOK
    <3>2. Len(Typed(b, typed)) \in Nat
      BY <2>1 DEF Typed
    <3> QED
      BY <3>1, <3>2, HandleInputTyped
  <2>3. m_inputText' = [b \in Boxes |->
                          IF HasFocus(b) THEN HandleInput(m_inputText[b], Typed(b, typed), backspace)
                          ELSE m_inputText[b]]
    BY <1>1 DEF UpdateBoxes
  <2> QED
    BY <2>2, <2>3
<1>6. m_scale \in [Boxes -> 0 .. Growth] /\ m_scale' \in [Boxes -> 0 .. Growth]
  BY <1>1 DEF UpdateBoxes, TypeOK
<1>7. /\ fontSize' \in kMinFontSize .. kDefaultFontSize
      /\ \/ fontSize' = kMinFontSize
         \/ TextWidth(m_inputText'["pass"], fontSize') <= Width + m_scale["pass"] - Growth
  <2>1. fontSize' = Fitted(m_inputText'["pass"], m_scale["pass"])
    BY <1>1 DEF UpdateBoxes, SecondBox
  <2> QED
    BY <2>1, FittedFits
<1>8. /\ request' \in [Boxes -> Seq(Chars)] \cup {NoRequest}
      /\ released' \in BOOLEAN /\ wasPressed' \in BOOLEAN
  BY <1>1, <1>5 DEF UpdateButton, Click
<1>9. mouseDown' \in BOOLEAN /\ left' \in BOOLEAN /\ pressedAt' \in Places
  BY <1>1, <1>2 DEF TypeOK
<1>10. PICK showingCursor \in [Boxes -> BOOLEAN] :
         m_outputText' = [b \in Boxes |-> Drawn(m_inputText'[b], showingCursor[b])]
  BY <1>1 DEF UpdateBoxes
<1>11. m_outputText' \in [Boxes -> Seq(Chars)]
  <2>1. ASSUME NEW b \in Boxes PROVE Drawn(m_inputText'[b], showingCursor[b]) \in Seq(Chars)
    <3>1. m_inputText'[b] \in Seq(Chars) /\ showingCursor[b] \in BOOLEAN
      BY <1>5, <1>10
    <3> QED
      BY <1>3, <3>1, DrawnOverhang
  <2> QED
    BY <1>10, <2>1
<1>12. TypeOK'
  BY <1>4, <1>5, <1>6, <1>7, <1>8, <1>9, <1>11 DEF TypeOK
<1>13. PasswordFits'
  <2>1. m_scale["pass"] \in 0 .. Growth /\ m_scale'["pass"] \in Nat
    BY <1>3, <1>6 DEF Boxes
  <2>2. PICK text \in Seq(Chars) : text = m_inputText'["pass"]
    BY <1>5 DEF Boxes
  <2>3. PICK drawn : drawn = m_outputText'["pass"]
    OBVIOUS
  <2>4. PICK showing \in BOOLEAN : drawn = Drawn(text, showing)
    <3>1. drawn = Drawn(text, showingCursor["pass"])
      BY <1>10, <2>2, <2>3 DEF Boxes
    <3>2. showingCursor["pass"] \in BOOLEAN
      BY <1>10 DEF Boxes
    <3> QED
      BY <3>1, <3>2
  <2>5. PICK size \in Nat : size = fontSize'
    BY <1>3, <1>7
  <2>6. /\ TextWidth(text, size) \in Nat
        /\ TextWidth(drawn, size) <= TextWidth(text, size) + size + kDefaultFontSpacing
    BY <2>4, DrawnOverhang
  <2>7. /\ Width + m_scale["pass"] - Growth <= Width
        /\ Width <= Width + m_scale'["pass"]
    BY <1>3, <2>1
  <2>8. \/ size = kMinFontSize
        \/ TextWidth(text, size) <= Width + m_scale'["pass"]
    BY <1>3, <1>7, <2>1, <2>2, <2>5, <2>6, <2>7
  <2>9. CASE size = kMinFontSize
    BY <2>5, <2>9 DEF PasswordFits
  <2>10. CASE /\ TextWidth(text, size) <= Width + m_scale'["pass"]
              /\ drawn = text
    BY <2>2, <2>3, <2>5, <2>10 DEF PasswordFits, TextWidth
  <2>11. CASE /\ TextWidth(text, size) <= Width + m_scale'["pass"]
              /\ drawn # text
    <3>1. TextWidth(drawn, size) \in Int
      <4>1. drawn \in Seq(Chars)
        BY <2>4, DrawnOverhang
      <4> QED
        BY <2>5, <4>1, ConstantsAssumption DEF TextWidth
    <3>2. TextWidth(drawn, size) <= Width + m_scale'["pass"] + size + kDefaultFontSpacing
      BY <1>3, <2>1, <2>6, <2>11, <3>1, ConstantsAssumption
    <3> QED
      BY <2>2, <2>3, <2>5, <2>11, <3>2 DEF PasswordFits, TextWidth
  <2> QED
    BY <2>8, <2>9, <2>10, <2>11
<1> QED
  BY <1>12, <1>13 DEF FormInv

(* FormInv, for any texts, sizes and spacing: a box holds characters it     *)
(* takes and nothing else, and the password is drawn in its box, or a       *)
(* cursor wider than it, or with the smallest font, although TextBox::      *)
(* Update fits it before the cursor is appended and the box is animated.    *)
THEOREM FormInvHolds == Spec => []FormInv
<1>1. FormInv /\ [Next]_vars => FormInv'
  <2> SUFFICES ASSUME FormInv, [Next]_vars PROVE FormInv'
    OBVIOUS
  <2>1. CASE Next
    BY <2>1, FrameForm DEF Next, FormInv
  <2>2. CASE UNCHANGED vars
    BY <2>2 DEF vars, boxVars, FormInv, TypeOK, PasswordFits
  <2> QED
    BY <2>1, <2>2
<1> QED
  BY <1>1, InitForm, PTL DEF Spec

=============================================================================
