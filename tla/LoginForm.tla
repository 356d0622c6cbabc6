----------------------------- MODULE LoginForm -----------------------------
(***************************************************************************)
(* The login form of the client: two TextBox objects and a Button, updated *)
(* once per frame by LoginScene::Update from what raylib sampled for that  *)
(* frame: where the pointer is, whether the left button is down, the       *)
(* characters typed and whether backspace was struck.  The boxes and the   *)
(* button do not overlap, so the pointer is in at most one of them.  Both  *)
(* boxes draw with one CFont, whose size each of them sets when it is      *)
(* updated.                                                                *)
(***************************************************************************)
EXTENDS Integers, Sequences, FiniteSetsExt

CONSTANTS
  Chars,        \* the characters from 32 to 125, which a box takes
  OtherChars,   \* the characters it does not take
  Cursor, Dash, \* '|', which blinks, and '-', which stands for no text
  kDefaultFontSize, kMinFontSize, kDefaultFontSpacing,  \* 20, 8 and 2
  Width, Growth,  \* of a box at rest, and what focus adds to it
  NoRequest,
  MaxText,      \* bound: characters in a box
  MaxTyped      \* bound: characters typed in a frame

ASSUME ConstantsAssumption ==
  /\ Chars \cap OtherChars = {}
  /\ {Cursor, Dash} \subseteq Chars
  /\ {kDefaultFontSize, kMinFontSize, kDefaultFontSpacing} \subseteq Nat
  /\ {Width, Growth, MaxText, MaxTyped} \subseteq Nat
  /\ kMinFontSize <= kDefaultFontSize
  /\ NoRequest \notin [{"username", "pass"} -> Seq(Chars)]

VARIABLES
  m_state,      \* box -> TextBoxState
  m_inputText,  \* box -> what has been typed into it
  m_outputText, \* box -> what is drawn of it
  m_scale,      \* box -> how much of Growth it shows
  fontSize,     \* of the font both boxes share
  wasPressed,   \* the Button's
  mouseDown,    \* the mouse button in the frame before
  request,      \* the LoginRequest sent in the last frame, or NoRequest
  released,     \* the Button's release callback ran in the last frame
  pressedAt,    \* history: where the mouse button last went down
  left          \* history: the pointer has left that place since

boxVars == <<m_state, m_inputText, m_outputText, m_scale, fontSize>>
vars == <<boxVars, wasPressed, mouseDown, request, released, pressedAt, left>>

Boxes == {"username", "pass"}
Places == Boxes \cup {"button", "elsewhere"}
States == {"NOT_ACTIVE", "HOVERED", "ACTIVE"}

TypeOK ==
  /\ m_state \in [Boxes -> States]
  /\ {m_inputText, m_outputText} \subseteq [Boxes -> Seq(Chars)]
  /\ m_scale \in [Boxes -> 0 .. Growth]
  /\ fontSize \in kMinFontSize .. kDefaultFontSize
  /\ {wasPressed, mouseDown, released, left} \subseteq BOOLEAN
  /\ request \in [Boxes -> Seq(Chars)] \cup {NoRequest}
  /\ pressedAt \in Places

Init ==
  /\ m_state = [b \in Boxes |-> "NOT_ACTIVE"]
  /\ m_inputText = [b \in Boxes |-> <<>>]
  /\ m_outputText = [b \in Boxes |-> <<Dash>>]
  /\ m_scale = [b \in Boxes |-> 0]
  /\ fontSize = kDefaultFontSize
  /\ wasPressed = FALSE
  /\ mouseDown = FALSE
  /\ request = NoRequest
  /\ released = FALSE
  /\ pressedAt = "elsewhere"
  /\ left = FALSE

-----------------------------------------------------------------------------
(* TextBox::Update, for the two boxes in this order. *)

FirstBox == "username"
SecondBox == "pass"

(* Mutant: a box forgets its focus only when another one gets it. *)
UpdateStateSticky(b, at, pressed) ==
  IF at = b THEN IF pressed \/ m_state[b] = "ACTIVE" THEN "ACTIVE" ELSE "HOVERED"
  ELSE IF m_state[b] = "HOVERED" \/ (pressed /\ at \in Boxes) THEN "NOT_ACTIVE"
  ELSE m_state[b]

(* A press gives the focus to the box under the pointer and takes it from   *)
(* the other; without one the pointer only makes a box without focus light. *)
UpdateState(b, at, pressed) ==
  IF at = b THEN IF pressed \/ m_state[b] = "ACTIVE" THEN "ACTIVE" ELSE "HOVERED"
  ELSE IF pressed \/ m_state[b] = "HOVERED" THEN "NOT_ACTIVE"
  ELSE m_state[b]

Removed(text) == SubSeq(text, 1, Len(text) - 1)

(* What a box takes of the queue of typed characters, one after the other. *)
Taken(typed) ==
  LET taken[n \in 0 .. Len(typed)] ==
        IF n = 0 THEN <<>>
        ELSE IF typed[n] \in Chars THEN Append(taken[n - 1], typed[n])
        ELSE taken[n - 1]
  IN  taken[Len(typed)]

(* HandleInput: the characters it takes, then one backspace. *)
HandleInput(text, typed, backspace) ==
  LET longer == text \o Taken(typed)
  IN  IF backspace /\ longer # <<>> THEN Removed(longer) ELSE longer

(* Mutant: the input is handled before the state is updated. *)
ActiveBefore(b) == m_state[b] = "ACTIVE"

HasFocus(b) == m_state'[b] = "ACTIVE"

(* The first box empties the queue of typed characters for the second one. *)
Typed(b, typed) == IF b = SecondBox /\ HasFocus(FirstBox) THEN <<>> ELSE typed

(* MeasureText: the characters, and the spacing between them. *)
TextWidth(text, size) ==
  IF text = <<>> THEN 0 ELSE Len(text) * size + (Len(text) - 1) * kDefaultFontSpacing

(* Mutant: the text is fitted to the whole box, which may shrink before Draw. *)
FittedWhole(text, scale) ==
  Max({kMinFontSize} \cup {s \in kMinFontSize .. kDefaultFontSize :
                             TextWidth(text, s) <= Width + scale})

(* The first half of UpdateOutputText: the largest size with which what was *)
(* typed leaves a margin (10 pixels, what the focus adds) in the box as it  *)
(* is scaled now.                                                           *)
Fitted(text, scale) ==
  Max({kMinFontSize} \cup {s \in kMinFontSize .. kDefaultFontSize :
                             TextWidth(text, s) <= Width + scale - Growth})

(* The second half: the cursor is appended to the text that was fitted.     *)
Drawn(text, showingCursor) ==
  IF showingCursor THEN Append(text, Cursor) ELSE IF text = <<>> THEN <<Dash>> ELSE text

(* Animate: the scale goes some way to its target, or stays if it is there. *)
Animated(state, scale) ==
  IF state = "NOT_ACTIVE" THEN 0 .. scale ELSE scale .. Growth

UpdateBoxes(at, pressed, typed, backspace) ==
  /\ m_state' = [b \in Boxes |-> UpdateState(b, at, pressed)]
  /\ m_inputText' = [b \in Boxes |->
                       IF HasFocus(b)
                       THEN HandleInput(m_inputText[b], Typed(b, typed), backspace)
                       ELSE m_inputText[b]]
  /\ fontSize' = Fitted(m_inputText'[SecondBox], m_scale[SecondBox])
  /\ \E showingCursor \in [Boxes -> BOOLEAN] :  \* the timer blinks it
       m_outputText' = [b \in Boxes |-> Drawn(m_inputText'[b], showingCursor[b])]
  /\ m_scale' \in [Boxes -> 0 .. Growth]
  /\ \A b \in Boxes : m_scale'[b] \in Animated(m_state'[b], m_scale[b])

-----------------------------------------------------------------------------
(* Button::Update, after both boxes and with their texts.  The click        *)
(* callback runs when the mouse button goes down, and sends the request.    *)

Click ==
  request' = IF \A b \in Boxes : m_inputText'[b] # <<>> THEN m_inputText' ELSE NoRequest

(* Mutant: the pointer may leave and come back. *)
UpdateButtonForgiving(at, down) ==
  LET pressed == down /\ ~mouseDown
  IN  /\ IF at = "button" /\ pressed THEN Click ELSE request' = NoRequest
      /\ released' = (at = "button" /\ ~down /\ wasPressed)
      /\ wasPressed' = (IF at = "button" THEN pressed \/ (down /\ wasPressed) ELSE wasPressed)

(* wasPressed lasts until the mouse button goes up or the pointer leaves. *)
UpdateButton(at, down) ==
  LET pressed == down /\ ~mouseDown
  IN  /\ IF at = "button" /\ pressed THEN Click ELSE request' = NoRequest
      /\ released' = (at = "button" /\ ~down /\ wasPressed /\ mouseDown)
      /\ wasPressed' = (at = "button" /\ (pressed \/ (wasPressed /\ (down \/ ~mouseDown))))

(* LoginScene::Update *)
Frame(at, down, typed, backspace) ==
  LET pressed == down /\ ~mouseDown
  IN  /\ UpdateBoxes(at, pressed, typed, backspace)
      /\ \A b \in Boxes : Len(m_inputText'[b]) <= MaxText
      /\ UpdateButton(at, down)
      /\ mouseDown' = down
      /\ pressedAt' = IF pressed THEN at ELSE pressedAt
      /\ left' = (~pressed /\ (left \/ at # pressedAt))

Keys == UNION {[1 .. n -> Chars \cup OtherChars] : n \in 0 .. MaxTyped}

Next ==
  \E at \in Places, down, backspace \in BOOLEAN, typed \in Keys :
    Frame(at, down, typed, backspace)

Spec == Init /\ [][Next]_vars

-----------------------------------------------------------------------------
(* FocusFollowsClick: a box has the focus exactly when the last press was   *)
(* in it, so never both: each box decides from its own state and the        *)
(* pointer (TextBox::UpdateState), and no one keeps the focus.              *)
FocusFollowsClick == \A b \in Boxes : m_state[b] = "ACTIVE" <=> pressedAt = b

(* SentAsSeen: a LoginRequest carries the two texts that were on the screen *)
(* when the button was pressed: what is typed in the frame of the press is  *)
(* in neither, because the press takes the focus before the input is        *)
(* handled.                                                                 *)
SentAsSeen == [][request' # NoRequest => request' = m_inputText]_vars

(* ReleaseOfClick: the release callback is only ever run for a press that   *)
(* began on the button and that the pointer did not leave, and the memory   *)
(* of a press does not outlive it.                                          *)
ReleaseOfClick ==
  /\ released \/ wasPressed => pressedAt = "button" /\ ~left
  /\ wasPressed => mouseDown

(* PasswordFits: the password as it is drawn is no wider than its box, and  *)
(* while the cursor shows (or the dash) no wider than the box and that one  *)
(* character with its spacing: UpdateOutputText fits the text before it     *)
(* appends the cursor, and before Animate shrinks the box, and it is Draw   *)
(* that measures both.  Or the font is the smallest.  Nothing of the kind   *)
(* holds for the name, which is drawn in the size that fits the password.   *)
PasswordFits ==
  LET room == Width + m_scale["pass"]
      drawn == TextWidth(m_outputText["pass"], fontSize)
  IN  \/ fontSize = kMinFontSize
      \/ m_outputText["pass"] = m_inputText["pass"] /\ drawn <= room
      \/ /\ m_outputText["pass"] # m_inputText["pass"]
         /\ drawn <= room + fontSize + kDefaultFontSpacing

(* FormInv: the types, and PasswordFits. *)
FormInv == TypeOK /\ PasswordFits
=============================================================================
