----------------------------- MODULE JsonParser -----------------------------
(***************************************************************************)
(* How the JSON library builds a value from tokens: parser::               *)
(* sax_parse_internal, which keeps a stack of what is open, driving        *)
(* json_sax_dom_parser, which keeps a second stack, of pointers into the   *)
(* value, and one more pointer to the member whose name it has read.       *)
(* Messages are parsed with json::parse, which insists on the end of the   *)
(* input; accounts.json with >>, which does not.                           *)
(* A pointer into the value is the path from its root; the value itself is *)
(* a function from paths to nodes.                                         *)
(***************************************************************************)
EXTENDS Integers, SequencesExt, TLC

CONSTANTS
  Names,     \* strings, as numbers: names of members, and values
  Literals,  \* finite numbers, booleans and null, as numbers
  MaxTokens  \* bound: tokens of a text

ASSUME ConstantsAssumption ==
  /\ Names \subseteq Nat
  /\ Literals \subseteq Nat
  /\ MaxTokens \in Nat

VARIABLES
  parser,
  read  \* history: the tokens it was given

vars == <<parser, read>>

Punctuation == {"begin_object", "end_object", "begin_array", "end_array",
                "name_separator", "value_separator"}
Mark(type) == [type |-> type, of |-> 0]
Scalar == [type : {"value_string"}, of : Names] \cup [type : {"literal"}, of : Literals]
(* A value_float too large for a double, which strtod made infinite. *)
Overflow == Mark("value_float")
Token == Scalar \cup {Overflow} \cup {Mark(type) : type \in Punctuation \cup {"end_of_input"}}
Null == Mark("null")
Node == Scalar \cup {Null, Mark("begin_object"), Mark("begin_array")}

(* goal: what the next token is for.  states: TRUE for an array, FALSE for  *)
(* an object; one that has just been opened is not on it yet.               *)
Fresh ==
  [goal |-> "value", states |-> <<>>, ref_stack |-> <<>>, object_element |-> <<>>,
   root |-> (<<>> :> Null)]

Goals == {"value", "first item", "first name", "first colon", "name", "colon",
          "array", "object", "done", "accepted", "error"}

TypeOK ==
  /\ parser.goal \in Goals
  /\ parser.states \in Seq(BOOLEAN)
  /\ parser.ref_stack \in Seq(Seq(Nat))
  /\ parser.object_element \in Seq(Nat)
  /\ \A path \in DOMAIN parser.root :
       /\ path \in Seq(Nat)
       /\ parser.root[path] \in Node
       /\ path # <<>> => parser.root[Front(path)] \in {Mark("begin_object"), Mark("begin_array")}
  /\ read \in Seq(Token)

-----------------------------------------------------------------------------
(* json_sax_dom_parser *)

Top(p) == Last(p.ref_stack)
Children(root, path) ==
  {child \in DOMAIN root : Len(child) = Len(path) + 1 /\ IsPrefix(path, child)}

(* Where handle_value puts a value: at the root, behind the last item of    *)
(* the array, or at the member whose name was read last.                    *)
Place(p) ==
  IF p.ref_stack = <<>> THEN <<>>
  ELSE IF p.root[Top(p)].type = "begin_array"
  THEN Append(Top(p), Cardinality(Children(p.root, Top(p))) + 1)
  ELSE p.object_element

(* A value that was there, of a member of the same name, is gone. *)
handle_value(p, node) ==
  [p EXCEPT !.root = (Place(p) :> node)
                       @@ [q \in {q \in DOMAIN @ : ~IsPrefix(Place(p), q)} |-> @[q]]]

start(p, node) == [handle_value(p, node) EXCEPT !.ref_stack = Append(@, Place(p))]

(* Mutant: front() of the stack for back(). *)
keyInFront(p, name) ==
  LET path == Append(Head(p.ref_stack), name)
  IN  [p EXCEPT !.object_element = path, !.root = @ @@ (path :> Null)]

(* operator[] makes the member, with null, if there is none. *)
key(p, name) ==
  LET path == Append(Top(p), name)
  IN  [p EXCEPT !.object_element = path, !.root = @ @@ (path :> Null)]

end(p) == [p EXCEPT !.ref_stack = Front(@)]

-----------------------------------------------------------------------------
(* sax_parse_internal, between two calls of get_token(). *)

Refused(p) == [p EXCEPT !.goal = "error"]
Expecting(p, goal) == [p EXCEPT !.goal = goal]

(* The state evaluation: what is open decides what may come. *)
Evaluated(p) ==
  Expecting(p, IF p.states = <<>> THEN "done" ELSE IF Last(p.states) THEN "array" ELSE "object")

Pushed(p, isArray) == [p EXCEPT !.states = Append(@, isArray)]
Closed(p) == Evaluated([end(p) EXCEPT !.states = Front(@)])

(* A token that begins no value is parse_error 101, Overflow is             *)
(* out_of_range 406.                                                        *)
ParseValue(p, token) ==
  CASE token.type = "begin_array"  -> Expecting(start(p, token), "first item")
    [] token.type = "begin_object" -> Expecting(start(p, token), "first name")
    [] token \in Scalar            -> Evaluated(handle_value(p, token))
    [] token = Overflow            -> Refused(p)
    [] OTHER                       -> Refused(p)

ParseName(p, token, goal) ==
  IF token.type = "value_string" THEN Expecting(key(p, token.of), goal) ELSE Refused(p)

ParseFirst(p, token) ==
  CASE p.goal = "first item" ->
         IF token.type = "end_array" THEN Evaluated(end(p)) ELSE ParseValue(Pushed(p, TRUE), token)
    [] p.goal = "first name" ->
         IF token.type = "end_object" THEN Evaluated(end(p)) ELSE ParseName(p, token, "first colon")
    [] p.goal = "first colon" ->
         IF token.type = "name_separator" THEN Expecting(Pushed(p, FALSE), "value") ELSE Refused(p)

AfterComma(p) == IF p.goal = "array" THEN "value" ELSE "name"

ParseNextWith(p, token, afterComma, closed) ==
  CASE token.type = "value_separator" -> Expecting(p, afterComma)
    [] p.goal = "array" /\ token.type = "end_array" -> Closed(p)
    [] p.goal = "object" /\ token.type = "end_object" -> closed
    [] OTHER -> Refused(p)

(* Mutant: a comma may be followed by the end of the array. *)
ParseNextTrailing(p, token) ==
  ParseNextWith(p, token, IF p.goal = "array" THEN "first item" ELSE "name", Closed(p))

(* After an item or a member: one more, or the end. *)
ParseNext(p, token) == ParseNextWith(p, token, AfterComma(p), Closed(p))

Parse(p, token) ==
  CASE p.goal = "value" -> ParseValue(p, token)
    [] p.goal \in {"first item", "first name", "first colon"} -> ParseFirst(p, token)
    [] p.goal = "name" -> ParseName(p, token, "colon")
    [] p.goal = "colon" -> IF token.type = "name_separator" THEN Expecting(p, "value") ELSE Refused(p)
    [] p.goal \in {"array", "object"} -> ParseNext(p, token)
    [] p.goal = "done" -> IF token.type = "end_of_input" THEN Expecting(p, "accepted") ELSE Refused(p)
    [] OTHER -> p

get_token(token) ==
  /\ parser.goal \notin {"accepted", "error"}
  /\ Len(read) < MaxTokens
  /\ parser' = Parse(parser, token)
  /\ read' = Append(read, token)

Init == parser = Fresh /\ read = <<>>
Next == \E token \in Token : get_token(token)
Spec == Init /\ [][Next]_vars

-----------------------------------------------------------------------------
(* serializer::dump, as tokens: members in the order of their names. *)

(* Mutant: the separator is left out between members. *)
JoinedMembers(texts) == FlattenSeq(texts)

Joined(texts) ==
  FlattenSeq([i \in DOMAIN texts |->
                IF i = 1 THEN texts[i] ELSE <<Mark("value_separator")>> \o texts[i]])

(* The tokens of the node at path and of what is under it. *)
RECURSIVE Dump(_, _)
Dump(root, path) ==
  LET children == SetToSortSeq(Children(root, path), LAMBDA q, r : Last(q) < Last(r))
      type == root[path].type
      text(q) == IF type = "begin_array" THEN Dump(root, q)
                 ELSE <<[type |-> "value_string", of |-> Last(q)], Mark("name_separator")>>
                        \o Dump(root, q)
  IN  CASE type = "begin_array" ->
             <<root[path]>> \o Joined([i \in DOMAIN children |-> text(children[i])])
                            \o <<Mark("end_array")>>
        [] type = "begin_object" ->
             <<root[path]>> \o Joined([i \in DOMAIN children |-> text(children[i])])
                            \o <<Mark("end_object")>>
        [] OTHER -> <<root[path]>>

-----------------------------------------------------------------------------
(* The grammar of RFC 8259, but for numbers that do not fit into a double:  *)
(* the values, the items of an array and the members of an object that have *)
(* n tokens.                                                                *)
Between(before, texts, after) == {before \o text \o after : text \in texts}
Apart(left, right) ==
  {l \o <<Mark("value_separator")>> \o r : l \in left, r \in right}

Grammar[n \in 0 .. MaxTokens] ==
  LET values == CASE n = 0 -> {}
                  [] n = 1 -> {<<scalar>> : scalar \in Scalar}
                  [] OTHER ->
                       Between(<<Mark("begin_array")>>,
                               IF n = 2 THEN {<<>>} ELSE Grammar[n - 2].items,
                               <<Mark("end_array")>>)
                         \cup Between(<<Mark("begin_object")>>,
                                      IF n = 2 THEN {<<>>} ELSE Grammar[n - 2].members,
                                      <<Mark("end_object")>>)
      one == IF n < 3 THEN {}
             ELSE UNION {Between(<<[type |-> "value_string", of |-> name],
                                   Mark("name_separator")>>, Grammar[n - 2].values, <<>>) :
                           name \in Names}
  IN  [values  |-> values,
       items   |-> values \cup UNION {Apart(Grammar[k].values, Grammar[n - 1 - k].items) :
                                        k \in 1 .. n - 2},
       single  |-> one,
       members |-> one \cup UNION {Apart(Grammar[k].single, Grammar[n - 1 - k].members) :
                                     k \in 1 .. n - 2}]

JsonTexts == UNION {Grammar[n].values : n \in 1 .. MaxTokens}
Beginnings == UNION {Prefixes(text) : text \in JsonTexts}

(* AcceptsJson: the parser accepts exactly the JSON texts whose numbers all *)
(* fit into a double, and gives up only when no such text can begin like    *)
(* this: a malformed line of a client never becomes a message (Protocol::   *)
(* Message::parse), and a proper one does unless it has a number like       *)
(* 1e999, which RFC 8259 allows and the parser refuses (out_of_range 406).  *)
AcceptsJson ==
  /\ parser.goal = "done" <=> read \in JsonTexts
  /\ parser.goal = "error" /\ Last(read).type # "end_of_input" /\ Front(read) \notin JsonTexts =>
       read \notin Beginnings

(* StacksAgree: the parser's stack and the builder's, which know nothing of *)
(* each other, have the same arrays and objects open, but for one that was  *)
(* just begun; and each open one is a child of the one before, so that no   *)
(* array is extended, and moved in memory, while an item of it is pointed   *)
(* to.                                                                      *)
StacksAgree ==
  LET begun == IF parser.goal \in {"first item", "first name", "first colon"} THEN 1 ELSE 0
      open == parser.ref_stack
  IN  parser.goal # "error" =>
        /\ Len(open) = Len(parser.states) + begun
        /\ \A i \in DOMAIN parser.states :
             parser.states[i] <=> parser.root[open[i]].type = "begin_array"
        /\ \A i \in 2 .. Len(open) : open[i] \in Children(parser.root, open[i - 1])

(* ElementIsFresh: a member's value goes to the member of the object that   *)
(* is open whose name was read just before: the one pointer to a member     *)
(* (object_element), which every name overwrites and no closing restores,   *)
(* is never that of another object or of an earlier name.                   *)
ElementIsFresh ==
  parser.goal = "value" /\ parser.ref_stack # <<>> =>
    \/ parser.root[Top(parser)].type = "begin_array"
    \/ parser.object_element = Append(Top(parser), read[Len(read) - 1].of)

(* ParserInv: the types, and that the parser, its builder and the value     *)
(* that is being built agree: StacksAgree and ElementIsFresh.               *)
ParserInv == TypeOK /\ StacksAgree /\ ElementIsFresh

(* SavedIsLoaded: what save() dumps is parsed to the same value, and when   *)
(* the file ends early the parser, which does not insist on the end, still  *)
(* refuses it instead of taking a part of the accounts for all of them.     *)
SavedIsLoaded ==
  parser.goal = "done" /\ parser.root[<<>>].type = "begin_object" =>
    LET text == Dump(parser.root, <<>>)
    IN  /\ FoldLeft(Parse, Fresh, text).root = parser.root
        /\ \A n \in 0 .. Len(text) - 1 :
             FoldLeft(Parse, Fresh, SubSeq(text, 1, n)).goal # "done"
=============================================================================
