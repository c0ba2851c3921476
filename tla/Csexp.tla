--------------------------------- MODULE Csexp ---------------------------------
(***************************************************************************)
(* Canonical values on the wire (ADR 0002), as adapters/common/uap/        *)
(* codec.py reads and writes them: typed values as canonical               *)
(* S-expressions, a counted atom for every leaf, and the limits of a       *)
(* resource profile.                                                       *)
(*                                                                         *)
(* Bytes are their codes.  A tag, and true and false, is one letter here   *)
(* where the code spells a word.  A result is a record whose field code is *)
(* "ok" or the stable code of the error.  Integers are parsed and rendered *)
(* by the module that instantiates this one.                               *)
(***************************************************************************)
EXTENDS Digits

CONSTANTS
  MaxFrame, MaxAtom, MaxDepth, MaxNodes, MaxSymbol, \* Limits
  ParseInteger(_),  \* digits -> [code, integer]
  RenderInteger(_)  \* integer value -> [code, bytes]

Open == 40
Close == 41

IsLetter(byte) == (65 <= byte /\ byte <= 90) \/ (97 <= byte /\ byte <= 122)

\* The letters that stand for the words of the tags.
Tag == [null |-> << 110 >>, bool |-> << 98 >>, int |-> << 105 >>,
        text |-> << 116 >>, bytes |-> << 111 >>, symbol |-> << 115 >>,
        list |-> << 108 >>, record |-> << 114 >>]
True == << 116 >>
False == << 102 >>

Bad(code)    == [code |-> code]
Bytes(bytes) == [code |-> "ok", bytes |-> bytes]

\* A result that is not an error is taken on to the next step.
AndThen(result, Step(_)) == IF result.code # "ok" THEN result ELSE Step(result)

\* Two pieces of output in order: the first error wins.
Then(left, right) ==
  AndThen(left, LAMBDA l : AndThen(right, LAMBDA r : Bytes(l.bytes \o r.bytes)))

-------------------------------------------------------------------------------
(* Values.  Null, Bool, Integer, Text, Octets, Symbol, ListValue, Record.  *)

NullValue       == [type |-> "null"]
Bool(b)         == [type |-> "bool", value |-> b]
Text(raw)       == [type |-> "text", utf8 |-> raw]
Octets(raw)     == [type |-> "bytes", data |-> raw]
Symbol(raw)     == [type |-> "symbol", ascii |-> raw]
ListOf(values)  == [type |-> "list", values |-> values]
RecordOf(fields) == [type |-> "record", fields |-> fields] \* << key, value >>

Value(v) == [code |-> "ok", value |-> v]

\* One scalar value in shortest-form UTF-8 (bytes.decode, strict).
WellFormed(c) ==
  LET tail(from) == \A i \in from .. Len(c) : 128 <= c[i] /\ c[i] <= 191
  IN  \/ Len(c) = 1 /\ c[1] <= 127
      \/ Len(c) = 2 /\ 194 <= c[1] /\ c[1] <= 223 /\ tail(2)
      \/ /\ Len(c) = 3 /\ 224 <= c[1] /\ c[1] <= 239 /\ tail(2)
         /\ c[1] = 224 => c[2] >= 160
         /\ c[1] = 237 => c[2] <= 159
      \/ /\ Len(c) = 4 /\ 240 <= c[1] /\ c[1] <= 244 /\ tail(2)
         /\ c[1] = 240 => c[2] >= 144
         /\ c[1] = 244 => c[2] <= 143

RECURSIVE Utf8(_)
Utf8(raw) ==
  raw = << >> \/ \E n \in 1 .. 4 :
    /\ n <= Len(raw)
    /\ WellFormed(SubSeq(raw, 1, n))
    /\ Utf8(SubSeq(raw, n + 1, Len(raw)))

CheckUtf8(raw) == IF Utf8(raw) THEN Bytes(raw) ELSE Bad("utf8-invalid")

CheckSymbol(raw) ==
  IF Len(raw) > MaxSymbol THEN Bad("symbol-too-large")
  ELSE IF /\ raw # << >>
          /\ IsLetter(raw[1])
          /\ \A i \in DOMAIN raw : \/ IsLetter(raw[i]) \/ IsDigit(raw[i])
                                   \/ raw[i] \in {45, 46, 47, 95}
  THEN Bytes(raw)
  ELSE Bad("symbol-invalid")

\* Unsigned octet order of two keys, neither a prefix of itself.
RECURSIVE KeyBefore(_, _)
KeyBefore(a, b) ==
  /\ b # << >>
  /\ \/ a = << >>
     \/ a[1] < b[1]
     \/ a[1] = b[1] /\ KeyBefore(Tail(a), Tail(b))

\* What is wrong with a key that follows another one.
KeyOrder(previous, key) ==
  IF key = previous THEN "record-duplicate"
  ELSE IF KeyBefore(key, previous) THEN "record-order"
  ELSE "ok"

-------------------------------------------------------------------------------
(* _Parser: counted atoms and lists, read with a running count of nodes.   *)

Atom(raw) == IF Len(raw) > MaxAtom THEN Bad("atom-too-large")
             ELSE Bytes(Decimal[Len(raw)] \o << Colon >> \o raw)

Node(node, next, nodes) ==
  [code |-> "ok", node |-> node, next |-> next, nodes |-> nodes]

\* Fault: a length may have leading zeroes.
LengthCodeLenient(payload, length, digits, colon) ==
  IF colon > Len(payload) THEN "length-colon"
  ELSE IF payload[colon] # Colon THEN "length-colon"
  ELSE IF length > MaxAtom THEN "atom-too-large"
  ELSE IF colon + length > Len(payload) THEN "atom-truncated"
  ELSE "ok"

\* What is wrong with a length whose digits end before position colon.
LengthCode(payload, length, digits, colon) ==
  IF Len(digits) > 1 /\ digits[1] = Zero THEN "length-leading-zero"
  ELSE IF colon > Len(payload) THEN "length-colon"
  ELSE IF payload[colon] # Colon THEN "length-colon"
  ELSE IF length > MaxAtom THEN "atom-too-large"
  ELSE IF colon + length > Len(payload) THEN "atom-truncated"
  ELSE "ok"

AtomNode(payload, length, colon, nodes) ==
  Node([atom |-> SubSeq(payload, colon + 1, colon + length)], colon + length + 1, nodes)

\* The first position from start on that holds no digit.
DigitsEnd(payload, start) ==
  CHOOSE c \in start .. Len(payload) + 1 :
    /\ c > Len(payload) \/ ~IsDigit(payload[c])
    /\ AllDigits(SubSeq(payload, start, c - 1))

ParseLength(payload, digits, colon, nodes) ==
  IF LengthCode(payload, Number(digits), digits, colon) # "ok"
  THEN Bad(LengthCode(payload, Number(digits), digits, colon))
  ELSE AtomNode(payload, Number(digits), colon, nodes)

ParseCounted(payload, start, colon, nodes) ==
  ParseLength(payload, SubSeq(payload, start, colon - 1), colon, nodes)

ParseAtom(payload, start, nodes) ==
  ParseCounted(payload, start, DigitsEnd(payload, start), nodes)

RECURSIVE ParseNode(_, _, _, _), ParseItems(_, _, _, _, _)

\* The node at a position, when the count of nodes already read is given.
ParseNode(payload, position, nodes, depth) ==
  IF nodes >= MaxNodes THEN Bad("nodes-too-many")
  ELSE IF position > Len(payload) THEN Bad("csexp-truncated")
  ELSE IF payload[position] = Open
  THEN IF depth > MaxDepth THEN Bad("depth-too-large")
       ELSE ParseItems(payload, position + 1, nodes + 1, depth, << >>)
  ELSE IF IsDigit(payload[position]) THEN ParseAtom(payload, position, nodes + 1)
  ELSE Bad("csexp-token")

\* The items of a list up to its closing parenthesis.
ParseItems(payload, position, nodes, depth, items) ==
  IF position > Len(payload) THEN Bad("list-unclosed")
  ELSE IF payload[position] = Close
  THEN Node([items |-> items], position + 1, nodes)
  ELSE AndThen(ParseNode(payload, position, nodes, depth + 1),
               LAMBDA item : ParseItems(payload, item.next, item.nodes, depth,
                                        Append(items, item.node)))

Parse(payload) ==
  AndThen(ParseNode(payload, 1, 0, 1),
          LAMBDA root : IF root.next # Len(payload) + 1
                        THEN Bad("payload-trailing") ELSE root)

-------------------------------------------------------------------------------
(* _typed: the value a node stands for.                                    *)

IsAtom(node) == "atom" \in DOMAIN node

\* A tag and one atom.
Leaf(tag, raw) ==
  CASE tag = Tag.bool ->
         IF raw = True THEN Value(Bool(TRUE))
         ELSE IF raw = False THEN Value(Bool(FALSE)) ELSE Bad("bool-value")
    [] tag = Tag.int -> ParseInteger(raw)
    [] tag = Tag.text ->
         IF Utf8(raw) THEN Value(Text(raw)) ELSE Bad("utf8-invalid")
    [] tag = Tag.bytes -> Value(Octets(raw))
    [] tag = Tag.symbol ->
         AndThen(CheckSymbol(raw), LAMBDA checked : Value(Symbol(raw)))

RECURSIVE Typed(_), TypedItems(_, _), TypedFields(_, _)

TypedItems(nodes, values) ==
  IF nodes = << >> THEN Value(ListOf(values))
  ELSE AndThen(Typed(Head(nodes)),
               LAMBDA first : TypedItems(Tail(nodes), Append(values, first.value)))

\* The key of an entry of a record: two nodes, the first one a symbol that
\* follows the keys before it.
EntryKey(entry, fields) ==
  IF IsAtom(entry) THEN Bad("record-entry")
  ELSE IF Len(entry.items) # 2 THEN Bad("record-entry")
  ELSE IF ~IsAtom(entry.items[1]) THEN Bad("record-entry")
  ELSE AndThen(CheckSymbol(entry.items[1].atom), LAMBDA key :
         IF fields = << >> THEN key
         ELSE IF KeyOrder(Last(fields)[1], key.bytes) # "ok"
         THEN Bad(KeyOrder(Last(fields)[1], key.bytes)) ELSE key)

TypedFields(entries, fields) ==
  IF entries = << >> THEN Value(RecordOf(fields))
  ELSE AndThen(EntryKey(Head(entries), fields), LAMBDA key :
         AndThen(Typed(Head(entries).items[2]), LAMBDA item :
           TypedFields(Tail(entries), Append(fields, << key.bytes, item.value >>))))

\* A tag, with the number of atoms that follows it.
TypedAs(tag, nodes) ==
  CASE tag = Tag.null ->
         IF nodes # << >> THEN Bad("typed-arity") ELSE Value(NullValue)
    [] tag \in {Tag.bool, Tag.int, Tag.text, Tag.bytes, Tag.symbol} ->
         IF Len(nodes) # 1 THEN Bad("typed-arity")
         ELSE IF ~IsAtom(nodes[1]) THEN Bad("typed-arity")
         ELSE Leaf(tag, nodes[1].atom)
    [] tag = Tag.list -> TypedItems(nodes, << >>)
    [] tag = Tag.record -> TypedFields(nodes, << >>)
    [] OTHER -> Bad("typed-tag")

Typed(node) ==
  IF IsAtom(node) THEN Bad("typed-list")
  ELSE IF node.items = << >> THEN Bad("typed-list")
  ELSE IF ~IsAtom(node.items[1]) THEN Bad("typed-list")
  ELSE TypedAs(node.items[1].atom, Tail(node.items))

-------------------------------------------------------------------------------
(* Encoding a leaf, and the two ends of a payload.                         *)

Enclosed(body) == Then(Bytes(<< Open >>), Then(body, Bytes(<< Close >>)))
Tagged(tag, body) == Enclosed(Then(Atom(tag), body))

\* The atom of a checked value.
Checked(check) == AndThen(check, LAMBDA checked : Atom(checked.bytes))

EncodeLeaf(v) ==
  CASE v.type = "null"   -> Tagged(Tag.null, Bytes(<< >>))
    [] v.type = "bool"   -> Tagged(Tag.bool, Atom(IF v.value THEN True ELSE False))
    [] v.type = "int"    -> Tagged(Tag.int, Checked(RenderInteger(v)))
    [] v.type = "text"   -> Tagged(Tag.text, Checked(CheckUtf8(v.utf8)))
    [] v.type = "bytes"  -> Tagged(Tag.bytes, Atom(v.data))
    [] v.type = "symbol" -> Tagged(Tag.symbol, Checked(CheckSymbol(v.ascii)))
    [] OTHER             -> Bad("value-type")

\* The key of field i, checked before its value is encoded.
CheckKey(fields, i) ==
  AndThen(CheckSymbol(fields[i][1]), LAMBDA key :
    IF i = 1 THEN key
    ELSE IF KeyOrder(fields[i - 1][1], fields[i][1]) # "ok"
    THEN Bad(KeyOrder(fields[i - 1][1], fields[i][1])) ELSE key)

\* The size of a finished payload.
FitsFrame(out) ==
  AndThen(out, LAMBDA o : IF Len(o.bytes) > MaxFrame THEN Bad("frame-too-large") ELSE o)

Netstring(payload) == Decimal[Len(payload)] \o << Colon >> \o payload \o << Comma >>

DecodePayload(payload) ==
  IF Len(payload) > MaxFrame THEN Bad("frame-too-large")
  ELSE AndThen(Parse(payload), LAMBDA root : Typed(root.node))
================================================================================
