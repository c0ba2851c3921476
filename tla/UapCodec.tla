-------------------------------- MODULE UapCodec --------------------------------
(***************************************************************************)
(* The codec of the adapters (adapters/common/uap/codec.py): integers as a *)
(* sign and little-endian limbs (ADR 0003), the encoder, which parses what *)
(* it wrote before it lets it out, and single frames.                      *)
(***************************************************************************)
EXTENDS Integers, Digits

CONSTANTS
  MaxFrame, MaxAtom, MaxDepth, MaxNodes, MaxSymbol, MaxIntegerDigits,
  LimbDigits  \* decimal digits of a limb: 4 in the code

Base == 10 ^ LimbDigits

Integer(sign, limbs) == [type |-> "int", sign |-> sign, limbs |-> limbs]

RECURSIVE LimbsOf(_)
LimbsOf(magnitude) ==
  IF magnitude = 0 THEN << >>
  ELSE << magnitude % Base >> \o LimbsOf(magnitude \div Base)

FromInt(n) ==
  Integer(IF n = 0 THEN 0 ELSE IF n < 0 THEN -1 ELSE 1,
          LimbsOf(IF n < 0 THEN -n ELSE n))

\* Integer.parse, of a sign and the digits after it.
ParseMagnitude(raw, digits) ==
  IF digits = << >> THEN [code |-> "integer-empty"]
  ELSE IF Len(digits) > MaxIntegerDigits THEN [code |-> "integer-too-large"]
  ELSE IF ~AllDigits(digits) THEN [code |-> "integer-digit"]
  ELSE IF Len(digits) > 1 /\ digits[1] = Zero THEN [code |-> "integer-leading-zero"]
  ELSE IF raw = << Minus, Zero >> THEN [code |-> "integer-negative-zero"]
  ELSE [code |-> "ok", value |-> FromInt(
          IF raw[1] = Minus THEN -Number(digits) ELSE Number(digits))]

ParseDigits(raw) ==
  IF raw = << >> THEN [code |-> "integer-empty"]
  ELSE IF raw[1] = Plus THEN [code |-> "integer-plus"]
  ELSE ParseMagnitude(raw, IF raw[1] = Minus THEN Tail(raw) ELSE raw)

\* Only a normal representation is rendered: no limbs without a sign, no sign
\* without limbs, no zero as the highest limb.
Representable(v) ==
  \/ v.sign = 0 /\ v.limbs = << >>
  \/ /\ v.sign \in {-1, 1}
     /\ v.limbs # << >>
     /\ Last(v.limbs) # 0
     /\ \A i \in DOMAIN v.limbs : v.limbs[i] \in 0 .. Base - 1

Padded(limb) == [i \in 1 .. LimbDigits |->
                   Zero + ((limb \div 10 ^ (LimbDigits - i)) % 10)]

RenderMagnitude(sign, magnitude) ==
  IF Len(magnitude) > MaxIntegerDigits THEN [code |-> "integer-too-large"]
  ELSE [code |-> "ok",
        bytes |-> IF sign < 0 THEN << Minus >> \o magnitude ELSE magnitude]

\* Integer.render
RenderDigits(v) ==
  IF ~Representable(v) THEN [code |-> "integer-representation"]
  ELSE IF v.sign = 0 THEN [code |-> "ok", bytes |-> << Zero >>]
  ELSE RenderMagnitude(v.sign,
         Decimal[Last(v.limbs)]
           \o FlattenSeq([i \in 1 .. Len(v.limbs) - 1 |->
                            Padded(v.limbs[Len(v.limbs) - i])]))

INSTANCE Csexp WITH ParseInteger <- ParseDigits, RenderInteger <- RenderDigits

-------------------------------------------------------------------------------
RECURSIVE Encode(_, _), EncodeFields(_, _, _)

Encode(v, depth) ==
  IF depth > MaxDepth THEN Bad("depth-too-large")
  ELSE CASE v.type = "list" ->
              Tagged(Tag.list, FoldLeft(LAMBDA out, item :
                AndThen(out, LAMBDA o : Then(o, Encode(item, depth + 1))),
                Bytes(<< >>), v.values))
         [] v.type = "record" -> Tagged(Tag.record, EncodeFields(v.fields, 1, depth))
         [] OTHER -> EncodeLeaf(v)

\* The fields from i on.
EncodeFields(fields, i, depth) ==
  IF i > Len(fields) THEN Bytes(<< >>)
  ELSE AndThen(CheckKey(fields, i), LAMBDA key :
         Then(Enclosed(Then(Atom(key.bytes), Encode(fields[i][2], depth + 1))),
              EncodeFields(fields, i + 1, depth)))

\* Lists on the wire nest deeper than the values whose depth was counted, and
\* there are more nodes than values: the decoder's limits are kept by reading
\* the payload.
ReadBack(out) == AndThen(Parse(out.bytes), LAMBDA root : out)

EncodePayload(v) == AndThen(FitsFrame(Encode(v, 1)), ReadBack)

EncodeFrame(v) == AndThen(EncodePayload(v), LAMBDA out : Bytes(Netstring(out.bytes)))

\* A header without a colon: too long, no number, or not all there.
HeaderCode(data) ==
  IF Len(data) > Len(Decimal[MaxFrame]) \/ ~AllDigits(data) THEN "frame-length"
  ELSE "frame-truncated"

\* What is wrong with a header that ends in a colon.
LengthOf(digits) ==
  IF digits = << >> \/ ~AllDigits(digits) THEN "frame-length"
  ELSE IF Len(digits) > 1 /\ digits[1] = Zero THEN "frame-leading-zero"
  ELSE IF Number(digits) > MaxFrame THEN "frame-too-large"
  ELSE "ok"

\* The bytes that follow the colon of a good header, up to comma.
DecodeBody(data, colon, comma) ==
  IF Len(data) < comma THEN Bad("frame-truncated")
  ELSE IF data[comma] # Comma THEN Bad("frame-comma")
  ELSE IF Len(data) # comma THEN Bad("frame-trailing")
  ELSE DecodePayload(SubSeq(data, colon + 1, comma - 1))

DecodeHeader(data, colon, digits) ==
  IF LengthOf(digits) # "ok" THEN Bad(LengthOf(digits))
  ELSE DecodeBody(data, colon, colon + Number(digits) + 1)

\* Exactly one frame.
DecodeFrame(data) ==
  IF data = << >> THEN Bad("frame-truncated")
  ELSE IF ~IsDigit(data[1]) THEN Bad("frame-length")
  ELSE IF Colon \notin ToSet(data) THEN Bad(HeaderCode(data))
  ELSE DecodeHeader(data, FirstColon(data), SubSeq(data, 1, FirstColon(data) - 1))
================================================================================
