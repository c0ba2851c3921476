----------------------------- MODULE ReferenceCodec -----------------------------
(***************************************************************************)
(* The independent codec of the M0 spike (spikes/m0-candidates/canonical-  *)
(* rfc9804/codec.py), with which the production codecs are compared.  Its  *)
(* parser and its typing of nodes are the rules of module Csexp; its       *)
(* integers are decimal digits with a sign, its encoder counts values and  *)
(* does not read back what it wrote, and its frames are taken off a        *)
(* buffer, by the decoder of one frame and by the incremental one.         *)
(***************************************************************************)
EXTENDS Digits

CONSTANTS
  MaxFrame, MaxAtom, MaxDepth, MaxNodes, MaxSymbol, MaxIntegerDigits

Signed(negative, digits) == [type |-> "int", negative |-> negative, digits |-> digits]

\* Fault: minus zero is let through.
CheckDigitsOnly(negative, digits) ==
  IF digits = << >> THEN [code |-> "integer-empty"]
  ELSE IF Len(digits) > MaxIntegerDigits THEN [code |-> "integer-too-large"]
  ELSE IF ~AllDigits(digits) THEN [code |-> "integer-digit"]
  ELSE IF Len(digits) > 1 /\ digits[1] = Zero THEN [code |-> "integer-leading-zero"]
  ELSE [code |-> "ok", value |-> Signed(negative, digits)]

\* Integer.parse
CheckDigits(negative, digits) ==
  IF digits = << >> THEN [code |-> "integer-empty"]
  ELSE IF Len(digits) > MaxIntegerDigits THEN [code |-> "integer-too-large"]
  ELSE IF ~AllDigits(digits) THEN [code |-> "integer-digit"]
  ELSE IF Len(digits) > 1 /\ digits[1] = Zero THEN [code |-> "integer-leading-zero"]
  ELSE IF negative /\ digits = << Zero >> THEN [code |-> "integer-negative-zero"]
  ELSE [code |-> "ok", value |-> Signed(negative, digits)]

ParseSignedDigits(raw) ==
  IF raw = << >> THEN [code |-> "integer-empty"]
  ELSE IF Len(raw) > MaxIntegerDigits + 1 THEN [code |-> "integer-too-large"]
  ELSE IF raw[1] = Plus THEN [code |-> "integer-plus"]
  ELSE CheckDigits(raw[1] = Minus, IF raw[1] = Minus THEN Tail(raw) ELSE raw)

Wire(v) == IF v.negative THEN << Minus >> \o v.digits ELSE v.digits

\* Integer.render parses again, so that only a canonical integer is written.
RenderParsed(parsed) ==
  IF parsed.code # "ok" THEN parsed ELSE [code |-> "ok", bytes |-> Wire(parsed.value)]
RenderSigned(v) == RenderParsed(ParseSignedDigits(Wire(v)))

INSTANCE Csexp WITH ParseInteger <- ParseSignedDigits, RenderInteger <- RenderSigned

-------------------------------------------------------------------------------
(* Encoding, with the number of values encoded so far.                    *)

Output(bytes, nodes) == [code |-> "ok", bytes |-> bytes, nodes |-> nodes]
WithNodes(out, nodes) == AndThen(out, LAMBDA o : Output(o.bytes, nodes))

RECURSIVE EncodeFrom(_, _, _), EncodeFieldsFrom(_, _, _, _)

\* An item after what is already written, at the given depth.
EncodeAfter(done, item, depth) ==
  AndThen(EncodeFrom(item, depth, done.nodes),
          LAMBDA out : Output(done.bytes \o out.bytes, out.nodes))

EncodeFrom(v, depth, nodes) ==
  IF nodes >= MaxNodes THEN Bad("nodes-too-many")
  ELSE IF depth > MaxDepth THEN Bad("depth-too-large")
  ELSE CASE v.type = "list" ->
              AndThen(FoldLeft(LAMBDA done, item :
                        AndThen(done, LAMBDA d : EncodeAfter(d, item, depth + 1)),
                        Output(<< >>, nodes + 1), v.values),
                      LAMBDA items : WithNodes(Tagged(Tag.list, items), items.nodes))
         [] v.type = "record" ->
              AndThen(EncodeFieldsFrom(v.fields, 1, depth, Output(<< >>, nodes + 1)),
                      LAMBDA fields : WithNodes(Tagged(Tag.record, fields), fields.nodes))
         [] OTHER -> WithNodes(EncodeLeaf(v), nodes + 1)

EncodeField(key, v, depth, done) ==
  AndThen(Atom(key), LAMBDA atom :
    AndThen(EncodeFrom(v, depth + 1, done.nodes), LAMBDA item :
      Output(done.bytes \o << Open >> \o atom.bytes \o item.bytes \o << Close >>,
             item.nodes)))

\* The fields from i on, after what is already written.
EncodeFieldsFrom(fields, i, depth, done) ==
  IF i > Len(fields) THEN done
  ELSE AndThen(CheckKey(fields, i), LAMBDA key :
         AndThen(EncodeField(key.bytes, fields[i][2], depth, done), LAMBDA more :
           EncodeFieldsFrom(fields, i + 1, depth, more)))

EncodePayload(v) ==
  AndThen(FitsFrame(EncodeFrom(v, 1, 0)), LAMBDA out : Bytes(out.bytes))

EncodeFrame(v) == AndThen(EncodePayload(v), LAMBDA out : Bytes(Netstring(out.bytes)))

-------------------------------------------------------------------------------
(* Frames off a buffer.                                                    *)

Waiting == [code |-> "wait"]
Taken(value, rest) == [code |-> "ok", value |-> value, rest |-> rest]

\* A header without a colon.
OpenPrefixCode(data) ==
  IF Len(data) > Len(Decimal[MaxFrame]) \/ ~AllDigits(data) THEN "frame-length"
  ELSE "wait"

\* A header that ends in a colon.
PrefixCode(digits) ==
  IF ~AllDigits(digits) THEN "frame-length"
  ELSE IF Len(digits) > 1 /\ digits[1] = Zero THEN "frame-leading-zero"
  ELSE IF Number(digits) > MaxFrame THEN "frame-too-large"
  ELSE "ok"

\* The body that follows a good header, up to comma.
TakeBody(data, colon, comma) ==
  IF Len(data) < comma THEN Waiting
  ELSE IF data[comma] # Comma THEN Bad("frame-comma")
  ELSE AndThen(DecodePayload(SubSeq(data, colon + 1, comma - 1)),
               LAMBDA decoded : Taken(decoded.value, SubSeq(data, comma + 1, Len(data))))

TakePrefix(data, colon, digits) ==
  IF PrefixCode(digits) # "ok" THEN Bad(PrefixCode(digits))
  ELSE TakeBody(data, colon, colon + Number(digits) + 1)

TakeFrame(data) ==
  IF data = << >> THEN Waiting
  ELSE IF ~IsDigit(data[1]) THEN Bad("frame-length")
  ELSE IF Colon \notin ToSet(data) THEN Bad(OpenPrefixCode(data))
  ELSE TakePrefix(data, FirstColon(data), SubSeq(data, 1, FirstColon(data) - 1))

\* A frame that is not all there is an error to the decoder of one frame.
WholeFrame(taken) ==
  IF taken.code = "wait" THEN Bad("frame-truncated")
  ELSE AndThen(taken, LAMBDA frame :
         IF frame.rest # << >> THEN Bad("frame-trailing") ELSE Value(frame.value))

DecodeFrame(data) == WholeFrame(TakeFrame(data))

\* FrameDecoder: the values of the complete frames, and the buffer left.  An
\* error is raised, and the values of the frames before it are lost with it.
Fed(values, buffer) == [code |-> "ok", values |-> values, buffer |-> buffer]

RECURSIVE Feed(_, _)

\* Fault: one frame is taken per call.
FedOne(taken, buffer, values) ==
  IF taken.code = "wait" THEN Fed(values, buffer)
  ELSE AndThen(taken, LAMBDA frame : Fed(Append(values, frame.value), frame.rest))

FedNext(taken, buffer, values) ==
  IF taken.code = "wait" THEN Fed(values, buffer)
  ELSE AndThen(taken, LAMBDA frame : Feed(frame.rest, Append(values, frame.value)))

Feed(buffer, values) == FedNext(TakeFrame(buffer), buffer, values)

Finish(fed) == AndThen(fed, LAMBDA f :
                 IF f.buffer # << >> THEN Bad("frame-truncated") ELSE f)

\* Every chunk, then finish.
DecodeChunks(chunks) ==
  Finish(FoldLeft(LAMBDA fed, chunk :
           AndThen(fed, LAMBDA f : Feed(f.buffer \o chunk, f.values)),
           Fed(<< >>, << >>), chunks))
================================================================================
