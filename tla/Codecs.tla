--------------------------------- MODULE Codecs ---------------------------------
(***************************************************************************)
(* The two codecs side by side: a value is encoded by each, and a peer     *)
(* sends whatever it likes, a canonical frame with bytes changed, added    *)
(* or taken away before or after it was framed, or several frames.         *)
(***************************************************************************)
EXTENDS Digits, Integers

CONSTANTS
  MaxFrame, MaxAtom, MaxDepth, MaxNodes, MaxSymbol, MaxIntegerDigits,
  LimbDigits,
  Values,    \* what a caller gives to an encoder, proper or not
  Payloads,  \* what a peer may frame before it alters anything
  Followers, \* frames a peer may send right after another one
  Alphabet,  \* bytes a peer may put in
  MaxEdits   \* alterations of one frame (bound of the model)

ASSUME CodecsAssumption ==
  /\ {MaxFrame, MaxAtom, MaxDepth, MaxNodes, MaxSymbol, MaxIntegerDigits}
       \subseteq Nat
  /\ LimbDigits \in Nat \ {0}
  \* An integer with a sign is no longer than an atom, and fits one.
  /\ MaxAtom = MaxIntegerDigits + 1
  /\ MaxEdits \in Nat

Uap == INSTANCE UapCodec
Ref == INSTANCE ReferenceCodec

VARIABLES
  given,  \* << value >> that is encoded, or << >> when a peer sends bytes
  wire,   \* the bytes on their way
  edits   \* bound of the model: alterations so far

vars == << given, wire, edits >>

Init ==
  /\ \/ /\ given \in {<< v >> : v \in Values}
        /\ wire = << >>
     \/ /\ given = << >>
        /\ wire \in {Uap!Netstring(p) : p \in Payloads}
  /\ edits = 0

Altered(bytes) ==
  {ReplaceAt(bytes, i, b) : i \in DOMAIN bytes, b \in Alphabet}
    \cup {InsertAt(bytes, i, b) : i \in 1 .. Len(bytes) + 1, b \in Alphabet}
    \cup {RemoveAt(bytes, i) : i \in DOMAIN bytes}
    \cup {SubSeq(bytes, 1, n) : n \in 0 .. Len(bytes)}

\* The encoded value goes out as a frame.
Send ==
  /\ given # << >>
  /\ \E out \in {Uap!EncodeFrame(given[1])} : out.code = "ok" /\ wire' = out.bytes
  /\ given' = << >>
  /\ UNCHANGED edits

AlterFrame ==
  /\ given = << >> /\ edits < MaxEdits
  /\ wire' \in Altered(wire)
  /\ edits' = edits + 1
  /\ UNCHANGED given

\* The payload of a good frame, altered and framed again.
AlterPayload ==
  /\ given = << >> /\ edits < MaxEdits
  /\ \E payload \in {p \in Payloads : wire = Uap!Netstring(p)} :
       wire' \in {Uap!Netstring(p) : p \in Altered(payload)}
  /\ edits' = edits + 1
  /\ UNCHANGED given

Follow ==
  /\ given = << >> /\ edits < MaxEdits
  /\ wire' \in {wire \o f : f \in Followers}
  /\ edits' = edits + 1
  /\ UNCHANGED given

Next == Send \/ AlterFrame \/ AlterPayload \/ Follow

Spec == Init /\ [][Next]_vars

-------------------------------------------------------------------------------
\* The value of the adapters' codec as the reference codec holds it: the same
\* tree, its integers as a sign and decimal digits.  An integer without a
\* canonical form becomes minus zero, which has none either.
RECURSIVE InReference(_)
InReference(v) ==
  CASE v.type = "int" ->
         IF Uap!Representable(v)
         THEN [type     |-> "int",
               negative |-> v.sign < 0,
               digits   |-> IF v.sign = 0 THEN << Zero >>
                            ELSE LET n == FoldRight(LAMBDA limb, m : m * Uap!Base + limb,
                                                    v.limbs, 0)
                                 IN  Decimal[n]]
         ELSE [type |-> "int", negative |-> TRUE, digits |-> << Zero >>]
    [] v.type = "list" ->
         [type |-> "list", values |-> [i \in DOMAIN v.values |-> InReference(v.values[i])]]
    [] v.type = "record" ->
         [type |-> "record", fields |-> [i \in DOMAIN v.fields |->
            << v.fields[i][1], InReference(v.fields[i][2]) >>]]
    [] OTHER -> v

ReadsBack(v, out) ==
  out.code = "ok" =>
    /\ Uap!DecodePayload(out.bytes) = Uap!Value(v)
    /\ Ref!EncodePayload(InReference(v)) = out

BeyondDecoder(out, decoded) ==
  out.code = decoded.code /\ decoded.code \in {"nodes-too-many", "depth-too-large"}

ReferenceReadsBack(v, out) ==
  out.code = "ok" =>
    \/ Ref!DecodePayload(out.bytes) = Ref!Value(InReference(v))
    \/ BeyondDecoder(Uap!EncodePayload(v), Ref!DecodePayload(out.bytes))

(***************************************************************************)
(* Encoding and decoding are inverses.  What an encoder lets out is read   *)
(* back as the value that was given: the encoder of the adapters keeps the *)
(* limits of its decoder; the reference encoder counts values where its    *)
(* decoder counts nodes and lists, so for these two limits its decoder may *)
(* refuse what it wrote.  And a value has one encoding: a frame that       *)
(* either codec accepts is the frame it would write for the value it read  *)
(* (ADR 0002: "every valid fixture decodes and re-encodes to identical     *)
(* bytes").                                                                *)
(***************************************************************************)
EncodingsInvert ==
  /\ \A i \in DOMAIN given :
       /\ ReadsBack(given[i], Uap!EncodePayload(given[i]))
       /\ ReferenceReadsBack(given[i], Ref!EncodePayload(InReference(given[i])))
  /\ \A mine \in {Uap!DecodeFrame(wire)} :
       mine.code = "ok" => Uap!EncodeFrame(mine.value) = Uap!Bytes(wire)
  /\ \A theirs \in {Ref!DecodeFrame(wire)} :
       theirs.code = "ok" => Ref!EncodeFrame(theirs.value) = Uap!Bytes(wire)

(***************************************************************************)
(* The codecs agree on values and on errors ("an independent standard-     *)
(* library codec agrees on ASTs, bytes, and errors", ADR 0002).  One frame *)
(* they refuse for different reasons: when more bytes follow it, the       *)
(* adapters say so before they read the payload, the reference after.      *)
(***************************************************************************)
Agree(mine, theirs) ==
  /\ mine.code = "ok" => theirs = Ref!Value(InReference(mine.value))
  /\ mine.code # theirs.code => mine.code = "frame-trailing" /\ theirs.code # "ok"

CodecsAgree == Agree(Uap!DecodeFrame(wire), Ref!DecodeFrame(wire))

(***************************************************************************)
(* Frames delimit themselves: however a stream is cut in two, or read byte *)
(* by byte, the incremental decoder gives the values it gives for the      *)
(* whole stream and accepts or refuses it alike; a single frame it accepts *)
(* is what the decoder of one frame accepts; and no proper beginning of an *)
(* accepted frame is accepted.                                             *)
(***************************************************************************)
\* Every way to cut a stream in two, and into single bytes.
Cuts(stream) ==
  {<< SubSeq(stream, 1, n), SubSeq(stream, n + 1, Len(stream)) >> : n \in 0 .. Len(stream)}
    \cup {[i \in DOMAIN stream |-> << stream[i] >>]}

SameValues(fed, whole) ==
  /\ (fed.code = "ok") = (whole.code = "ok")
  /\ fed.code = "ok" => fed.values = whole.values

OneFrame(one, whole) ==
  one.code = "ok" =>
    /\ whole.code = "ok"
    /\ whole.values = << one.value >>
    /\ \A n \in 0 .. Len(wire) - 1 :
         Ref!DecodeFrame(SubSeq(wire, 1, n)).code = "frame-truncated"

FramesDelimit ==
  \A whole \in {Ref!DecodeChunks(<< wire >>)} :
    /\ \A cut \in Cuts(wire) : SameValues(Ref!DecodeChunks(cut), whole)
    /\ OneFrame(Ref!DecodeFrame(wire), whole)
===============================================================================
