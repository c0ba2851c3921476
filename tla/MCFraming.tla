------------------------------ MODULE MCFraming ------------------------------
(***************************************************************************)
(* Streams of at most three pieces: good frames, a frame with a bad        *)
(* payload, and pieces of headers and bodies that combine into every       *)
(* framing error and every incomplete frame.  a = 97, b = 98, c = 99.      *)
(***************************************************************************)
EXTENDS Framing

GoodFrame == << 49, Colon, 97, Comma >>                  \* 1:a,
LongFrame == << 49, 49, Colon >> \o [i \in 1..11 |-> 99] \o << Comma >>
BadFrame  == << 49, Colon, 98, Comma >>                  \* 1:b,

Pieces ==
  {GoodFrame, LongFrame, BadFrame, << 48 >>, << 49, 50 >>, << Colon >>,
   << 49, Colon, 97 >>, << Comma >>}

MCStreams ==
  Pieces \cup {p \o q : p, q \in Pieces} \cup {p \o q \o r : p, q, r \in Pieces}

\* The payload b, and the empty payload, are not canonical values.
MCDecodeCode(payload) ==
  IF payload = << >> \/ 98 \in {payload[i] : i \in DOMAIN payload}
  THEN "node" ELSE "ok"

LongPayloads == {[i \in 1..11 |-> 99]}
==============================================================================
