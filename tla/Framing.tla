------------------------------- MODULE Framing -------------------------------
(***************************************************************************)
(* The byte side of the adapter protocol, in adapters/common/uap/          *)
(* transport.py: netstring frames cut out of a stream that arrives in      *)
(* chunks, values dispatched in order, the stream closed after one error.  *)
(*                                                                         *)
(* Bytes are their codes.  What a payload decodes to, and whether the      *)
(* endpoint's response to it fits a frame, are constants: the endpoint is  *)
(* module UapEndpoint.                                                     *)
(***************************************************************************)
EXTENDS Digits

CONSTANTS
  MaxFrame,        \* the codec's limit for a payload
  Streams,         \* what a peer may write before it closes
  DecodeCode(_),   \* payload -> "ok" or the codec's error
  Oversize         \* payloads whose response does not fit a frame

ASSUME FramingAssumption == MaxFrame \in Nat /\ Streams \subseteq Seq(Byte)

\* len(str(max_frame)): the digits of the longest header.
HeaderDigits == Len(Decimal[MaxFrame])

\* What is taken off the front of a buffer, or why nothing is.
Taken(status, code, payload, buffer) ==
  [status |-> status, code |-> code, payload |-> payload, buffer |-> buffer]

Wait(buffer)           == Taken("wait", "ok", << >>, buffer)
Fail(code)             == Taken("error", code, << >>, << >>)
Frame(payload, buffer) == Taken("value", "ok", payload, buffer)

\* Fault: a header of the longest permitted length is already too long.
HeaderTooLongByOne(buffer) == Len(buffer) >= HeaderDigits

HeaderTooLong(buffer) == Len(buffer) > HeaderDigits

\* A header of which no colon has arrived yet.
TakeHeader(buffer) ==
  IF HeaderTooLong(buffer) \/ ~AllDigits(buffer) THEN Fail("frame-length")
  ELSE Wait(buffer)

\* The header is buffer[1 .. colon - 1].
TakeBody(buffer, colon) ==
  LET digits  == SubSeq(buffer, 1, colon - 1)
      length  == Number(digits)
      comma   == colon + length + 1
      payload == SubSeq(buffer, colon + 1, comma - 1)
  IN  IF ~AllDigits(digits) THEN Fail("frame-length")
      ELSE IF Len(digits) > 1 /\ digits[1] = 48 THEN Fail("frame-leading-zero")
      ELSE IF length > MaxFrame THEN Fail("frame-too-large")
      ELSE IF Len(buffer) < comma THEN Wait(buffer)
      ELSE IF buffer[comma] # Comma THEN Fail("frame-comma")
      ELSE IF DecodeCode(payload) # "ok" THEN Fail(DecodeCode(payload))
      ELSE Frame(payload, SubSeq(buffer, comma + 1, Len(buffer)))

Take(buffer) ==
  LET colons == {i \in DOMAIN buffer : buffer[i] = Colon}
  IN  IF buffer = << >> THEN Wait(buffer)
      ELSE IF ~IsDigit(buffer[1]) THEN Fail("frame-length")
      ELSE IF colons = {} THEN TakeHeader(buffer)
      ELSE TakeBody(buffer, Min(colons))

Drained(status, code, values, buffer) ==
  [status |-> status, code |-> code, values |-> values, buffer |-> buffer]

\* feed's loop: every frame of the buffer, up to the first that is not
\* complete or not valid.  A frame is at least two bytes long.
Cut(so, step) ==
  LET next == Take(so.buffer)
  IN  IF so.status # "value" THEN so
      ELSE Drained(next.status, next.code,
                   IF next.status = "value" THEN Append(so.values, next.payload)
                   ELSE so.values,
                   next.buffer)

Drain(buffer) ==
  FoldLeft(Cut, Drained("value", "ok", << >>, buffer),
           [i \in 1 .. Len(buffer) + 1 |-> i])

Response(payload) == [kind |-> "observation", to |-> payload]
Responses(values) == [i \in DOMAIN values |-> Response(values[i])]
ErrorFrame(code)  == [kind |-> "error", code |-> code]

\* _dispatch: the values are handled one by one; a response that does not
\* encode raises, and takes the responses before it along.
Dispatch(values) ==
  LET failing == {i \in DOMAIN values : values[i] \in Oversize}
  IN  IF failing = {}
      THEN [raised |-> FALSE, handled |-> values, output |-> Responses(values)]
      ELSE [raised |-> TRUE, handled |-> SubSeq(values, 1, Min(failing)),
            output |-> << >>]

-------------------------------------------------------------------------------
VARIABLES
  transport, \* "socket" (serve_socket) or "in-process" (exchange)
  input,     \* history: the bytes the peer writes
  unread,    \* the part of them that has not arrived
  buffer,    \* FrameDecoder.buffer
  decoder,   \* FrameDecoder.failed
  server,    \* FramedServer.failed
  open,      \* serve_socket is still receiving
  effects,   \* history: the payloads the endpoint handled
  output,    \* the frames sent
  raised     \* history: an exception left feed

vars == << transport, input, unread, buffer, decoder, server, open, effects,
           output, raised >>

Init ==
  /\ transport \in {"socket", "in-process"}
  /\ input \in Streams
  /\ unread = input
  /\ buffer = << >>
  /\ decoder = FALSE
  /\ server = FALSE
  /\ open = TRUE
  /\ effects = << >>
  /\ output = << >>
  /\ raised = FALSE

\* What one feed does to the server: the frames it returns and what it
\* leaves behind.  An exception returns nothing.
Fed(left, fails, exception, handled, frames) ==
  [buffer |-> left, decoder |-> fails, server |-> fails /\ ~exception,
   raised |-> exception, handled |-> handled,
   frames |-> IF exception THEN << >> ELSE frames]

\* Fault: the error is sent ahead of the answers.
FeedErrorFirst(chunk) ==
  LET drained == Drain(buffer \o chunk)
      done    == Dispatch(drained.values)
  IN  IF server THEN Fed(buffer, TRUE, FALSE, << >>, << >>)
      ELSE IF drained.status # "error"
      THEN Fed(drained.buffer, FALSE, done.raised, done.handled, done.output)
      ELSE Fed(<< >>, TRUE, done.raised, done.handled,
               << ErrorFrame(drained.code) >> \o done.output)

\* The values decoded ahead of an error are dispatched before it is
\* reported.  A dispatch that raises leaves the server unfailed, the
\* decoder as it is.
Feed(chunk) ==
  LET drained == Drain(buffer \o chunk)
      done    == Dispatch(drained.values)
  IN  IF server THEN Fed(buffer, TRUE, FALSE, << >>, << >>)
      ELSE IF decoder
      THEN Fed(buffer, TRUE, FALSE, << >>, << ErrorFrame("framing-failed") >>)
      ELSE IF drained.status # "error"
      THEN Fed(drained.buffer, FALSE, done.raised, done.handled, done.output)
      ELSE Fed(<< >>, TRUE, done.raised, done.handled,
               Append(done.output, ErrorFrame(drained.code)))

\* Any non-empty part of what is on its way arrives.  After an error, or an
\* exception, serve_socket stops receiving.
Receive ==
  \E n \in 1..Len(unread) :
    LET fed == Feed(SubSeq(unread, 1, n))
    IN  /\ open
        /\ unread' = SubSeq(unread, n + 1, Len(unread))
        /\ buffer' = fed.buffer
        /\ decoder' = fed.decoder
        /\ server' = fed.server
        /\ open' = (transport = "in-process" \/ ~(fed.server \/ fed.raised))
        /\ raised' = (raised \/ fed.raised)
        /\ effects' = effects \o fed.handled
        /\ output' = output \o fed.frames
        /\ UNCHANGED << transport, input >>

\* The peer has closed; a frame that is not complete is an error.
Finish ==
  /\ transport = "socket"
  /\ open
  /\ unread = << >>
  /\ open' = FALSE
  /\ decoder' = (buffer # << >>)
  /\ server' = (buffer # << >>)
  /\ buffer' = << >>
  /\ output' = IF buffer = << >> THEN output
               ELSE Append(output, ErrorFrame("frame-truncated"))
  /\ UNCHANGED << transport, input, unread, effects, raised >>

Next == Receive \/ Finish

Spec == Init /\ [][Next]_vars

-------------------------------------------------------------------------------
(***************************************************************************)
(* The reference: the frames of a stream, read off the whole of it.        *)
(***************************************************************************)
Whole == Drain(input)

Ended == unread = << >> /\ (transport = "socket" => ~open)

(***************************************************************************)
(* "Chunk boundaries cannot change ... effects" (uap.md:43-44): however a  *)
(* stream is cut, the endpoint handles the frames of the whole stream, in  *)
(* order, and all of them by the end.  A response that cannot be framed    *)
(* ends a connection right after its effect; a caller in process that goes *)
(* on after the exception has lost the frames that arrived with it.        *)
(***************************************************************************)
EffectsIndependentOfChunks ==
  /\ raised => \E i \in DOMAIN effects : effects[i] \in Oversize
  /\ ~raised \/ transport = "socket" => IsPrefix(effects, Whole.values)
  /\ raised /\ transport = "socket" => Last(effects) \in Oversize
  /\ Ended /\ ~raised => effects = Whole.values

(***************************************************************************)
(* What is sent are the answers to what was handled, in the order handled, *)
(* and after them one error at most; an error ends the stream, and only a  *)
(* stream with a bad or an incomplete frame gets one.  A connection that   *)
(* an exception closed sent answers only.                                  *)
(***************************************************************************)
AnswersInOrder ==
  LET answers == Responses(effects)
  IN  IF raised
      THEN transport = "socket" => IsPrefix(output, answers)
      ELSE /\ IsPrefix(answers, output)
           /\ Len(output) <= Len(answers) + 1
           /\ Len(output) = Len(answers) + 1 =>
                /\ Last(output).kind = "error"
                /\ server
                /\ Whole.status = "error" \/ (transport = "socket" /\ unread = << >>)

(***************************************************************************)
(* "Chunk boundaries cannot change bytes" (uap.md:43-44): a stream that    *)
(* ends in an error ends in the error of the whole stream.                 *)
(***************************************************************************)
BytesIndependentOfChunks ==
  server /\ Whole.status = "error" => Last(output) = ErrorFrame(Whole.code)
==============================================================================
