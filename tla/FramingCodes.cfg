CONSTANTS
  MaxFrame = 11
  Streams <- MCStreams
  DecodeCode <- MCDecodeCode
  Oversize = {}

SPECIFICATION Spec

INVARIANT BytesIndependentOfChunks

\* A stream ends.
CHECK_DEADLOCK FALSE
