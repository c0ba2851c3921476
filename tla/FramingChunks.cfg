CONSTANTS
  MaxFrame = 11
  Streams <- MCStreams
  DecodeCode <- MCDecodeCode
  Oversize <- LongPayloads

SPECIFICATION Spec

INVARIANTS EffectsIndependentOfChunks AnswersInOrder

\* A stream ends.
CHECK_DEADLOCK FALSE
