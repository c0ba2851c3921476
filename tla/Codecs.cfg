CONSTANTS
  MaxFrame = 30
  MaxAtom = 4
  MaxDepth = 3
  MaxNodes = 10
  MaxSymbol = 2
  MaxIntegerDigits = 3
  LimbDigits = 2
  Values    <- MCValues
  Payloads  <- MCPayloads
  Followers <- MCFollowers
  Alphabet  <- MCAlphabet
  MaxEdits = 1

SPECIFICATION Spec

INVARIANTS EncodingsInvert CodecsAgree FramesDelimit

\* A frame that was altered MaxEdits times is read and that is all.
CHECK_DEADLOCK FALSE
