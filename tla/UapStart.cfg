CONSTANTS
  Sessions  = {"s1"}
  Requests  = {"r0", "r1", "r2", "r3", "r4", "r5", "r6"}
  Keys      = {"k"}
  Commands  = {"c", "d"}
  Results   = {"x"}
  Encodable = {"x"}
  Supported = {1}
  Available = {}
  Messages  <- EffectMessages
  MaxMessages = 3

SPECIFICATION Spec

INVARIANT StartCalledOnce

\* A behaviour ends after MaxMessages messages.
CHECK_DEADLOCK FALSE
