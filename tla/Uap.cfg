CONSTANTS
  Sessions  = {"s1", "s2"}
  Requests  = {"r0", "r1", "r2", "r3", "r4", "r5", "r6"}
  Keys      = {"k"}
  Commands  = {"c", "d"}
  Results   = {"x", "y", "raw"}
  Encodable = {"x", "y"}
  Supported = {1, 2}
  Available = {"poll"}
  Messages  <- MCMessages
  MaxMessages = 4

SPECIFICATION Spec

PROPERTIES ImplementsEffectOnce ErrorsConfined
INVARIANTS ObservationsAgree RequestsBind

\* A behaviour ends after MaxMessages messages.
CHECK_DEADLOCK FALSE
