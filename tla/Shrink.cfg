CONSTANTS
  Inputs    <- MCInputs
  Originals <- MCOriginals

SPECIFICATION Spec

INVARIANTS FailurePersists EvaluationsBounded
PROPERTIES ClassExhausted ShrinkEnds

\* minimize returns.
CHECK_DEADLOCK FALSE
