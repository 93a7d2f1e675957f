SPECIFICATION Spec
CONSTANTS
  Kinds = {"SD1"}
  Tries = 2
INVARIANT PowerUpOver
