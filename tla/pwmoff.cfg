SPECIFICATION PinsSpec
CONSTANTS
  Pin <- MCPin
  Led = 2
  PWM_MAX_COUNT = 2
  PWM_STEP = 2
  CountMod = 4
  Sketches <- MCSketches
INVARIANTS PwmOn
