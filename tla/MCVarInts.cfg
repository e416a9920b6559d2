SPECIFICATION Spec
CONSTANTS
  Base = 8
  Modulus = 128
  Limit = 3
  Power <- Powers
INVARIANTS TypeOK ReadAlike NoneTooLong
PROPERTIES Arrives ReadersStop
