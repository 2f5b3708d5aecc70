SPECIFICATION Spec
CONSTANTS
  MaxBackups = 3
  MaxDelete = 2
  MaxBreaks = 2
 
INVARIANT AccidentBounded
CHECK_DEADLOCK FALSE
