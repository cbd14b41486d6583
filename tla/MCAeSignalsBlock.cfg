CONSTANTS
  Sigs = {s1, s2}
  Capacity = 4
  MaxSignals = 3
SPECIFICATION SignalSpec
PROPERTIES WorkServed
CHECK_DEADLOCK FALSE
