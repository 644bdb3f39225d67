SPECIFICATION LimiterSpec
CONSTANTS
  Worker = {w1, w2, w3, w4}
  Cap = 2
SYMMETRY Workers
INVARIANTS
  SlotsAreExact
