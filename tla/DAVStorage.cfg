SPECIFICATION Spec
CONSTANTS
  Items = {"a", "b"}
  MaxClock = 3
  Setups <- MCSetups
INVARIANTS TypeOK ReadsAreExact WritesAreReported InitPicksSupported
PROPERTIES NoBlindOverwrite
