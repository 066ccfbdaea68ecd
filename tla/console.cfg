SPECIFICATION Spec
CONSTANTS
  AccountIds = {1, 2, 3}
  PortIds = {1, 2}
  Names = {1, 2, 3}
  Tiers = {"a", "c"}
  Spans <- ThreeSpans
  Scenarios <- Explored
INVARIANTS TypeOK SelectionStays
PROPERTIES ActsOnShown NoHiddenCascade CommandHitsWhatWasNamed SuccessIsWhole
CHECK_DEADLOCK FALSE
