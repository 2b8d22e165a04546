SPECIFICATION ObserveSpec
CONSTANTS
  Commands = {c1}
  Attempts = {a1, a2}
  MaxEntries = 2
  Stages = 1
  MaxRevisions = 9
  Faults = {"power", "save"}
  None = None
  Foreign = Foreign
  NodeRole = "VALIDATOR"
  MaxBytes = 9
  RecordLimit = 8
  EventLimit = 4
SYMMETRY Symmetry
INVARIANTS ReadyIsTrue EndedIsTrue DiagnosisWhole NoSilentEffect
CHECK_DEADLOCK FALSE
