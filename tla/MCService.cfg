SPECIFICATION Spec
CONSTANTS
  Commands = {c1, c2}
  Attempts = {a1, a2}
  MaxEntries = 3
  Stages = 2
  MaxRevisions = 11
  Faults = {"save", "process", "power"}
  None = None
SYMMETRY Symmetry
INVARIANTS ExecOnce JournalNamesEngine StoppedIsTrue
PROPERTY NoOverlap
