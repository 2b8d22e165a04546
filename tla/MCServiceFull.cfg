SPECIFICATION Spec
CONSTANTS
  Commands = {c1, c2}
  Attempts = {a1, a2}
  MaxEntries = 2
  Stages = 2
  MaxRevisions = 9
  Faults = {"save", "process", "power"}
  None = None
SYMMETRY Symmetry
INVARIANT EndFits
