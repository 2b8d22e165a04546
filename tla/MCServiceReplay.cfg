SPECIFICATION Spec
CONSTANTS
  Commands = {c1, c2}
  Attempts = {a1}
  MaxEntries = 2
  Stages = 2
  MaxRevisions = 11
  Faults = {}
  None = None
INVARIANT KickstartCannotReplay
