SPECIFICATION FairSpec
CONSTANTS
  Commands = {c1, c2, c3}
  Attempts = {a1}
  MaxEntries = 2
  Stages = 2
  MaxRevisions = 11
  Faults = {}
  None = None
PROPERTY StopTakesEffect
