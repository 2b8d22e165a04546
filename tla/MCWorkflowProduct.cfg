SPECIFICATION Spec
CONSTANTS
  MaxRoots = 2
  Drafts = {d1}
  MaxRevisions = 15
  MaxSurvivors = 2
  None = None
INVARIANT ProductIsConfirmable
