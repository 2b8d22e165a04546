SPECIFICATION Spec
CONSTANTS
  MaxRoots = 3
  Drafts = {d1, d2}
  MaxRevisions = 14
  MaxSurvivors = 2
  None = None
SYMMETRY Symmetry
INVARIANTS ConfirmedIsTrue NotRepeated OutcomeFits AppliedAsPlanned
