SPECIFICATION Spec
CONSTANTS
  Writers = {w1, w2}
  Files = {f1, f2, f3}
  MaxRevisions = 2
  MaxEntries = 4
  None = None
SYMMETRY Symmetry
INVARIANTS TypeOK Recoverable AckedDurable NoLostUpdate
PROPERTY ImplementsJournal
