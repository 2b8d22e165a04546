SPECIFICATION Spec
CONSTANTS
  Commands = {c1, c2, c3}
  Attempts = {a1, a2, a3, a4}
  MaxRevisions = 7
  None = None
SYMMETRY Symmetry
INVARIANTS TypeOK OneEngine JournalNamesEngine IntentIsDurable InitializedIsTrue ResultFits
PROPERTIES FreshOnce InitializedIsFinal
