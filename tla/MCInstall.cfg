SPECIFICATION Spec
CONSTANTS
  Installers = {i1, i2}
  f1 = f1
  f2 = f2
  f3 = f3
  lib = lib
  sub = sub
  deep = deep
  Root = Root
  Files <- MCFiles
  Dirs <- MCDirs
  Home <- MCHome
  Up <- MCUp
  Way <- MCWay
  None = None
SYMMETRY Symmetry
INVARIANTS ReceiptMeansWhole OkIsDurable FailedIsIncomplete OwnedIsDurable
