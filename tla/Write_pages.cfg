\* Users stop giving inputs at the bounds: the pages may come to rest.
CONSTANTS
  Addresses = {"a1"}
  FileNames = {fA, fB}
  Contents = {v1, v2}
  Compilers <- MCCompilers
  StartsWith <- MCStartsWith
  Artifacts <- MCArtifacts
  Selections <- MCSelections
  MaxReads = 2
  Edited <- MCEdited
  Accounts = {"acc1", "acc2"}
  Inputs = {"x"}
  MaxQueue = 3
  MaxSwitches = 1
  Users = {"u1", "u2"}
  MaxLinks = 1
  MaxDeletes = 2
  MaxFormMoves = 7
  MaxPanelMoves = 5
  MaxLinkMoves = 5
SPECIFICATION MCSpec
SYMMETRY Symmetry
CHECK_DEADLOCK FALSE
INVARIANTS MultiPartWhole AccountShownIsSelected ListCurrent
PROPERTY ListedFilesKeep
