SPECIFICATION Spec
CONSTANTS
  root = root
  rel = rel
  sub = sub
  other = other
  v1 = v1
  v2 = v2
  v3 = v3
  v4 = v4
  None = None
  Folder = {root, rel, sub, other}
  Root = root
  Tree <- MCTree
  Release = rel
  Video = {v1, v2, v3, v4}
  FolderOf <- MCFolderOf
  File = v1
  Packed = {v2, v3}
  Setup <- MCSetup
INVARIANTS
  OnlyProcessedCompletes
CHECK_DEADLOCK FALSE
