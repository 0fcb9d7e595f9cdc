CONSTANTS
  p1 = p1
  p2 = p2
  n1 = n1
  n2 = n2
  c1 = c1
  Procs <- MCOneProc
  Names <- MCNames
  NoExt <- MCNoExt
  Comps <- MCComps
  Folders <- MCFolders
SPECIFICATION Spec
INVARIANT PasswordOnlyAtPrompt
\* Every invocation ends in exit, crash or done: the program stops.
CHECK_DEADLOCK FALSE
