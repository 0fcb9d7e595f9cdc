CONSTANTS
  p1 = p1
  p2 = p2
  n1 = n1
  n2 = n2
  c1 = c1
  Procs <- MCOneProc
  Names <- MCNames
  NoExt <- MCNoExt
  Comps <- MCComps
  Folders <- MCFolders
SPECIFICATION Spec
INVARIANTS SuccessMeansUploaded
\* A final state is one where every invocation has exited, crashed or finished.
CHECK_DEADLOCK FALSE
