\* Two requests for one directory, each dispatched twice,
\* with broken carriers and two reclaims of one lock at a time.
CONSTANTS
  r1 = r1
  r2 = r2
  repo = repo
  Request <- MCRequest
  Directory <- MCDirectory
  cwd <- MCcwd
  NoRequest = NoRequest
  Command = {c1, c2}
SPECIFICATION Spec
SYMMETRY MCSymmetry
CHECK_DEADLOCK FALSE
PROPERTIES
  ReclaimTakesItsOwnLock
