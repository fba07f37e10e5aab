\* Two jobs of one account whose window resets once.
SPECIFICATION Spec
CONSTANTS
  Job = {j1, j2}
  Window = {five_hour}
  LIMIT = 1
  Full = 1
  Length = 2
  MaxTime = 3
  MaxEvents = 2
INVARIANTS
  HoldOutlivesImports
  PauseIsReal
