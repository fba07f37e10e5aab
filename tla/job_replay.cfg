\* One job over two rounds whose private worker commands are replayed,
\* with run tokens that never show.
CONSTANTS
  k1 = k1
  k2 = k2
  Key <- MCOneKey
  NoKey = NoKey
  Conflict <- MCOneConflict
  Job = {j1}
  NoJobId = NoJobId
  Controller = {}
  MaxRevisions = 1
  Replays = TRUE
  PidReuse = FALSE
  LateTokens = TRUE
SPECIFICATION Spec
INVARIANTS
  LaunchedOnce
  OneProviderPerJob
  DeadPhasesAreQuiet
  LiveProviderHoldsCheckout
