\* One job over two rounds with a stop at any moment, every crash point and
\* reused pids; somebody polls.
CONSTANTS
  k1 = k1
  k2 = k2
  Key <- MCOneKey
  NoKey = NoKey
  Conflict <- MCOneConflict
  Job = {j1}
  NoJobId = NoJobId
  Controller = {c1}
  MaxRevisions = 1
  Replays = FALSE
  PidReuse = TRUE
  LateTokens = FALSE
SPECIFICATION FairSpec
INVARIANTS
  ReviewedRoundIsSettled
PROPERTIES
  AcceptedIsDurable
  ReservationRefined
  NewRoundStartsAlone
  SupersededRoundsFrozen
  BusyRoundSettles
