\* Two jobs that want overlapping checkouts: accept releases, revise takes back.
CONSTANTS
  k1 = k1
  k2 = k2
  Key <- MCKey
  NoKey = NoKey
  Conflict <- MCConflict
  Job = {j1, j2}
  NoJobId = NoJobId
  Controller = {}
  MaxRevisions = 1
  Replays = FALSE
  PidReuse = FALSE
  LateTokens = FALSE
SPECIFICATION Spec
SYMMETRY MCSymmetry
INVARIANTS
  ReservationExclusive
  WritersApart
