\* Two rounds: a watcher of a revised round beside the next one, re-arming
\* around crashes and reused pids.
CONSTANTS
  MaxRound = 1
  MaxGeneration = 2
  Warning = {"quota"}
  Expires = FALSE
  PidReuse = TRUE
SPECIFICATION FairSpec
INVARIANTS
  DeliveredAtMostOnce
  ReceiptsAreHonest
  WakeFollowsSettlement
PROPERTIES
  QuietRoundsStayQuiet
  SettlementIsAnnounced
