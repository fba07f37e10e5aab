\* One session over two rounds, two commands of its owner, crashes everywhere.
SPECIFICATION FairSpec
CONSTANTS
  MaxRevisions = 1
  Command = {c1, c2}
INVARIANTS
  OneSupervisedSession
  WorkIsOnTheCurrentRound
  VerifiedRoundNamesItsSession
  AcceptedIsSealed
PROPERTIES
  FencedSessionEnds
  BusySessionSettles
