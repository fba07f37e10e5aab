\* One task, two commands of its owner, a carrier that may break anywhere.
CONSTANTS
  Command = {c1, c2}
  MaxFrames = 1
SPECIFICATION FairSpec
INVARIANTS
  OutcomeIsFromWindows
  AcceptanceOutlivesWorker
  LostMeansUnsupervised
PROPERTIES
  ReceiptFollowsTheOrder
  BusyViewSettles
