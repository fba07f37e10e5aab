\* The stream, hooks and verdict of one round, between an earlier and a later one.
SPECIFICATION Spec
CONSTANTS
  MaxRows = 2
  MaxHooks = 1
  MaxCheckpoints = 1
INVARIANTS
  EveryRowIsHandledOnce
  EventsAreIncidents
  VerdictIsTheEvidence
