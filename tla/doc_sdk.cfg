SPECIFICATION Spec
CONSTANTS
  MaxRevisions = 1
  Command = {c1}
PROPERTY
  NewSessionStartsAlone
