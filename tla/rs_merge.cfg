SPECIFICATION Spec
CONSTANTS
  Originals <- MCOriginals
  Desired <- MCDesired
  UserObjects <- MCUserObjects
  Key <- MCKey
  Value <- MCValue
  Number <- MCNumber
  Depth = 4
  Name = "preview"
  Namespace = "default"
  SetUID = "set"
  ObjectUID = "object"
  ClusterIP = "10.0.0.2"
  MaxEdits = 1
  MaxRounds = 3
INVARIANT TypeOK DesiredHolds CopiesNoIdentity FailsOnlyFor
PROPERTY UserPartSurvives TailStays Settles
CHECK_DEADLOCK FALSE
