SPECIFICATION Spec
CONSTANTS
  t1 = t1
  t2 = t2
  n1 = n1
  n2 = n2
  e1 = e1
  e2 = e2
  p1 = p1
  p2 = p2
  NoTrigger = NoTrigger
  NoTemplate = NoTemplate
  BadName = BadName
  Requests = {1, 2}
  Triggers = {t1, t2}
  Names = {n1}
  Events = {e1}
  Patches = {p1, p2}
  NameOf <- SharedNames
  Inputs <- SharedInputs
  InitialTriggers <- AllP1
  Invalid = {}
  MaxEdits = 1
  MaxFaults = 0
  MaxCrashes = 0
  MaxErrors = 0
  MaxRestarts = 0
PROPERTY Propagates
CHECK_DEADLOCK FALSE
