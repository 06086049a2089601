SPECIFICATION Spec
CONSTANTS
  a = a
  b = b
  c1 = c1
  c2 = c2
  bad = bad
  torn = torn
  NoContent = NoContent
  Refs = {a, b}
  Contents = {c1, c2}
  Unrenderable = {}
  Inapplicable = {}
  Sourced = {}
  PatchLists <- GoodLists
  MaxEdits = 2
  MaxDeletions = 0
  MaxForeign = 1
  MaxLosses = 0
  MaxFaults = 0
  MaxDeleteFaults = 0
  MaxCrashes = 0
  MaxTouches = 0
PROPERTY DeletesOnlyManaged
CHECK_DEADLOCK FALSE
