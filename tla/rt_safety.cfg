SPECIFICATION Spec
CONSTANTS
  a = a
  b = b
  c1 = c1
  c2 = c2
  bad = bad
  torn = torn
  NoContent = NoContent
  Refs = {a, b}
  Contents = {c1, c2, bad, torn}
  Unrenderable = {torn}
  Inapplicable = {bad}
  Sourced = {c1}
  PatchLists <- OddLists
  MaxEdits = 3
  MaxDeletions = 1
  MaxForeign = 1
  MaxLosses = 1
  MaxFaults = 0
  MaxDeleteFaults = 1
  MaxCrashes = 0
  MaxTouches = 0
INVARIANT TypeOK NoOrphan ChildrenRecorded NothingForgotten
PROPERTY PatchRespectsOwner StatusMatchesSpec FreshWritesFollowSpec
CHECK_DEADLOCK FALSE
