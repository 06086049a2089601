SPECIFICATION FairSpec
CONSTANTS
  a = a
  b = b
  c1 = c1
  c2 = c2
  bad = bad
  torn = torn
  NoContent = NoContent
  Refs = {a, b}
  Contents = {c1, c2, bad}
  Unrenderable = {}
  Inapplicable = {bad}
  Sourced = {}
  PatchLists <- MixedLists
  MaxEdits = 2
  MaxDeletions = 1
  MaxForeign = 1
  MaxLosses = 1
  MaxFaults = 1
  MaxDeleteFaults = 0
  MaxCrashes = 1
  MaxTouches = 1
INVARIANT NothingForgotten
PROPERTY EventsConverge ResyncConverges
CHECK_DEADLOCK FALSE
