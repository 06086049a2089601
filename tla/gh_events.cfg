SPECIFICATION Spec
CONSTANTS
  h1 = h1
  h2 = h2
  main = main
  dev = dev
  v1 = v1
  shown = shown
  p = p
  q = q
  NoFilter = NoFilter
  NoPreview = NoPreview
  NoLabel = NoLabel
  NoPush = NoPush
  NoPullRequest = NoPullRequest
  Heads = {h1, h2}
  InitialHeads = {h1}
  Bases = {main, dev}
  Labels = {shown}
  Names = {p, q}
  Refs <- TwoRefs
  Budgets <- SmallBudgets
INVARIANT TypeOK ClosedLeavesNothing ShowsLatest ShowsWanted
CHECK_DEADLOCK FALSE
