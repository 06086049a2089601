SPECIFICATION Spec
CONSTANTS
  dep = dep
  svc = svc
  image = image
  port = port
  c1 = c1
  c2 = c2
  v1 = v1
  v2 = v2
  HeadOfPR = HeadOfPR
  None = None
  NoSet = NoSet
  NoObject = NoObject
  NoList = NoList
  NotRead = NotRead
  Other = Other
  Kinds = {dep, svc}
  Keys = {image, port}
  Heads = {c1, c2}
  Values = {v1, v2}
  ForeignKinds = {svc}
  UserWrites <- Writes
  ResourceLists <- Lists
  InitialLists <- StartLists
  Originals <- CopyDeployment
  Budgets <- SmallBudgets
INVARIANT TypeOK HookInStep
PROPERTIES
  KeepsTheRest
  EventsConverge
  ResyncConverges
CHECK_DEADLOCK FALSE
