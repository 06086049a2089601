SPECIFICATION HttpSpec
CONSTANTS
  t1 = t1
  t2 = t2
  n1 = n1
  n2 = n2
  e1 = e1
  e2 = e2
  p1 = p1
  p2 = p2
  h1 = h1
  NoTrigger = NoTrigger
  NoTemplate = NoTemplate
  NoHook = NoHook
  BadName = BadName
  NoSecret = 0
  Tokens = {1}
  Requests = {1, 2}
  Triggers = {t1, t2}
  Names = {n1, n2}
  Events = {e1, e2}
  Patches = {p1, p2}
  Hooks = {h1}
  HookSpecs <- MCHookSpecs
  Bodies <- MCBodies
  Scenarios <- MCScenarios
  RenderedAction <- MCRenderedAction
  NameOf <- MCNameOf
  Inputs <- MCInputs
  NoOptions <- MCNoOptions
  InitialTriggers <- MCInitialTriggers
  Invalid = {}
  MaxEdits = 1
  MaxFaults = 1
  MaxCrashes = 1
  MaxTroubles = 2
INVARIANT HttpTypeOK RefusesExactlyBad
PROPERTY KeepsPromise OkIsDone
CHECK_DEADLOCK FALSE
