\* One connection attempt on two displays with two closers; two tabs, the update handshake
\* one at a time, the browser prompt, no deployment during an activation.
SPECIFICATION Spec
CONSTANTS
  a1 = a1
  a2 = a2
  d1 = d1
  d2 = d2
  t1 = t1
  t2 = t2
  NoDevice = NoDevice
  Attempts <- OneAttempt
  Devices <- MCDevices
  Closers <- TwoClosers
  MaxGen = 3
  Tabs <- TwoTabs
  MaxBuild = 3
  MaxRounds = 2
  OneRequester = TRUE
  Prompt = TRUE
  CalmDeployment = TRUE
INVARIANTS
  ConnectionTypeOK
  OneGeneration
  SessionHasLink
  CachesServe
PROPERTIES
  QuarantineEndsTheGeneration
  DisposedStaysDown
  OnlyNewTabsLoseWork
  NoTabStaysInert
