SPECIFICATION Spec
CONSTANTS
  a1 = a1
  d1 = d1
  d2 = d2
  s1 = s1
  s2 = s2
  NoDevice = NoDevice
  NoCaller = NoCaller
  Attempts <- MCAttempts
  Devices <- TwoDevices
  Callers <- OneCaller
  Closers <- OneCloser
  Kinds = {"guided", "content", "control"}
  Packets = 2
  MaxGen = 2
  LateSettle = TRUE
  ReliableSubscribe = TRUE
INVARIANTS
  BeliefMatchesPanel
PROPERTIES
  EverySendSettles
