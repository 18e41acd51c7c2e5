SPECIFICATION Spec
CONSTANTS
  a1 = a1
  d1 = d1
  d2 = d2
  s1 = s1
  s2 = s2
  NoDevice = NoDevice
  NoCaller = NoCaller
  Attempts <- MCAttempts
  Devices <- OneDevice
  Callers <- OneCaller
  Closers <- NoCloser
  Kinds = {"guided", "content"}
  Packets = 2
  MaxGen = 1
  LateSettle = FALSE
  ReliableSubscribe = FALSE
CHECK_DEADLOCK FALSE
INVARIANTS
  BeliefMatchesPanel
