SPECIFICATION Spec
CONSTANTS
  a1 = a1
  d1 = d1
  d2 = d2
  s1 = s1
  s2 = s2
  NoDevice = NoDevice
  NoCaller = NoCaller
  Attempts <- MCAttempts
  Devices <- OneDevice
  Callers <- TwoCallers
  Closers <- OneCloser
  Kinds = {"gif", "control"}
  Packets = 2
  MaxGen = 2
  LateSettle = FALSE
  ReliableSubscribe = FALSE
SYMMETRY CallerSymmetry
INVARIANTS
  TypeOK
  AuthorityIsSingleUse
  OneExecution
  WritesStayInTheirGeneration
  NothingAfterATimeout
PROPERTIES
  SendsFollowTheConnection
  DisplaysGetWholePlans
