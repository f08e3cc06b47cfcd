\* Two calls over one end to a server that is started twice.
SPECIFICATION FairSpec
CONSTANTS
  Call = {c1, c2}
  End = {e1}
  EndOf <- SameEnd
  Instances = 2
INVARIANTS
  TypeOK
PROPERTIES
  AtMostOnceRpc
  CallReturns
  DeadServerFreesCaller
  HandlersEnd

\* The tester stops when it has started the server Instances times.
CHECK_DEADLOCK FALSE
