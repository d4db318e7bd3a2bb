SPECIFICATION Spec
CONSTANTS
  Server = {1, 2}
  None = None
  Timeout = 2
  DefaultTimeout = 2
  Duration = 0
  UpdateTimeout = 1
  MaxIndex = 2
  Caller = {c1, c2}
  c1 = c1
  c2 = c2
  Config <- MCConfig
  Calling <- MCCalling
  Lists <- MCLists
INVARIANTS TypeOK BeatingServersListed SocketsAccounted AnswersFitCalls
PROPERTIES ListConverges CallsReturn
CHECK_DEADLOCK FALSE
