SPECIFICATION Spec
CONSTANTS
  Request = {r1, r2}
  Session = {r1, r2}
  r1 = r1
  r2 = r2
  Ctx = {x1, x2}
  None = None
  Config <- MCConfig
  Paths <- MCPaths
  Param = {":x"}
  Star = {"*f", "*"}
  Name <- MCName
  Login <- MCLogin
  MaxStatements = 2
INVARIANTS TypeOK RouterFindsBest HandlersRunInOrder PanicsAreAnswered TransactionAllOrNothing StatementHasItsClauses
CHECK_DEADLOCK FALSE
