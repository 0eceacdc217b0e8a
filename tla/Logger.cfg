CONSTANTS
  startup = startup
  partial = partial
  other = other
  c1 = c1
  c2 = c2
  c3 = c3
  Fixed = Fixed
  Nil = Nil
  None = None
  Request <- MCRequest
  Method <- MCMethod
  Body <- MCBody
  Data <- MCData
  Startup = startup
  Conn <- MCConn
SPECIFICATION Spec
INVARIANTS TypeOK WritersReady AnswersMatch
PROPERTIES Settled Terminates Answered
CHECK_DEADLOCK FALSE
