SPECIFICATION Spec
CONSTANTS
  NoClient = NoClient
  NoTask = NoTask
  NoKey = NoKey
  NoCase = NoCase
  Client = {c1, c2, c3}
  Task = {t1, t2, t3}
  Key = {k1, k2, k3}
  Case = {x1, x2}
SYMMETRY Symmetry
CHECK_DEADLOCK FALSE
INVARIANT TypeOK
INVARIANT OneStartPerCase
INVARIANT OneSuccessor
INVARIANT AnswerFitsRequest
INVARIANT NoDeadlock
PROPERTY RecordedKeyIsFinal
PROPERTY ImplementsRegister
