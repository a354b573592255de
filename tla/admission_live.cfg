SPECIFICATION FairSpec
CONSTANTS
  NoClient = NoClient
  NoTask = NoTask
  NoKey = NoKey
  NoCase = NoCase
  Client = {c1, c2}
  Task = {t1, t2, t3}
  Key = {k1, k2, k3}
  Case = {x1}
CHECK_DEADLOCK FALSE
PROPERTY EveryRequestIsAnswered
