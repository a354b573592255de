SPECIFICATION FairSpec
CONSTANTS
  t1 = t1
  e1 = e1
  NoTask = NoTask
  Task = {t1}
  EarlierTask = {t0}
  Worker = {w1, w2}
  EvidenceId = {e1}
  CaseEvidence <- OneCase
  Kinds = {"verified", "historical", "duplicate"}
  LeaseDuration = 2
  Skew = 0
  MaxFence = 3
  MaxCrashes = 2
  Timely = TRUE
PROPERTY EveryTaskSettles
PROPERTY EveryWorkerReturns
PROPERTY NoWorkLostWhileRenewing
