SPECIFICATION Spec
CONSTANTS
  t1 = t1
  e1 = e1
  NoTask = NoTask
  Task = {t1}
  EarlierTask = {t0}
  Worker = {w1, w2}
  EvidenceId = {e1}
  CaseEvidence <- OneCase
  Kinds = {"verified", "historical"}
  LeaseDuration = 3
  Skew = 1
  MaxFence = 3
  MaxCrashes = 1
  Timely = FALSE
SYMMETRY WorkerSymmetry
INVARIANT TypeOK
INVARIANT OneLeaseholder
INVARIANT EvidenceBacksReport
PROPERTY OnlyLatestClaimSettles
PROPERTY SettledIsFinal
PROPERTY ImplementsLifecycle
