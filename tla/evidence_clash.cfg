SPECIFICATION Spec
CONSTANTS
  t1 = t1
  e1 = e1
  NoTask = NoTask
  Task = {t1}
  EarlierTask = {t0}
  Worker = {w1}
  EvidenceId = {e1}
  CaseEvidence <- OneCase
  Kinds = {"verified"}
  LeaseDuration = 1
  Skew = 0
  MaxFence = 2
  MaxCrashes = 0
  Timely = FALSE
PROPERTY ValidReportIsSaved
