SPECIFICATION Spec
CONSTANTS
  Answers <- MCAnswers
  Grants <- MCGrants
  Links <- MCLinks
  Scores = {14, 25}
  Questions = {1, 2}
  Explaining = TRUE
  MaxAttempts = 2
  Now = 2
  MaxCrashes = 1
INVARIANT TypeOK
INVARIANT CollectionFollowsPlan
INVARIANT DraftsAreValid
INVARIANT CompletedHidesNothing
INVARIANT PartialNamesItsGaps
INVARIANT JudgementIsGrounded
INVARIANT NoCausalClaim
INVARIANT SavedEvidenceIsReported
CHECK_DEADLOCK FALSE
