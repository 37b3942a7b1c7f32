SPECIFICATION ReviewSpec
CONSTANTS
  ReviewJobs = {"j1"}
  Attempts = {"a1", "a2"}
  MaxReviewFaults = 1
  MaxVisitors = 0
INVARIANT
  RetryDoesNotDoublePost
CHECK_DEADLOCK FALSE
