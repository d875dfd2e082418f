SPECIFICATION Spec
CONSTANTS
  Limits <- MCLimits
  MaxWait = 7320
  Retries = 6
  Backoff = 3
  RetryAfter <- MCRetryAfter
  Plans <- MCPlans
  YearCost = 643
  Answers <- MCAnswers
  QuickAnswer = 2
  Timeout = 600
  StepTimeout = 9000
INVARIANTS WithinTheBudgets AllOrNothing AffordableLoadsFit
PROPERTIES RunsDown UsesTheLimiter
