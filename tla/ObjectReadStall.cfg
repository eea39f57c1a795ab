SPECIFICATION FairSpec
CONSTANTS
  MaxItems = 1
  MaxJson = 2
  ExtractStamp = FALSE
  LimitAge = FALSE
PROPERTY ResetIsRetryable
CHECK_DEADLOCK FALSE
