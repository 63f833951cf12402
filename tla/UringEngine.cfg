\* A caller that catches; the indices wrap around during the run.
CONSTANTS
  Entries = 2
  RingSize = 2
  IndexSpan = 4
  LengthSpan = 3
  Lengths = {1, 2, 4}
  RetryAfterFailure = TRUE
  MaxReads = 7
  MaxEnterFailures = 2
SPECIFICATION Spec
INVARIANT ReadsWholeTile
INVARIANT LateByFailedEnters
INVARIANT EntriesSurvive
PROPERTY ReadsEnd
\* The bound on the number of requests ends the run.
CHECK_DEADLOCK FALSE
