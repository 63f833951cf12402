\* A server of two processes, and one of a single process, with two kills or
\* errors of the marker between them.
CONSTANTS
  p1 = p1
  p2 = p2
  Servers <- MCServers
  FlushInterval = 2
  MaxCalls = 4
  MaxStarts = 3
  MaxFaults = 2
SPECIFICATION Spec
INVARIANT NeverOverCounts
INVARIANT SoleProcessKeepsEvidence
\* The bounds end the run.
CHECK_DEADLOCK FALSE
