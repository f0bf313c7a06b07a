\* Pulls of up to four messages in three seconds, lookups, two changes by
\* other clients.  The clock stops at its bound, so the run may stop.
CONSTANTS
  MaxMsgs = 4
  MaxTime = 6
  MaxFaults = 2
SPECIFICATION Spec
CHECK_DEADLOCK FALSE
INVARIANTS
  LogThrottled
PROPERTIES
  PullEnds
