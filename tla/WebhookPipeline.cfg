CONSTANTS
  e1 = e1
  e2 = e2
  j1 = j1
  q1 = q1
  q2 = q2
  q3 = q3
  Events = {e1, e2}
  Syncs = {e1}
  Requests = {q1, q2, q3}
  Jobs = {j1}
  MaxRetries = 2
  Regimes = {{"expiry", "error_returned"}, {"expiry"}, {"unknown", "crash", "db_fails", "expiry", "error_returned"}}
SPECIFICATION FairSpec
INVARIANTS
  HandledOnce
  AckedSettled
  CompletedIsDone
  FailedIsQueued
PROPERTIES
  RetriesEnd
CHECK_DEADLOCK FALSE
