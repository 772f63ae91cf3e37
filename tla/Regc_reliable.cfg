\* A transport that never fails at once; one application thread, one worker.
SPECIFICATION FairSpec
CONSTANTS
  Apps = {app}
  Workers = {worker}
  MaxSend = 3
  Failures = {}
INVARIANTS
  TypeOK
  ReleasedUnused
  OneRequest
  NoCircularWait
  RefreshKept
  NoTimerAfterRelease
  NoReadAfterRelease
PROPERTIES
  ReleasedEventually
  OperationsReturn
\* A released registration does nothing any more.
CHECK_DEADLOCK FALSE
