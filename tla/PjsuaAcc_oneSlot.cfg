\* One slot that two accounts may use in turn, two workers.
\* The application may stop calling, and everything else then too.
CONSTANTS
  Slots = {0}
  Workers = {w1, w2}
  Sessions = {1, 2, 3}
  MaxCalls = 3
SPECIFICATION FairSpec
INVARIANTS TypeOK NoOrphan RetryAlive
PROPERTIES ToldOfOwn RetriesSucceed
CHECK_DEADLOCK FALSE
