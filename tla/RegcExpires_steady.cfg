\* A registrar that says what it grants, but perhaps not what it insists on;
\* the application changes its timeout at any moment.
SPECIFICATION FairSpec
CONSTANTS
  Timeouts = {3, 4, 6}
  Delays = {1, 2}
  Minimums = {3, 5, 6}
  MaxGrant = 7
  MinDelay = 2
  Guess = 5
  Fallback = 6
  Word = 32
  WideLong = TRUE
  Quirks = {"noMinimum"}
  Modify = {"timeout"}
INVARIANTS
  TypeOK
  RefreshInTime
PROPERTIES
  RetryAccepted
  AttemptEnds
