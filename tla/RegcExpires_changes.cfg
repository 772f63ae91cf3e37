\* Short grants, settings changed at any time, answers that say nothing.
\* A long has 32 bits here.
SPECIFICATION FairSpec
CONSTANTS
  Timeouts = {3, 6}
  Delays = {1, 4}
  Minimums = {1, 4}
  MaxGrant = 6
  MinDelay = 2
  Guess = 5
  Fallback = 6
  Word = 32
  WideLong = FALSE
  Quirks = {"silent", "noMinimum"}
  Modify = {"timeout", "delay"}
INVARIANTS
  RefreshNotLost
