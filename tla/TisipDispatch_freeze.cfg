SPECIFICATION FairSpec
CONSTANTS
  Apps = {js}
  Workers = {w}
  Slots = {c1}
  Dialogs = {d1}
  MaxJobs = 4
  Jobs = {"refresh", "incoming", "event"}
PROPERTY JobsEnd
\* a run ends when its jobs are done
CHECK_DEADLOCK FALSE
