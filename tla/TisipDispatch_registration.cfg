SPECIFICATION FairSpec
CONSTANTS
  Apps = {js}
  Workers = {w, w2}
  Slots = {c1}
  Dialogs = {d1}
  MaxJobs = 6
  Jobs = {"register", "refresh", "unregister", "regState", "pager"}
PROPERTY JobsEnd
\* a run ends when its jobs are done
CHECK_DEADLOCK FALSE
