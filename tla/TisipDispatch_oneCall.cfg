SPECIFICATION FairSpec
CONSTANTS
  Apps = {js}
  Workers = {w}
  Slots = {c1}
  Dialogs = {d1, d2}
  MaxJobs = 7
  Jobs = {"placeCall", "answerCall", "hangUpCall", "incoming", "event", "pager"}
INVARIANTS
  TypeOK
  EventTellsCause
  EventsInOrder
PROPERTIES
  DisconnectReported
  JobsEnd
\* a run ends when its jobs are done
CHECK_DEADLOCK FALSE
