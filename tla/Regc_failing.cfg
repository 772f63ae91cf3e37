\* Every way a send can fail at once.
SPECIFICATION Spec
CONSTANTS
  Apps = {app}
  Workers = {worker}
  MaxSend = 3
  Failures = {"create", "callback", "silent"}
INVARIANT
  CallbackOwnsAccount
PROPERTY
  ImplementsRefcount
\* A released registration does nothing any more.
CHECK_DEADLOCK FALSE
