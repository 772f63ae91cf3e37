\* Six kinds of call, every interleaving of five requests.
SPECIFICATION Spec
CONSTANTS
  Parties = {a, b}
  MaxSent = 5
  Calls = {
    {"reinvite", "refresh", "answer", "none"},
    {"reinvite", "answer", "none", "mismatch", "challenge", "ackLost"},
    {"refresh", "answer", "none", "mismatch", "challenge", "ackLost"},
    {"update", "answer", "none", "mismatch", "challenge", "noCredentials", "transport"},
    {"delayed", "answer", "challenge"},
    {"reinvite", "update", "none"}
  }
INVARIANTS
  TypeOK
  Agreement
  OfferIsPending
\* a call is over when its requests are used up
CHECK_DEADLOCK FALSE
