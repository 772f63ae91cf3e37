\* Every transaction, polled by the one worker of pjsua's default.
SPECIFICATION FairSpec
CONSTANT Workers = {w1}
PROPERTY ImplementsOneAnswer
\* The transaction ends, and nothing follows.
CHECK_DEADLOCK FALSE
