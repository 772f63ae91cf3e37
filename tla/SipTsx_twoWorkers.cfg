\* Every transaction, polled by two workers.
SPECIFICATION FairSpec
CONSTANT Workers = {w1, w2}
INVARIANTS TypeOK NotForgotten LastMessageKept QuietAfterAnswer
PROPERTIES AskedIsAnswered CompletedEnds
\* The transaction ends, and nothing follows.
CHECK_DEADLOCK FALSE
