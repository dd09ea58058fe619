\* Three concurrent appends in one session that may fail at any point.
SPECIFICATION FairSpec
CONSTANTS
    a1 = a1
    a2 = a2
    a3 = a3
    NoAppend = NoAppend
    Appends <- ThreeAppends
    MaxRepeats = 1
\* Each append is made once, and the session may be over.
CHECK_DEADLOCK FALSE
INVARIANT TypeOK
INVARIANT AnswersAreTheServers
INVARIANT NoAppendIsForgotten
PROPERTY NoSuccessAfterAFailure
PROPERTY EveryAppendIsAnswered
