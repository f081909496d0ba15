\* The runner's timing and write-path properties hold on every path,
\* including the ones that end in a panic.
CONSTANTS
    HeaderLen <- MCHeaderLen
    MaxBody <- MCMaxBody
    MaxChunk <- MCMaxChunk
    MaxCalls <- MCMaxCalls
    MaxTime <- MCMaxTime
    None = None

SPECIFICATION Spec

INVARIANT TypeOK
INVARIANT TimestampOrder
INVARIANT DurationsConsistent
INVARIANT WriteCallsInSendingState
PROPERTY StampsTakenOnce

\* The runner stops for good after finish() or a panic.
CHECK_DEADLOCK FALSE
