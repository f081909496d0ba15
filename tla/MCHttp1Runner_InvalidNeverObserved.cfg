CONSTANTS
    HeaderLen <- MCHeaderLen
    MaxBody <- MCMaxBody
    MaxChunk <- MCMaxChunk
    MaxCalls <- MCMaxCalls
    MaxTime <- MCMaxTime
    None = None

SPECIFICATION Spec

INVARIANT InvalidNeverObserved

CHECK_DEADLOCK FALSE
