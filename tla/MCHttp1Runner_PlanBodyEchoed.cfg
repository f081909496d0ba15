CONSTANTS
    HeaderLen <- MCHeaderLen
    MaxBody <- MCMaxBody
    MaxChunk <- MCMaxChunk
    MaxCalls <- MCMaxCalls
    MaxTime <- MCMaxTime
    None = None

SPECIFICATION Spec

INVARIANT PlanBodyEchoed

CHECK_DEADLOCK FALSE
