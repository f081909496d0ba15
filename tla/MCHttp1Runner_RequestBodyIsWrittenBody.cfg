CONSTANTS
    HeaderLen <- MCHeaderLen
    MaxBody <- MCMaxBody
    MaxChunk <- MCMaxChunk
    MaxCalls <- MCMaxCalls
    MaxTime <- MCMaxTime
    None = None

SPECIFICATION Spec

INVARIANT RequestBodyIsWrittenBody

CHECK_DEADLOCK FALSE
