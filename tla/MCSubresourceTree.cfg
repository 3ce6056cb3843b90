CONSTANTS
    pods = pods
    status = status
    scale = scale
    Segments <- MCSegments
    MaxDepth = 3
    MaxNames = 3
    NoSpec = NoSpec
SPECIFICATION Spec
INVARIANT TypeOK
INVARIANT ListMatchesReference
CHECK_DEADLOCK FALSE
