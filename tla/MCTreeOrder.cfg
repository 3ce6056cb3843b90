CONSTANTS
    pods = pods
    status = status
    scale = scale
    Segments <- MCSegments
    MaxDepth = 2
    MaxNames = 3
    NoSpec = NoSpec
SPECIFICATION Spec


INVARIANT ListIsDeterministic
CHECK_DEADLOCK FALSE
