CONSTANTS
    g1 = g1
    g2 = g2
    v1 = v1
    v2 = v2
    pods = pods
    status = status
    scale = scale
    NoSpec = NoSpec
    Groups <- MCGroups
    Versions <- MCVersions
    VersionOrder <- MCVersionOrder
    NameChoices <- MCNameChoices
SPECIFICATION Spec
INVARIANT ModesListSameResources
CHECK_DEADLOCK FALSE
