CONSTANTS
    d1 = d1
    d2 = d2
    rPods = rPods
    rWidgets = rWidgets
    rGadgets = rGadgets
    Definers <- MCDefiners
    Resources <- MCResources
    Builtin <- MCBuiltin
    Defines <- MCDefines
    RelistDelay = 2
    MaxEvents = 3
    MaxTimeouts = 1
    MaxFailures = 1
    WithShutdown = TRUE
SPECIFICATION Spec
INVARIANT TypeOK
INVARIANT DefinerIndexFaithful
PROPERTY AcceptedWatchSawLastInvalidation
PROPERTY CycleAwaitsQuietWindow
PROPERTY CatalogSafety
CHECK_DEADLOCK FALSE
