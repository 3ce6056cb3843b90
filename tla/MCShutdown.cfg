CONSTANTS
    d1 = d1
    d2 = d2
    rPods = rPods
    rWidgets = rWidgets
    rGadgets = rGadgets
    Definers <- MCDefiners
    Resources <- MCResources
    Builtin <- MCBuiltin
    Defines <- MCDefines
    RelistDelay = 2
    MaxEvents = 1
    MaxTimeouts = 1
    MaxFailures = 0
    WithShutdown = TRUE
SPECIFICATION Spec
CHECK_DEADLOCK FALSE
PROPERTY RelisterExitsAfterShutdown
