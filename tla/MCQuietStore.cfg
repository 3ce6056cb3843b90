CONSTANTS
    d1 = d1
    d2 = d2
    rPods = rPods
    rWidgets = rWidgets
    rGadgets = rGadgets
    Definers <- MCDefiners
    Resources <- MCResources
    Builtin <- MCBuiltin
    Defines <- MCDefines
    RelistDelay = 2
    MaxEvents = 3
    MaxTimeouts = 0
    MaxFailures = 0
    WithShutdown = FALSE
SPECIFICATION Spec
INVARIANT QuietStoreIsCurrent
