\* One caller outside vm.go, a passed-through device, a guest that may hang.
CONSTANTS
    c1 = c1
    Callers = {c1}
    Passthrough = TRUE
    GuestMayHang = TRUE
SPECIFICATION FairSpec
INVARIANTS
    TypeOK
    ShutdownRunsOnce
    DeviceIsGuarded
    ContextOutlivesQemu
    ReadyMeansSetUp
    LateErrorIsHarmless
    LockServesShutdown
PROPERTIES
    ImplementsContract
    SetupIsBounded
    QemuEndEndsRun
\* A VM that has ended takes no further step.
CHECK_DEADLOCK FALSE
