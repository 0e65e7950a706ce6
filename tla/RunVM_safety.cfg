\* Both kinds of commands, a tap to configure, and a guest that may hang.
CONSTANTS
    Callers = {"main", "signal"}
    Passthrough = FALSE
    GuestMayHang = TRUE
    Commands = {"build", "run"}
    WithTap = TRUE
    InterruptQueue = 1
    ForceAfter = 1
SPECIFICATION ProgramSpec
INVARIANTS
    ReturnLeavesNoQemu
    SuccessIsComplete
\* A program that has ended takes no further step.
CHECK_DEADLOCK FALSE
