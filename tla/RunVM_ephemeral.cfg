\* Violated: RunVM returns without Cancel when InitLVM fails.
CONSTANTS
    Callers = {"main", "signal"}
    Passthrough = FALSE
    GuestMayHang = FALSE
    Commands = {"run"}
    WithTap = FALSE
    InterruptQueue = 1
    ForceAfter = 1
SPECIFICATION ProgramSpec
INVARIANTS
    VMIsEphemeral
\* A program that has ended takes no further step.
CHECK_DEADLOCK FALSE
